-------------------------------- MODULE CDS --------------------------------
(***************************************************************************)
(* The Critical Data Store of Executive Services: named blocks in a memory *)
(* that a processor reset does not clear.  The registry of names is kept    *)
(* twice, in the store and, for use, in ordinary memory; the blocks come    *)
(* from a bucket pool whose descriptors lie in the store and whose lists    *)
(* do not.  A call holds the mutex of the CDS throughout, so that calls do  *)
(* not overlap; but each writes to the store several times, and a reset can *)
(* come between two writes.  One action is one write, with what precedes    *)
(* it.  A write is complete or has not been made; the platform's accesses   *)
(* to the store do not fail.  Left out: the flag for critical tables, which *)
(* only says which service may delete a block, and the check that the store *)
(* is large enough.                                                         *)
(***************************************************************************)
EXTENDS GenPool

CONSTANTS
  Names,          \* full names, "application.name"
  Sizes,          \* the sizes of blocks that applications ask for, with the header
  Images,         \* what a block may contain;
  Blank,          \*   one of them is all zeros, as the store is once it is cleared
  MaxEntries,     \* CFE_PLATFORM_ES_CDS_MAX_NUM_ENTRIES
  LastId,         \* bound on the IDs that are issued
  MaxResets,      \* bound on the resets of either kind
  AnyMoment,      \* whether a reset may come while the stored registry is behind
  None, Lost

ASSUME CDSAssumption ==
  /\ Sizes \subseteq Nat \ {0} /\ MaxEntries \in Nat \ {0} /\ {LastId, MaxResets} \subseteq Nat
  /\ Blank \in Images /\ None \notin Images \cup Names /\ Lost \notin Images /\ Lost # None
  /\ AnyMoment \in BOOLEAN

VARIABLES
  sig,     \* in the store: both signatures are right,
  sized,   \*   the size of the registry is right,
  stored,  \*   the registry,
  desc,    \*   the descriptors of the pool,
  mem,     \*   and the contents of its blocks, with their CRCs
  boot,    \* in memory: how far CFE_ES_CDS_EarlyInit has come,
  reg,     \*   Registry,
  lastId,  \*   LastCDSBlockId,
  pool,    \*   the lists of the pool,
  call,    \*   the call that holds GenMutex,
  handle,  \*   and the handles that applications got for their blocks
  resets   \* how many resets there were

storeVars == <<sig, sized, stored, desc, mem>>
vars == <<sig, sized, stored, desc, mem, boot, reg, lastId, pool, call, handle, resets>>

Slots  == 0 .. MaxEntries - 1
NoRec  == [id |-> 0, name |-> None, offset |-> 0, size |-> 0]
NoReg  == [s \in Slots |-> NoRec]
NoCall == [op |-> None, name |-> None, size |-> 0, slot |-> 0, id |-> 0, image |-> Blank]

\* What a CRC tells apart: an image and its size; zeros of any size have CRC zero.
Stamp(x, size) == IF x = Blank THEN <<Blank, 0>> ELSE <<x, size>>
Cleared == [crc |-> Stamp(Blank, 0), data |-> Stamp(Blank, 0)]

-----------------------------------------------------------------------------
(* Start and reset *)

\* A reset: memory is as when the processor starts.
Restarted ==
  /\ boot' = "check" /\ reg' = NoReg /\ lastId' = 0 /\ pool' = EmptyPool /\ call' = NoCall
  /\ handle' = [n \in Names |-> 0]

Init ==
  /\ sig = FALSE /\ sized = FALSE /\ stored = NoReg
  /\ desc = [o \in Offsets |-> NoDesc] /\ mem = [o \in Offsets |-> Cleared]
  /\ boot = "check" /\ reg = NoReg /\ lastId = 0 /\ pool = EmptyPool /\ call = NoCall
  /\ handle = [n \in Names |-> 0] /\ resets = 0

\* The registry in the store is behind: a block that it names has been given back, to
\* be deleted or to be resized, and the registry has not been saved since.
Behind ==
  \/ call.op = "saveDelete"
  \/ call.op = "save" /\ stored[call.slot].id # 0
  \/ \E s \in Slots : reg[s].id # 0 /\ reg[s].offset = 0 /\ stored[s].offset # 0

ProcessorReset ==
  /\ resets < MaxResets /\ resets' = resets + 1
  /\ boot # "up" \/ AnyMoment \/ ~Behind
  /\ Restarted /\ UNCHANGED storeVars
\* The store has what it had, or anything else, without its signatures.
PowerOnReset ==
  /\ resets < MaxResets /\ resets' = resets + 1
  /\ Restarted /\ sig' = FALSE /\ UNCHANGED <<sized, stored, desc, mem>>

\* CFE_ES_ValidateCDS, then CFE_ES_RebuildCDS
ValidateCDS ==
  /\ boot = "check"
  /\ IF sig /\ sized
       THEN /\ boot' = "up" /\ reg' = stored
            /\ desc' = RebuiltDescs(desc) /\ pool' = RebuiltPool(desc)
       ELSE boot' = "clear" /\ UNCHANGED <<reg, desc, pool>>
  /\ UNCHANGED <<sig, sized, stored, mem, lastId, call, handle, resets>>
\* CFE_ES_ClearCDS
ClearCDS ==
  /\ boot = "clear" /\ boot' = "sign"
  /\ sig' = FALSE /\ sized' = FALSE /\ stored' = NoReg
  /\ desc' = [o \in Offsets |-> NoDesc] /\ mem' = [o \in Offsets |-> Cleared]
  /\ UNCHANGED <<reg, lastId, pool, call, handle, resets>>
\* CFE_ES_InitCDSSignatures, then CFE_ES_CreateCDSPool
InitCDSSignatures ==
  /\ boot = "sign" /\ boot' = "size" /\ sig' = TRUE /\ pool' = EmptyPool
  /\ UNCHANGED <<sized, stored, desc, mem, reg, lastId, call, handle, resets>>
\* CFE_ES_InitCDSRegistry: the size, then the registry.
InitCDSRegistry ==
  \/ /\ boot = "size" /\ boot' = "registry" /\ sized' = TRUE
     /\ UNCHANGED <<sig, stored, desc, mem, reg, lastId, pool, call, handle, resets>>
  \/ /\ boot = "registry" /\ boot' = "up" /\ reg' = NoReg /\ stored' = NoReg
     /\ UNCHANGED <<sig, sized, desc, mem, lastId, pool, call, handle, resets>>

-----------------------------------------------------------------------------
(* CFE_ES_RegisterCDSEx *)

Ready  == boot = "up" /\ call = NoCall
Slot(id) == id % MaxEntries                              \* CFE_ES_CDSHandle_ToIndex
\* CFE_ES_LocateCDSBlockRecordByName
Named(n) == {s \in Slots : reg[s].id # 0 /\ reg[s].name = n}
\* CFE_ResourceId_FindNext
FreeIds == {k \in lastId + 1 .. lastId + MaxEntries : reg[Slot(k)].id = 0}
NextId  == CHOOSE k \in FreeIds : \A j \in FreeIds : k <= j

\* A name that exists in this size is given as it is.
RegisterAgain(n, size) ==
  /\ Ready
  /\ \E s \in Named(n) : /\ reg[s].offset # 0 /\ reg[s].size = size
                         /\ handle' = [handle EXCEPT ![n] = reg[s].id]
  /\ UNCHANGED <<storeVars, boot, reg, lastId, pool, call, resets>>
\* In another size, the block it has is given back first.
RegisterResize(n, size) ==
  /\ Ready
  /\ \E s \in Named(n) :
       /\ reg[s].size # size
       /\ \/ /\ reg[s].offset # 0 /\ IsBlock(desc, pool, reg[s].offset)
             /\ desc' = PutDescs(desc, pool, reg[s].offset)
             /\ pool' = PutPool(desc, pool, reg[s].offset)
          \/ reg[s].offset = 0 /\ UNCHANGED <<desc, pool>>
       /\ reg' = [reg EXCEPT ![s].offset = 0, ![s].size = 0]
       /\ call' = [NoCall EXCEPT !.op = "get", !.name = n, !.size = size, !.slot = s, !.id = reg[s].id]
  /\ handle' = [handle EXCEPT ![n] = 0]
  /\ UNCHANGED <<sig, sized, stored, mem, boot, lastId, resets>>
\* A new name gets the next free record.
RegisterNew(n, size) ==
  /\ Ready /\ Named(n) = {} /\ FreeIds # {} /\ NextId <= LastId
  /\ lastId' = NextId /\ reg' = [reg EXCEPT ![Slot(NextId)] = NoRec]
  /\ call' = [NoCall EXCEPT !.op = "get", !.name = n, !.size = size, !.slot = Slot(NextId), !.id = NextId]
  /\ UNCHANGED <<storeVars, boot, pool, handle, resets>>

\* Mutant of RegisterGet: the record is in use before there is a block for it.
RegisterGetEarly ==
  LET s == call.slot IN
    /\ call.op = "get"
    /\ reg' = [reg EXCEPT ![s] = [id |-> call.id, name |-> call.name, size |-> call.size,
                 offset |-> IF CanGet(desc, pool, call.size) THEN GetOffset(desc, pool, call.size)
                            ELSE pool.tail + DescSize]]
    /\ IF CanGet(desc, pool, call.size)
         THEN /\ desc' = GetDescs(desc, pool, call.size) /\ pool' = GetPool(desc, pool, call.size)
              /\ call' = [call EXCEPT !.op = "save"]
         ELSE call' = NoCall /\ UNCHANGED <<desc, pool>>
    /\ UNCHANGED <<sig, sized, stored, mem, boot, lastId, handle, resets>>
\* The block; when there is none, the record keeps what it has lost.
RegisterGet ==
  LET s == call.slot IN
    /\ call.op = "get"
    /\ IF CanGet(desc, pool, call.size)
         THEN /\ desc' = GetDescs(desc, pool, call.size) /\ pool' = GetPool(desc, pool, call.size)
              /\ reg' = [reg EXCEPT ![s] = [id |-> call.id, name |-> call.name, size |-> call.size,
                                            offset |-> GetOffset(desc, pool, call.size)]]
              /\ call' = [call EXCEPT !.op = "save"]
         ELSE call' = NoCall /\ UNCHANGED <<desc, pool, reg>>
    /\ UNCHANGED <<sig, sized, stored, mem, boot, lastId, handle, resets>>
\* CFE_ES_UpdateCDSRegistry
RegisterSave ==
  /\ call.op = "save" /\ stored' = reg /\ call' = NoCall
  /\ handle' = [handle EXCEPT ![call.name] = call.id]
  /\ UNCHANGED <<sig, sized, desc, mem, boot, reg, lastId, pool, resets>>

-----------------------------------------------------------------------------
(* CFE_ES_CopyToCDS, RestoreFromCDS, DeleteCDS *)

\* CFE_ES_CDSBlockWrite: the block is checked and the CRC of the new image written,
CopyHeader(n, x) ==
  LET r == reg[Slot(handle[n])] IN
    /\ Ready /\ handle[n] # 0 /\ r.id = handle[n]
    /\ IsBlock(desc, pool, r.offset) /\ desc[r.offset].size = r.size
    /\ mem' = [mem EXCEPT ![r.offset].crc = Stamp(x, r.size)]
    /\ call' = [NoCall EXCEPT !.op = "data", !.name = n, !.image = x, !.slot = Slot(handle[n])]
    /\ UNCHANGED <<sig, sized, stored, desc, boot, reg, lastId, pool, handle, resets>>
\* then the image.
CopyData ==
  LET r == reg[call.slot] IN
    /\ call.op = "data" /\ call' = NoCall
    /\ mem' = [mem EXCEPT ![r.offset].data = Stamp(call.image, r.size)]
    /\ UNCHANGED <<sig, sized, stored, desc, boot, reg, lastId, pool, handle, resets>>

\* Mutant of BlockRead: the CRC is not compared.
BlockReadAny(r) ==
  IF r.offset = 0 \/ desc[r.offset].state # "allocated" \/ desc[r.offset].size # r.size THEN Lost
  ELSE mem[r.offset].data[1]
\* CFE_ES_CDSBlockRead: what a restore gives, or that it fails.
BlockRead(r) ==
  IF r.offset = 0 \/ desc[r.offset].state # "allocated" \/ desc[r.offset].size # r.size THEN Lost
  ELSE LET m == mem[r.offset] IN
    IF m.crc = m.data /\ m.data = Stamp(m.data[1], r.size) THEN m.data[1] ELSE Lost

\* The application that owns a block stops.
OwnerStops(n) ==
  /\ Ready /\ handle[n] # 0 /\ handle' = [handle EXCEPT ![n] = 0]
  /\ UNCHANGED <<storeVars, boot, reg, lastId, pool, call, resets>>
\* CFE_ES_DeleteCDS, unless the owner is active: the block is given back,
DeleteCDS(n) ==
  /\ Ready /\ handle[n] = 0
  /\ \E s \in Named(n) :
       /\ IsBlock(desc, pool, reg[s].offset)
       /\ desc' = PutDescs(desc, pool, reg[s].offset) /\ pool' = PutPool(desc, pool, reg[s].offset)
       /\ reg' = [reg EXCEPT ![s].id = 0]
  /\ call' = [NoCall EXCEPT !.op = "saveDelete", !.name = n]
  /\ UNCHANGED <<sig, sized, stored, mem, boot, lastId, handle, resets>>
\* Mutant of DeleteSave: the registry in the store is not updated.
DeleteSaveNot ==
  /\ call.op = "saveDelete" /\ call' = NoCall
  /\ UNCHANGED <<sig, sized, stored, desc, mem, boot, reg, lastId, pool, handle, resets>>
\* and the registry saved.
DeleteSave ==
  /\ call.op = "saveDelete" /\ stored' = reg /\ call' = NoCall
  /\ UNCHANGED <<sig, sized, desc, mem, boot, reg, lastId, pool, handle, resets>>

-----------------------------------------------------------------------------
EarlyInit == ValidateCDS \/ ClearCDS \/ InitCDSSignatures \/ InitCDSRegistry
Continue  == RegisterGet \/ RegisterSave \/ CopyData \/ DeleteSave
Begin(n)  == \/ \E size \in Sizes : RegisterAgain(n, size) \/ RegisterResize(n, size) \/ RegisterNew(n, size)
             \/ \E x \in Images : CopyHeader(n, x)
             \/ OwnerStops(n) \/ DeleteCDS(n)
Next == EarlyInit \/ Continue \/ (\E n \in Names : Begin(n)) \/ ProcessorReset \/ PowerOnReset
Spec == Init /\ [][Next]_vars

-----------------------------------------------------------------------------
(* Properties *)

RegRecs == [id : 0 .. LastId, name : Names \cup {None}, offset : Offsets \cup {0}, size : Sizes \cup {0}]
Stamps  == {Stamp(x, size) : x \in Images, size \in Sizes}

\* Every variable keeps its type: those of cfe_es_cds.h within the bounds.
TypeOK ==
  /\ sig \in BOOLEAN /\ sized \in BOOLEAN
  /\ stored \in [Slots -> RegRecs] /\ reg \in [Slots -> RegRecs]
  /\ desc \in [Offsets -> Descs] /\ pool \in Pools
  /\ mem \in [Offsets -> [crc : Stamps, data : Stamps]]
  /\ boot \in {"check", "clear", "sign", "size", "registry", "up"}
  /\ lastId \in 0 .. LastId /\ handle \in [Names -> 0 .. LastId] /\ resets \in 0 .. MaxResets
  /\ call \in [op : {None, "get", "save", "data", "saveDelete"}, name : Names \cup {None},
               size : Sizes \cup {0}, slot : Slots, id : 0 .. LastId, image : Images]

\* No two blocks of the pool overlap and none goes over its end, whether the
\* blocks were made or found again after a reset (CFE_ES_GenPoolCreatePoolBlock,
\* CFE_ES_GenPoolRebuild).
BlocksApart ==
  \A o \in Made(desc) :
    /\ Extent(desc, o) \subseteq 0 .. PoolSize - 1
    /\ (boot = "up" => o + BucketSizes[desc[o].bucket] <= pool.tail)
    /\ \A q \in Made(desc) \ {o} : Extent(desc, o) \cap Extent(desc, q) = {}
\* The list of a bucket runs through the blocks that were given back to it, each
\* once, and through no other, before and after a reset (CFE_ES_GenPoolPutBlock,
\* CFE_ES_GenPoolRecyclePoolBlock, CFE_ES_GenPoolRebuild).
ListsExact ==
  boot = "up" => \A b \in Buckets :
    /\ Chain(desc, pool, b) = {o \in Made(desc) : desc[o].state = "deallocated" /\ desc[o].bucket = b}
    /\ Cardinality(Chain(desc, pool, b)) = pool.waiting[b]

\* The memory of the pool is cut into blocks that are each in use or on one list.
PoolExact == BlocksApart /\ ListsExact

Owned(r) == r.id # 0 /\ r.offset # 0
\* A block that the registry names is allocated, in the size it names, and named
\* once; so is a name (CFE_ES_RegisterCDSEx, CFE_ES_DeleteCDS, CFE_ES_RebuildCDS).
OneOwner ==
  boot = "up" => \A s \in Slots : reg[s].id # 0 =>
    /\ Slot(reg[s].id) = s
    /\ (Owned(reg[s]) => IsBlock(desc, pool, reg[s].offset) /\ desc[reg[s].offset].size = reg[s].size)
    /\ \A t \in Slots \ {s} : Owned(reg[t]) => reg[t].offset # reg[s].offset
    /\ \A t \in Slots \ {s} : reg[t].id # 0 => reg[t].name # reg[s].name

\* What a name keeps, whatever comes: by the registry in use, but for the call that is
\* changing it; by the one in the store while there is no other.
Keeps(r, n) ==
  IF \E s \in Slots : r[s].id # 0 /\ r[s].name = n
    THEN BlockRead(r[CHOOSE s \in Slots : r[s].id # 0 /\ r[s].name = n]) ELSE None
Kept(n) ==
  IF boot # "up" THEN IF sig /\ sized THEN Keeps(stored, n) ELSE None
  ELSE IF call.op \in {"get", "save", "saveDelete"} /\ call.name = n
         THEN IF \E s \in Slots : stored[s].id # 0 /\ stored[s].name = n THEN Lost ELSE None
         ELSE Keeps(reg, n)

Store == INSTANCE CDSStore WITH
  kept <- [n \in Names |-> Kept(n)],
  copy <- IF call.op = "data" THEN <<call.name, call.image>> ELSE None
\* The names keep what they were given: no call for one name touches another, and no
\* reset changes anything (CFE_ES_CopyToCDS, CFE_ES_RestoreFromCDS).  That is so if no
\* processor reset comes while the registry in the store is behind: then the block that
\* it still names may have been given to another.
NamesKeep == Store!Spec
=============================================================================
