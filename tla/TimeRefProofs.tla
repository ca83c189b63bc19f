---------------------------- MODULE TimeRefProofs ----------------------------
(***************************************************************************)
(* Proofs about the time reference, for any number of readers and fields,  *)
(* any depth of the ring of at least two and any number of retries.  The   *)
(* heart of the argument: a slot only ever goes to newer versions, and two *)
(* versions that share a slot are at least Depth apart.                    *)
(***************************************************************************)
EXTENDS TimeRef, TLAPS

USE DepthAssumption, RetriesAssumption, VersionAssumption, ChangesAssumption

-----------------------------------------------------------------------------
(* Versions and slots.                                                     *)

\* Every version has a slot, with the quotient that says which turn it is.
LEMMA Division ==
  ASSUME NEW v \in Nat
  PROVE  /\ SlotOf(v) \in Slots
         /\ v \div Depth \in Nat
         /\ v = Depth * (v \div Depth) + (v % Depth)
BY DEF SlotOf, Slots

\* Two different multiples of the depth are a depth apart.
LEMMA Gap ==
  ASSUME NEW p \in Nat, NEW q \in Nat, p < q
  PROVE  Depth * q >= Depth * p + Depth
<1>1. q = p + 1 + (q - p - 1) /\ q - p - 1 \in Nat
  OBVIOUS
<1>2. Depth * q = Depth * p + Depth + Depth * (q - p - 1)
  BY <1>1
<1>3. Depth * (q - p - 1) \in Nat
  BY <1>1
<1> QED
  BY <1>2, <1>3

\* A version that takes over the slot of another comes Depth updates later.
LEMMA SameSlot ==
  ASSUME NEW v \in Nat, NEW w \in Nat, SlotOf(v) = SlotOf(w), v < w
  PROVE  w >= v + Depth
<1>1. v \div Depth \in Nat /\ w \div Depth \in Nat
  BY Division
<1>2. v = Depth * (v \div Depth) + (v % Depth) /\ w = Depth * (w \div Depth) + (w % Depth)
  BY Division
<1>3. v % Depth = w % Depth
  BY DEF SlotOf
<1>4. v \div Depth < w \div Depth
  <2>1. CASE w \div Depth < v \div Depth
    BY <1>1, <1>2, <1>3, <2>1, Gap
  <2>2. CASE w \div Depth = v \div Depth
    BY <1>2, <1>3, <2>2
  <2> QED
    BY <1>1, <2>1, <2>2
<1> QED
  BY <1>1, <1>2, <1>3, <1>4, Gap

\* The update in progress never writes the buffer that is in force.
LEMMA NextSlot ==
  ASSUME NEW v \in Nat
  PROVE  SlotOf(v) # SlotOf(v + 1)
BY SameSlot

-----------------------------------------------------------------------------
(* The inductive invariant.                                                *)

Newest == IF step = "idle" THEN last ELSE last + 1

\* The buffer in force has the last version, the one being filled the next,
\* and every buffer in use holds a version that belongs in it.
BuffersOK ==
  /\ version[SlotOf(last)] = last
  /\ Newest \in Versions
  /\ version[SlotOf(Newest)] = Newest
  /\ \A s \in Slots : version[s] # Never => SlotOf(version[s]) = s /\ version[s] <= Newest

\* As long as the buffer a reader copies has the version it read, what it has
\* copied is what it met; afterwards the buffer has a newer version.
CopyOK(r) ==
  /\ first[r] <= ver[r] /\ ver[r] <= last
  /\ version[SlotOf(ver[r])] >= ver[r]
  /\ version[SlotOf(ver[r])] = ver[r] =>
       /\ data[SlotOf(ver[r])] = seen[r]
       /\ \A f \in Fields \ toRead[r] : copy[r][f] = seen[r][f]
  /\ ver[r] - first[r] >= (Depth - 1) * (MaxRetries - retry[r])

ReadersOK ==
  \A r \in Readers :
    /\ pc[r] = "read" => CopyOK(r)
    /\ pc[r] = "look" => last - first[r] >= (Depth - 1) * (MaxRetries - retry[r])

IInv == TypeOK /\ BuffersOK /\ ReadersOK

\* CFE_TIME_InitData leaves two versions in two different buffers.
LEMMA Initially ==
  Init => IInv
<1> SUFFICES ASSUME Init
             PROVE  IInv
  OBVIOUS
<1>1. SlotOf(1) \in Slots /\ SlotOf(2) \in Slots /\ SlotOf(1) # SlotOf(2)
  BY Division, NextSlot
<1>2. TypeOK
  BY <1>1 DEF Init, TypeOK, Values, Versions, Never
<1>3. BuffersOK
  BY <1>1 DEF Init, BuffersOK, Newest, Versions, Never
<1>4. ReadersOK
  BY DEF Init, ReadersOK
<1> QED
  BY <1>2, <1>3, <1>4 DEF IInv

-----------------------------------------------------------------------------
(* The steps of the update.                                                *)

LEMMA StartStep ==
  ASSUME IInv, NEW S \in Changes, StartReferenceUpdate(S)
  PROVE  IInv'
<1> USE DEF IInv
<1>1. last \in Nat /\ last + 1 \in Versions /\ SlotOf(last + 1) \in Slots /\ SlotOf(last) \in Slots
  BY Division DEF TypeOK, Versions, StartReferenceUpdate
<1>2. SlotOf(last) # SlotOf(last + 1)
  BY <1>1, NextSlot
<1>3. TypeOK'
  BY <1>1 DEF TypeOK, StartReferenceUpdate, readerVars
<1>4. version' = [version EXCEPT ![SlotOf(last + 1)] = last + 1] /\ last' = last /\ Newest' = last + 1
  BY DEF StartReferenceUpdate, Newest
<1>5. BuffersOK'
  <2>1. version'[SlotOf(last)] = last /\ version'[SlotOf(last + 1)] = last + 1
    BY <1>1, <1>2, <1>4 DEF TypeOK, BuffersOK
  <2>2. ASSUME NEW s \in Slots, version'[s] # Never
        PROVE  SlotOf(version'[s]) = s /\ version'[s] <= last + 1
    <3>1. CASE s = SlotOf(last + 1)
      BY <2>1, <3>1, <1>1
    <3>2. CASE s # SlotOf(last + 1)
      <4>1. version'[s] = version[s]
        BY <1>4, <3>2 DEF TypeOK
      <4>2. Newest = last
        BY DEF Newest, StartReferenceUpdate
      <4>3. version[s] \in Int /\ version[s] <= last /\ SlotOf(version[s]) = s
        BY <2>2, <4>1, <4>2 DEF BuffersOK, TypeOK, Versions, Never
      <4> QED
        BY <4>1, <4>3, <1>1
    <3> QED
      BY <3>1, <3>2
  <2> QED
    BY <2>1, <2>2, <1>1, <1>4 DEF BuffersOK
<1>6. ASSUME NEW r \in Readers, pc[r] = "read"
      PROVE  CopyOK(r)'
  <2>1. CopyOK(r) /\ ver[r] \in Nat /\ SlotOf(ver[r]) \in Slots /\ ver[r] < last + 1
    BY <1>1, <1>6, Division DEF ReadersOK, CopyOK, TypeOK, Versions
  <2>2. UNCHANGED <<ver, seen, first, retry, copy, toRead, data>>
    BY DEF StartReferenceUpdate, readerVars
  <2>3. CASE SlotOf(ver[r]) = SlotOf(last + 1)
    <3>1. version'[SlotOf(ver[r])] = last + 1
      BY <1>1, <1>4, <2>3 DEF TypeOK
    <3> QED
      BY <1>1, <1>4, <2>1, <2>2, <3>1 DEF CopyOK
  <2>4. CASE SlotOf(ver[r]) # SlotOf(last + 1)
    <3>1. version'[SlotOf(ver[r])] = version[SlotOf(ver[r])]
      BY <1>4, <2>1, <2>4 DEF TypeOK
    <3> QED
      BY <1>4, <2>1, <2>2, <3>1 DEF CopyOK
  <2> QED
    BY <2>3, <2>4
<1>7. ReadersOK'
  BY <1>6 DEF ReadersOK, StartReferenceUpdate, readerVars
<1> QED
  BY <1>3, <1>5, <1>7

\* A field of the buffer being filled changes: no valid copy is of that buffer.
LEMMA FillKeeps ==
  ASSUME IInv, step # "idle", step' # "idle",
         NEW d, NEW f \in Fields, NEW v,
         d = SlotOf(last + 1),
         data' = [data EXCEPT ![d][f] = v],
         UNCHANGED <<last, version, readerVars>>
  PROVE  /\ BuffersOK' /\ ReadersOK'
         /\ data'[SlotOf(last)] = data[SlotOf(last)]
<1> USE DEF IInv
<1>1. last \in Nat /\ last + 1 \in Nat /\ Newest = last + 1 /\ version[d] = last + 1
  BY DEF BuffersOK, TypeOK, Versions, Newest
<1>2. BuffersOK'
  <2>1. Newest' = Newest
    BY DEF Newest
  <2> QED
    BY <2>1 DEF BuffersOK
<1>3. ASSUME NEW s \in Slots, s # d
      PROVE  data'[s] = data[s]
  BY <1>3 DEF TypeOK
<1>4. ASSUME NEW r \in Readers, pc[r] = "read"
      PROVE  CopyOK(r)'
  <2>1. CopyOK(r) /\ ver[r] \in Nat /\ SlotOf(ver[r]) \in Slots /\ ver[r] < last + 1
    BY <1>1, <1>4, Division DEF ReadersOK, CopyOK, TypeOK, Versions
  <2>2. version[SlotOf(ver[r])] = ver[r] => data'[SlotOf(ver[r])] = data[SlotOf(ver[r])]
    BY <1>1, <1>3, <2>1
  <2>3. UNCHANGED <<ver, seen, first, retry, copy, toRead>>
    BY DEF readerVars
  <2> QED
    BY <2>1, <2>2, <2>3 DEF CopyOK
<1>5. ReadersOK'
  BY <1>4 DEF ReadersOK, readerVars
<1>6. data'[SlotOf(last)] = data[SlotOf(last)]
  BY <1>1, <1>3, NextSlot, Division
<1> QED
  BY <1>2, <1>5, <1>6

LEMMA CarryOverStep ==
  ASSUME IInv, NEW f \in Fields, CarryOver(f)
  PROVE  IInv' /\ data'[SlotOf(last)] = data[SlotOf(last)]
<1>1. BuffersOK' /\ ReadersOK' /\ data'[SlotOf(last)] = data[SlotOf(last)]
  BY FillKeeps DEF CarryOver
<1>2. last \in Nat /\ SlotOf(last + 1) \in Slots /\ SlotOf(last) \in Slots
  BY Division DEF IInv, TypeOK, Versions
<1>3. data[SlotOf(last)][f] \in Versions
  BY <1>2 DEF IInv, TypeOK, Values
<1>4. data' \in [Slots -> Values]
  BY <1>2, <1>3 DEF IInv, TypeOK, Values, CarryOver
<1>5. TypeOK'
  BY <1>4 DEF IInv, TypeOK, CarryOver, readerVars
<1> QED
  BY <1>1, <1>5 DEF IInv

LEMMA AssignStep ==
  ASSUME IInv, NEW f \in Fields, Assign(f)
  PROVE  IInv' /\ data'[SlotOf(last)] = data[SlotOf(last)]
<1>1. BuffersOK' /\ ReadersOK' /\ data'[SlotOf(last)] = data[SlotOf(last)]
  BY FillKeeps DEF Assign
<1>2. last \in Nat /\ SlotOf(last + 1) \in Slots
  BY Division DEF IInv, TypeOK, Versions
<1>3. last + 1 \in Versions
  BY DEF IInv, BuffersOK, Newest, Assign
<1>4. data' \in [Slots -> Values]
  BY <1>2, <1>3 DEF IInv, TypeOK, Values, Assign
<1>5. TypeOK'
  BY <1>4 DEF IInv, TypeOK, Assign, readerVars
<1> QED
  BY <1>1, <1>5 DEF IInv

LEMMA FinishStep ==
  ASSUME IInv, FinishReferenceUpdate
  PROVE  IInv'
<1> USE DEF IInv
<1>1. last \in Nat /\ Newest = last + 1 /\ version[SlotOf(last + 1)] = last + 1
  BY DEF BuffersOK, TypeOK, Versions, Newest, FinishReferenceUpdate
<1>2. last' = last + 1 /\ Newest' = Newest /\ UNCHANGED version
  BY <1>1 DEF FinishReferenceUpdate, Newest
<1>3. TypeOK'
  BY <1>1, <1>2 DEF BuffersOK, TypeOK, FinishReferenceUpdate, readerVars
<1>4. BuffersOK'
  BY <1>1, <1>2 DEF BuffersOK
<1>5. ASSUME NEW r \in Readers, pc[r] = "read"
      PROVE  CopyOK(r)'
  BY <1>1, <1>2, <1>5 DEF ReadersOK, CopyOK, TypeOK, Versions, FinishReferenceUpdate, readerVars
<1>6. ASSUME NEW r \in Readers, pc[r] = "look"
      PROVE  last' - first[r] >= (Depth - 1) * (MaxRetries - retry[r])
  <2> DEFINE paid == (Depth - 1) * (MaxRetries - retry[r])
  <2>1. last - first[r] >= paid /\ first[r] \in Nat /\ paid \in Int
    BY <1>6 DEF ReadersOK, TypeOK, Versions
  <2> HIDE DEF paid
  <2>2. last' - first[r] >= paid
    BY <1>1, <1>2, <2>1
  <2> QED
    BY <2>2 DEF paid
<1>7. ReadersOK'
  BY <1>5, <1>6 DEF ReadersOK, FinishReferenceUpdate, readerVars
<1> QED
  BY <1>3, <1>4, <1>7

-----------------------------------------------------------------------------
(* The steps of a reader.                                                  *)

\* A step of one reader that leaves the buffers alone, and after which its own
\* facts hold, keeps the invariant.
LEMMA ReaderOnly ==
  ASSUME IInv, TypeOK', NEW r \in Readers, UNCHANGED writerVars,
         \A q \in Readers \ {r} :
           /\ pc'[q] = pc[q] /\ ver'[q] = ver[q] /\ seen'[q] = seen[q] /\ first'[q] = first[q]
           /\ retry'[q] = retry[q] /\ copy'[q] = copy[q] /\ toRead'[q] = toRead[q],
         pc'[r] = "read" => CopyOK(r)',
         pc'[r] = "look" => last - first'[r] >= (Depth - 1) * (MaxRetries - retry'[r])
  PROVE  IInv'
<1>1. BuffersOK'
  BY DEF IInv, BuffersOK, Newest, writerVars
<1>2. ASSUME NEW q \in Readers, q # r
      PROVE  /\ pc'[q] = "read" => CopyOK(q)'
             /\ pc'[q] = "look" => last' - first'[q] >= (Depth - 1) * (MaxRetries - retry'[q])
  BY <1>2 DEF IInv, ReadersOK, CopyOK, writerVars
<1>3. ReadersOK'
  BY <1>2 DEF ReadersOK, writerVars
<1> QED
  BY <1>1, <1>3 DEF IInv

LEMMA BeginStep ==
  ASSUME IInv, NEW r \in Readers, Begin(r)
  PROVE  IInv'
<1>1. TypeOK'
  BY DEF IInv, TypeOK, Begin, writerVars
<1>2. last \in Int /\ first'[r] = last /\ retry'[r] = MaxRetries /\ pc'[r] = "look"
  BY DEF IInv, TypeOK, Versions, Begin
<1>3. last - first'[r] >= (Depth - 1) * (MaxRetries - retry'[r])
  BY <1>2
<1> QED
  BY <1>1, <1>2, <1>3, ReaderOnly DEF IInv, TypeOK, Begin

LEMMA LookStep ==
  ASSUME IInv, NEW r \in Readers, Look(r)
  PROVE  IInv'
<1>1. last \in Nat /\ SlotOf(last) \in Slots
  BY Division DEF IInv, TypeOK, Versions
<1>2. TypeOK'
  BY <1>1 DEF IInv, TypeOK, Look, writerVars
<1>3. last - first[r] >= (Depth - 1) * (MaxRetries - retry[r])
  BY DEF IInv, ReadersOK, Look
<1>4. /\ pc'[r] = "read" /\ ver'[r] = last /\ toRead'[r] = Fields
      /\ seen'[r] = data[SlotOf(last)]
      /\ UNCHANGED <<first, retry, last, version, data>>
  BY DEF IInv, TypeOK, Look, writerVars
<1>5. first[r] <= last
  <2>1. (Depth - 1) * (MaxRetries - retry[r]) \in Nat
    <3>1. Depth - 1 \in Nat /\ MaxRetries - retry[r] \in Nat
      BY DEF IInv, TypeOK
    <3> QED
      BY <3>1
  <2>2. first[r] \in Nat
    BY DEF IInv, TypeOK, Versions
  <2> QED
    BY <1>1, <1>3, <2>1, <2>2
<1>6. CopyOK(r)'
  BY <1>1, <1>3, <1>4, <1>5 DEF CopyOK, IInv, BuffersOK
<1> QED
  BY <1>2, <1>4, <1>6, ReaderOnly DEF IInv, TypeOK, Look

LEMMA ReadFieldStep ==
  ASSUME IInv, NEW r \in Readers, NEW f \in Fields, ReadField(r, f)
  PROVE  IInv'
<1>1. CopyOK(r) /\ SlotOf(ver[r]) \in Slots
  BY Division DEF IInv, ReadersOK, ReadField, TypeOK, Versions
<1>2. TypeOK'
  <2>1. data[SlotOf(ver[r])][f] \in Versions
    BY <1>1 DEF IInv, TypeOK, Values
  <2>2. copy' \in [Readers -> Values]
    BY <2>1 DEF IInv, TypeOK, Values, ReadField
  <2> QED
    BY <2>2 DEF IInv, TypeOK, ReadField, writerVars
<1>3. /\ copy'[r][f] = data[SlotOf(ver[r])][f]
      /\ \A g \in Fields \ {f} : copy'[r][g] = copy[r][g]
      /\ toRead'[r] = toRead[r] \ {f}
      /\ UNCHANGED <<ver, seen, first, retry, last, version, data, pc>>
  BY DEF IInv, TypeOK, Values, ReadField, writerVars
<1>4. CopyOK(r)'
  BY <1>1, <1>3 DEF CopyOK
<1> QED
  BY <1>2, <1>3, <1>4, ReaderOnly DEF IInv, TypeOK, ReadField

LEMMA ReturnStep ==
  ASSUME IInv, NEW r \in Readers, Return(r)
  PROVE  IInv'
<1>1. TypeOK'
  BY DEF IInv, TypeOK, Return, writerVars
<1>2. pc'[r] = "idle"
  BY DEF IInv, TypeOK, Return
<1> QED
  BY <1>1, <1>2, ReaderOnly DEF IInv, TypeOK, Return

\* The buffer was taken over: at least Depth - 1 updates have ended since the
\* reader read its version.
LEMMA Overrun ==
  ASSUME IInv, NEW r \in Readers, pc[r] = "read", ~Valid(r)
  PROVE  last - ver[r] >= Depth - 1
<1> DEFINE v == ver[r]
           w == version[SlotOf(v)]
<1>1. v \in Nat /\ SlotOf(v) \in Slots /\ last \in Nat
  BY Division DEF IInv, TypeOK, Versions
<1>2. w >= v /\ w # v
  BY DEF IInv, ReadersOK, CopyOK, Valid
<1>3. w \in Nat
  BY <1>1, <1>2 DEF IInv, TypeOK, Versions, Never
<1>4. SlotOf(w) = SlotOf(v) /\ w <= last + 1
  <2>1. w # Never
    BY <1>3 DEF Never
  <2>2. SlotOf(w) = SlotOf(v) /\ w <= Newest
    BY <1>1, <2>1 DEF IInv, BuffersOK
  <2>3. Newest = last \/ Newest = last + 1
    BY DEF Newest
  <2> QED
    BY <1>1, <1>3, <2>2, <2>3
<1> HIDE DEF v, w
<1>5. v < w
  BY <1>1, <1>2, <1>3
<1>6. w >= v + Depth
  BY <1>1, <1>3, <1>4, <1>5, SameSlot
<1>7. last - v >= Depth - 1
  BY <1>1, <1>3, <1>4, <1>6
<1> QED
  BY <1>7 DEF v

LEMMA RetryStep ==
  ASSUME IInv, NEW r \in Readers, Retry(r)
  PROVE  IInv'
<1>1. pc[r] = "read" /\ ~Valid(r) /\ retry[r] # 0
  BY DEF Retry, Exhausted
<1>2. retry[r] - 1 \in 0 .. MaxRetries
  BY <1>1 DEF IInv, TypeOK
<1>3. TypeOK'
  BY <1>2 DEF IInv, TypeOK, Retry, writerVars
<1>4. /\ pc'[r] = "look" /\ retry'[r] = retry[r] - 1
      /\ UNCHANGED <<first, last, ver>>
  BY DEF IInv, TypeOK, Retry, writerVars
<1>5. last - first[r] >= (Depth - 1) * (MaxRetries - (retry[r] - 1))
  <2> DEFINE paid == (Depth - 1) * (MaxRetries - retry[r])
             more == (Depth - 1) * (MaxRetries - (retry[r] - 1))
  <2>1. retry[r] \in Nat
    BY DEF IInv, TypeOK
  <2>2. paid \in Int /\ more = paid + (Depth - 1)
    BY <2>1
  <2>3. ver[r] - first[r] >= paid
    BY <1>1 DEF IInv, ReadersOK, CopyOK
  <2>4. last - ver[r] >= Depth - 1
    BY <1>1, Overrun
  <2>5. last \in Nat /\ ver[r] \in Nat /\ first[r] \in Nat
    BY DEF IInv, TypeOK, Versions
  <2> HIDE DEF paid, more
  <2>6. last - first[r] >= more
    BY <2>2, <2>3, <2>4, <2>5
  <2> QED
    BY <2>6 DEF more
<1> QED
  BY <1>3, <1>4, <1>5, ReaderOnly DEF IInv, TypeOK, Retry

-----------------------------------------------------------------------------
(* Theorems.                                                               *)

\* The invariant holds in every reachable state.
THEOREM InductiveInvariant == Spec => []IInv
<1>1. ASSUME IInv, [Next]_vars
      PROVE  IInv'
  <2>1. ASSUME NEW S \in Changes, StartReferenceUpdate(S)
        PROVE  IInv'
    BY <1>1, <2>1, StartStep
  <2>2. ASSUME NEW f \in Fields, CarryOver(f) \/ Assign(f)
        PROVE  IInv'
    BY <1>1, <2>2, CarryOverStep, AssignStep
  <2>3. CASE FinishReferenceUpdate
    BY <1>1, <2>3, FinishStep
  <2>4. ASSUME NEW r \in Readers, Begin(r) \/ Look(r) \/ Return(r) \/ Retry(r)
        PROVE  IInv'
    BY <1>1, <2>4, BeginStep, LookStep, ReturnStep, RetryStep
  <2>5. ASSUME NEW r \in Readers, NEW f \in Fields, ReadField(r, f)
        PROVE  IInv'
    BY <1>1, <2>5, ReadFieldStep
  <2>6. CASE UNCHANGED vars
    BY <1>1, <2>6 DEF vars, writerVars, readerVars, IInv, TypeOK, BuffersOK, Newest,
                      ReadersOK, CopyOK
  <2> QED
    BY <1>1, <2>1, <2>2, <2>3, <2>4, <2>5, <2>6 DEF Next, Writer, Reader
<1> QED
  BY <1>1, Initially, PTL DEF Spec

\* CFE_TIME_GetReference: RetryCount, an unsigned number, never goes below 0,
\* and every version kept or read is one that was given.
THEOREM TypeCorrect == Spec => []TypeOK
BY InductiveInvariant, PTL DEF IInv

\* CFE_TIME_GetReference: every repetition of a read costs Depth - 1 finished
\* updates.
THEOREM EveryRetryPaid == Spec => []RetriesArePaid
<1>1. IInv => RetriesArePaid
  <2> SUFFICES ASSUME IInv, NEW r \in Readers, pc[r] # "idle"
               PROVE  last - first[r] >= (Depth - 1) * (MaxRetries - retry[r])
    BY DEF RetriesArePaid
  <2> DEFINE paid == (Depth - 1) * (MaxRetries - retry[r])
  <2>1. CASE pc[r] = "look"
    BY <2>1 DEF IInv, ReadersOK
  <2>2. CASE pc[r] = "read"
    <3>1. ver[r] - first[r] >= paid /\ ver[r] <= last
      BY <2>2 DEF IInv, ReadersOK, CopyOK
    <3>2. last \in Nat /\ ver[r] \in Nat /\ first[r] \in Nat /\ paid \in Int
      BY DEF IInv, TypeOK, Versions
    <3> HIDE DEF paid
    <3>3. last - first[r] >= paid
      BY <3>1, <3>2
    <3> QED
      BY <3>3 DEF paid
  <2> QED
    BY <2>1, <2>2 DEF IInv, TypeOK
<1> QED
  BY <1>1, InductiveInvariant, PTL

-----------------------------------------------------------------------------
(* The ring implements one reference that is replaced as a whole.          *)

Reading == {r \in Readers : pc[r] # "idle"}

LEMMA InitImplements == Init => Atomic!Init
<1> SUFFICES ASSUME Init
             PROVE  Atomic!Init
  OBVIOUS
<1>1. SlotOf(2) \in Slots /\ last = 2
  BY Division DEF Init
<1>2. data[SlotOf(last)] \in Values
  BY <1>1 DEF Init, Values, Versions
<1>3. seen \in [Readers -> Values]
  BY DEF Init, Values, Versions
<1> QED
  BY <1>2, <1>3 DEF Init, Atomic!Init

\* Nothing an update does before it ends shows.
LEMMA FillImplements ==
  ASSUME IInv, \/ \E S \in Changes : StartReferenceUpdate(S)
               \/ \E f \in Fields : CarryOver(f) \/ Assign(f)
  PROVE  UNCHANGED Atomic!vars
<1>1. data'[SlotOf(last)] = data[SlotOf(last)]
  BY CarryOverStep, AssignStep DEF StartReferenceUpdate
<1>2. UNCHANGED <<last, pc, seen, result>>
  BY DEF StartReferenceUpdate, CarryOver, Assign, readerVars
<1> QED
  BY <1>1, <1>2 DEF Atomic!vars

\* The counter moves, and the new reference is there as a whole.
LEMMA FinishImplements ==
  ASSUME IInv, FinishReferenceUpdate
  PROVE  \E v \in Values : Atomic!Update(v)
<1>1. last' \in Nat /\ data' \in [Slots -> Values]
  BY FinishStep DEF IInv, TypeOK, Versions
<1>2. data'[SlotOf(last')] \in Values
  BY <1>1, Division
<1>3. UNCHANGED <<pc, seen, result>>
  BY DEF FinishReferenceUpdate, readerVars
<1> QED
  BY <1>2, <1>3 DEF Atomic!Update

LEMMA BeginImplements ==
  ASSUME IInv, NEW r \in Readers, Begin(r)
  PROVE  Atomic!Begin(r)
<1>1. Reading' = Reading \cup {r} /\ r \notin Reading
  BY DEF IInv, TypeOK, Begin, Reading
<1> QED
  BY <1>1 DEF Begin, writerVars, Atomic!Begin, Reading

LEMMA LookImplements ==
  ASSUME IInv, NEW r \in Readers, Look(r)
  PROVE  Atomic!Look(r)
<1>1. Reading' = Reading /\ r \in Reading
  BY DEF IInv, TypeOK, Look, Reading
<1> QED
  BY <1>1 DEF Look, writerVars, Atomic!Look, Reading

\* A read that passes the test has copied every field of what it met.
LEMMA ValidCopy ==
  ASSUME IInv, NEW r \in Readers, pc[r] = "read", toRead[r] = {}, Valid(r)
  PROVE  copy[r] = seen[r]
<1>1. \A f \in Fields : copy[r][f] = seen[r][f]
  BY DEF IInv, ReadersOK, CopyOK, Valid
<1>2. copy[r] \in Values /\ seen[r] \in Values
  BY DEF IInv, TypeOK
<1> QED
  BY <1>1, <1>2 DEF Values

LEMMA ReturnImplements ==
  ASSUME IInv, NEW r \in Readers, Return(r)
  PROVE  \E v \in Values \cup {Failed} : Atomic!Return(r, v)
<1> DEFINE v == IF Exhausted(r) THEN Failed ELSE copy[r]
<1>1. v \in {seen[r], Failed} /\ v \in Values \cup {Failed}
  BY ValidCopy DEF Return, IInv, TypeOK
<1>2. Reading' = Reading \ {r} /\ r \in Reading
  BY DEF IInv, TypeOK, Return, Reading
<1>3. result' = [result EXCEPT ![r] = v] /\ UNCHANGED <<seen, last, data>>
  BY DEF Return, writerVars
<1> HIDE DEF v
<1> QED
  BY <1>1, <1>2, <1>3 DEF Atomic!Return, Reading

LEMMA RereadImplements ==
  ASSUME IInv, NEW r \in Readers, Retry(r) \/ \E f \in Fields : ReadField(r, f)
  PROVE  UNCHANGED Atomic!vars
<1>1. Reading' = Reading
  BY DEF IInv, TypeOK, Retry, ReadField, Reading
<1> QED
  BY <1>1 DEF Retry, ReadField, writerVars, Atomic!vars, Reading

\* CFE_TIME_GetReference and the updates: the time is never computed from a
\* mixture of two references, nor from one that was not in force during the
\* call, whatever the order and the speed of the readers and the updates.
THEOREM RingIsAtomic == Spec => ReadsAreAtomic
<1>1. ASSUME IInv, [Next]_vars
      PROVE  [Atomic!Next]_(Atomic!vars)
  <2>1. CASE Writer
    BY <1>1, <2>1, FillImplements, FinishImplements DEF Writer, Atomic!Next
  <2>2. ASSUME NEW r \in Readers, Reader(r)
        PROVE  [Atomic!Next]_(Atomic!vars)
    <3>1. CASE Begin(r)
      BY <1>1, <3>1, BeginImplements DEF Atomic!Next
    <3>2. CASE Look(r)
      BY <1>1, <3>2, LookImplements DEF Atomic!Next
    <3>3. CASE Return(r)
      BY <1>1, <3>3, ReturnImplements DEF Atomic!Next
    <3>4. CASE Retry(r) \/ \E f \in Fields : ReadField(r, f)
      BY <1>1, <3>4, RereadImplements
    <3> QED
      BY <2>2, <3>1, <3>2, <3>3, <3>4 DEF Reader
  <2>3. CASE UNCHANGED vars
    BY <2>3 DEF vars, writerVars, readerVars, Atomic!vars
  <2> QED
    BY <1>1, <2>1, <2>2, <2>3 DEF Next
<1> QED
  BY <1>1, InitImplements, InductiveInvariant, PTL DEF Spec, ReadsAreAtomic, Atomic!Spec

=============================================================================
