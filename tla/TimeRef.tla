------------------------------- MODULE TimeRef -------------------------------
(***************************************************************************)
(* The time reference of cFE TIME: what every task that asks for the time  *)
(* computes it from, kept in a small ring of buffers so that it is updated *)
(* and read without a lock.                                                *)
(*                                                                         *)
(* Only the main task of TIME updates it: commands, the 1 Hz state machine *)
(* and the tone all come to that task as messages.  Any task reads it, at  *)
(* any moment.  One action reads or writes one field, in any order of the  *)
(* fields; memory is sequentially consistent, as the volatile accesses are *)
(* on one processor.  A value stands for the version whose update assigned *)
(* it, so copies that mix two versions are told apart.  The arithmetic a   *)
(* reader does on its own copy afterwards is left out.                     *)
(***************************************************************************)
EXTENDS Integers

CONSTANTS
  Readers,      \* the tasks that call CFE_TIME_GetReference
  Fields,       \* of CFE_TIME_ReferenceState_t
  Changes,      \* the sets of fields an update may assign
  Depth,        \* CFE_TIME_REFERENCE_BUF_DEPTH
  MaxRetries,   \* where RetryCount starts
  LastVersion,  \* bound: the last version given, far below the wrap-around
  Failed        \* the zeroed reference of a read that failed

ASSUME DepthAssumption == Depth \in Nat \ {0, 1}
ASSUME RetriesAssumption == MaxRetries \in Nat
ASSUME VersionAssumption == LastVersion \in Nat /\ LastVersion >= 2
ASSUME ChangesAssumption == Changes \subseteq SUBSET Fields
ASSUME FailedAssumption == Failed \notin [Fields -> 0 .. LastVersion]

Slots    == 0 .. Depth - 1
Versions == 0 .. LastVersion
Never    == -1                   \* StateVersion 0xFFFFFFFF: not in use yet
Values   == [Fields -> Versions]
SlotOf(v) == v % Depth           \* v & CFE_TIME_REFERENCE_BUF_MASK

VARIABLES
  last,               \* CFE_TIME_Global.LastVersionCounter
  version, data,      \* CFE_TIME_Global.ReferenceState, by slot
  step, toCopy, toSet, \* the update in progress, and the fields still to do
  pc, ver, toRead, copy, retry,  \* the CFE_TIME_GetReference each reader is in
  result,             \* what it returned
  seen, first         \* specification only: the reference a reader met when it
                      \* read the version, and the version it met first

writerVars == <<last, version, data, step, toCopy, toSet>>
readerVars == <<pc, ver, toRead, copy, retry, result, seen, first>>
vars == <<writerVars, readerVars>>

-----------------------------------------------------------------------------
(* Updates, in the main task of TIME.                                      *)

\* CFE_TIME_InitData, run before there are tasks, makes versions 1 and 2.
Init ==
  /\ last = 2
  /\ version = [s \in Slots |-> IF s = SlotOf(2) THEN 2 ELSE IF s = SlotOf(1) THEN 1 ELSE Never]
  /\ data = [s \in Slots |-> [f \in Fields |->
               IF s = SlotOf(2) THEN 2 ELSE IF s = SlotOf(1) THEN 1 ELSE 0]]
  /\ step = "idle" /\ toCopy = {} /\ toSet = {}
  /\ pc = [r \in Readers |-> "idle"]
  /\ ver = [r \in Readers |-> 0]
  /\ toRead = [r \in Readers |-> {}]
  /\ copy = [r \in Readers |-> [f \in Fields |-> 0]]
  /\ retry = [r \in Readers |-> 0]
  /\ result = [r \in Readers |-> Failed]
  /\ seen = [r \in Readers |-> [f \in Fields |-> 0]]
  /\ first = [r \in Readers |-> 0]

\* CFE_TIME_StartReferenceUpdate, called by an operation that will assign the
\* fields in S.  The new buffer has its version before any field changes.
StartReferenceUpdate(S) ==
  /\ step = "idle" /\ last < LastVersion
  /\ version' = [version EXCEPT ![SlotOf(last + 1)] = last + 1]
  /\ toCopy' = Fields /\ toSet' = S
  /\ step' = "copy"
  /\ UNCHANGED <<last, data, readerVars>>

\* It carries the current values over, one by one.
CarryOver(f) ==
  /\ step = "copy" /\ f \in toCopy
  /\ data' = [data EXCEPT ![SlotOf(last + 1)][f] = data[SlotOf(last)][f]]
  /\ toCopy' = toCopy \ {f}
  /\ step' = IF toCopy' = {} THEN "set" ELSE "copy"
  /\ UNCHANGED <<last, version, toSet, readerVars>>

\* The operation assigns its fields: CFE_TIME_SetState, SetTime, SetMET,
\* ToneUpdate, Local1HzStateMachine...
Assign(f) ==
  /\ step = "set" /\ f \in toSet
  /\ data' = [data EXCEPT ![SlotOf(last + 1)][f] = last + 1]
  /\ toSet' = toSet \ {f}
  /\ UNCHANGED <<last, version, step, toCopy, readerVars>>

FinishReferenceUpdate ==
  /\ step = "set" /\ toSet = {}
  /\ last' = version[SlotOf(last + 1)]
  /\ step' = "idle"
  /\ UNCHANGED <<version, data, toCopy, toSet, readerVars>>

-----------------------------------------------------------------------------
(* Reads, in any task.                                                     *)

\* CFE_TIME_GetReference: the version counter is read and the buffer chosen.
Begin(r) ==
  /\ pc[r] = "idle"
  /\ pc' = [pc EXCEPT ![r] = "look"]
  /\ retry' = [retry EXCEPT ![r] = MaxRetries]
  /\ first' = [first EXCEPT ![r] = last]
  /\ UNCHANGED <<writerVars, ver, toRead, copy, result, seen>>

Look(r) ==
  /\ pc[r] = "look"
  /\ ver' = [ver EXCEPT ![r] = last]
  /\ seen' = [seen EXCEPT ![r] = data[SlotOf(last)]]
  /\ toRead' = [toRead EXCEPT ![r] = Fields]
  /\ pc' = [pc EXCEPT ![r] = "read"]
  /\ UNCHANGED <<writerVars, copy, retry, result, first>>

ReadField(r, f) ==
  /\ pc[r] = "read" /\ f \in toRead[r]
  /\ copy' = [copy EXCEPT ![r][f] = data[SlotOf(ver[r])][f]]
  /\ toRead' = [toRead EXCEPT ![r] = @ \ {f}]
  /\ UNCHANGED <<writerVars, pc, ver, retry, result, seen, first>>

\* Mutant of Valid: the version is compared with the global counter.
ValidLatest(r) == ver[r] = last

\* Mutant of Valid: a buffer that has been given to a newer version passes.
ValidNewer(r) == ver[r] <= version[SlotOf(ver[r])]

\* The buffer still is of the version that was read: no update has begun to
\* use it again.
Valid(r) == ver[r] = version[SlotOf(ver[r])]

\* Mutant of Exhausted: one retry too many.
ExhaustedLate(r) == retry[r] < 0

Exhausted(r) == retry[r] = 0

\* A read that is valid, or has no retry left, ends.  The code tests the retry
\* count once more after the loop, so a valid read without a retry left is
\* reported as failed too.
Return(r) ==
  /\ pc[r] = "read" /\ toRead[r] = {}
  /\ Valid(r) \/ Exhausted(r)
  /\ result' = [result EXCEPT ![r] = IF Exhausted(r) THEN Failed ELSE copy[r]]
  /\ pc' = [pc EXCEPT ![r] = "idle"]
  /\ UNCHANGED <<writerVars, ver, toRead, copy, retry, seen, first>>

Retry(r) ==
  /\ pc[r] = "read" /\ toRead[r] = {}
  /\ ~Valid(r) /\ ~Exhausted(r)
  /\ retry' = [retry EXCEPT ![r] = @ - 1]
  /\ pc' = [pc EXCEPT ![r] = "look"]
  /\ UNCHANGED <<writerVars, ver, toRead, copy, result, seen, first>>

-----------------------------------------------------------------------------

Writer ==
  \/ \E S \in Changes : StartReferenceUpdate(S)
  \/ \E f \in Fields : CarryOver(f) \/ Assign(f)
  \/ FinishReferenceUpdate

Reader(r) ==
  \/ Begin(r) \/ Look(r) \/ Return(r) \/ Retry(r)
  \/ \E f \in Fields : ReadField(r, f)

Next == Writer \/ \E r \in Readers : Reader(r)

Spec == Init /\ [][Next]_vars

-----------------------------------------------------------------------------
(* Properties.                                                             *)

\* Every variable has its type; the unsigned RetryCount never wraps.
TypeOK ==
  /\ last \in Versions
  /\ version \in [Slots -> Versions \cup {Never}]
  /\ data \in [Slots -> Values]
  /\ step \in {"idle", "copy", "set"}
  /\ toCopy \subseteq Fields /\ toSet \subseteq Fields
  /\ pc \in [Readers -> {"idle", "look", "read"}]
  /\ ver \in [Readers -> Versions]
  /\ toRead \in [Readers -> SUBSET Fields]
  /\ copy \in [Readers -> Values]
  /\ retry \in [Readers -> 0 .. MaxRetries]
  /\ result \in [Readers -> Values \cup {Failed}]
  /\ seen \in [Readers -> Values]
  /\ first \in [Readers -> Versions]

\* CFE_TIME_GetReference: the time is never computed from a mixture of two
\* references, nor from one that was not in force during the call.  The ring
\* does what a reference replaced and read as a whole would do.
Atomic == INSTANCE AtomicRef WITH
  ref <- data[SlotOf(last)],
  reading <- {r \in Readers : pc[r] # "idle"}
ReadsAreAtomic == Atomic!Spec

\* The depth of the ring pays for the rest: a read is repeated only if Depth - 1
\* updates have ended since it began, once for each repetition.  A read that
\* is overlapped by fewer updates than that always succeeds at once.
RetriesArePaid ==
  \A r \in Readers : pc[r] # "idle" =>
    last - first[r] >= (Depth - 1) * (MaxRetries - retry[r])
=============================================================================
