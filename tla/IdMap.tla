-------------------------------- MODULE IdMap --------------------------------
(***************************************************************************)
(* The OSAL object map: the table that turns the IDs and names of OSAL     *)
(* objects of one type (queues, files, semaphores, ...) into records, and  *)
(* the lock modes under which tasks hold a record.                         *)
(*                                                                         *)
(* The table of a type has one mutex.  What the code does from taking the  *)
(* mutex to releasing it is one action; a lock mode that keeps it (GLOBAL) *)
(* leaves it in `lock'.  A record is held in mode REFCOUNT or EXCLUSIVE    *)
(* without the mutex.  Left out: OS_LOCK_MODE_NONE, which reads an ID and  *)
(* changes nothing; OS_LOCK_MODE_RESERVED, which no code uses; the owner   *)
(* key, which is only compared to print a warning; and OS_TaskExit, the    *)
(* one deletion done in mode GLOBAL, of a type nobody holds by REFCOUNT.   *)
(***************************************************************************)
EXTENDS Integers, FiniteSets, FiniteSetsExt

CONSTANTS
  Tasks,         \* the tasks that call OSAL
  Names,         \* object names
  Calls,         \* [Tasks -> sets of API calls]: what each task may call
  MaxObjects,    \* OS_GetMaxForObjectType: the records of the type
  IndexMask,     \* OS_OBJECT_INDEX_MASK: where serial numbers wrap
  MaxAttempts,   \* attempts of OS_ObjectIdConvertToken, 5 in the code
  Refusals,      \* {TRUE, FALSE}: the event handler may refuse a new object
  MaxCalls,      \* bound: [Tasks -> Nat], the calls each task makes
  NoTask, NoName

\* A table is far smaller than the range of serial numbers: a search for a free
\* record passes the end of the range at most once.
ASSUME TableAssumption ==
  MaxObjects \in Nat \ {0} /\ IndexMask \in Nat /\ IndexMask >= 2 * MaxObjects - 1
ASSUME AttemptsAssumption == MaxAttempts \in Nat \ {0}
ASSUME BoundAssumption == MaxCalls \in [Tasks -> Nat]
ASSUME NullAssumption == NoTask \notin Tasks /\ NoName \notin Names
ASSUME FiniteAssumption == IsFiniteSet(Tasks)

Slots     == 0 .. MaxObjects - 1
Serials   == 0 .. IndexMask - 1
UNDEFINED == -1                  \* OS_OBJECT_ID_UNDEFINED
RESERVED  == -2                  \* OS_OBJECT_ID_RESERVED
NoIter    == -2                  \* no OS_ForEachObjectOfType in progress

\* The lock mode of each call: OS_XxxCreate, OS_XxxDelete, OS_read and its
\* like, OS_XxxGetInfo, OS_XxxGetIdByName, OS_TranslatePath, OS_rmfs.
Mode == [create |-> "EXCLUSIVE", delete |-> "EXCLUSIVE", use |-> "REFCOUNT",
         info |-> "GLOBAL", find |-> "GLOBAL", translate |-> "REFCOUNT",
         rmfs |-> "EXCLUSIVE"]
ById   == {"delete", "use", "info"}
ByName == {"find", "translate", "rmfs"}

VARIABLES
  active, name, refcount,   \* OS_common_record_t, by slot
  lastIssued,               \* OS_objtype_state_t.last_id_issued
  lock,                     \* the task that holds the mutex of the type
  pc, tok,                  \* the call each task is in, and its token
  iter,                     \* the record its OS_ForEachObjectOfType is at
  shutdown,                 \* OS_SharedGlobalVars.GlobalState
  budget                    \* calls each task may still make

tableVars == <<active, name, refcount, lastIssued>>
vars == <<tableVars, lock, pc, tok, iter, shutdown, budget>>

NoToken == [call |-> "none", name |-> NoName, id |-> UNDEFINED, idx |-> 0,
            expected |-> UNDEFINED, attempts |-> 0]

Init ==
  /\ active = [i \in Slots |-> UNDEFINED]
  /\ name = [i \in Slots |-> NoName]
  /\ refcount = [i \in Slots |-> 0]
  /\ lastIssued = 0
  /\ lock = NoTask
  /\ pc = [t \in Tasks |-> "idle"]
  /\ tok = [t \in Tasks |-> NoToken]
  /\ iter = [t \in Tasks |-> NoIter]
  /\ shutdown = FALSE
  /\ budget = MaxCalls

-----------------------------------------------------------------------------
(* Helpers.                                                                *)

SlotOf(id) == id % MaxObjects              \* OS_ObjectIdToArrayIndex

\* Mutant of Wrapped: the check for the end of the serial numbers is missing.
WrappedNever(serial) == serial

\* A serial number counted up from one in the range: at the mask it goes on
\* from the start of the range, keeping the slot.
Wrapped(serial) ==
  IF serial >= IndexMask THEN SlotOf(IndexMask) + (serial - IndexMask) ELSE serial

\* The serials and slots OS_ObjectIdFindNextFree tries, in order.
Probe == [k \in 1 .. MaxObjects |->
           [serial |-> Wrapped(lastIssued + k), slot |-> SlotOf(Wrapped(lastIssued + k))]]

FreeProbes == {k \in 1 .. MaxObjects : active[Probe[k].slot] = UNDEFINED}

\* OS_ObjectIdFindNextMatch with OS_ObjectNameMatch.
Named(n) == {i \in Slots : active[i] # UNDEFINED /\ name[i] = n}

\* A call returns: to OS_ForEachObjectOfType if that made it.
Return(t) ==
  /\ tok' = [tok EXCEPT ![t] = NoToken]
  /\ pc' = [pc EXCEPT ![t] = IF iter[t] = NoIter THEN "idle" ELSE "iterate"]

-----------------------------------------------------------------------------
(* Calls begin: OS_ObjectIdTransactionInit, up to taking the mutex.  After *)
(* the shutdown only EXCLUSIVE transactions on existing objects start.     *)

Begin(t, token) ==
  /\ pc[t] = "idle" /\ budget[t] > 0
  /\ budget' = [budget EXCEPT ![t] = @ - 1]
  /\ pc' = [pc EXCEPT ![t] = "start"]
  /\ tok' = [tok EXCEPT ![t] = token]
  /\ UNCHANGED <<tableVars, lock, iter, shutdown>>

BeginCreate(t) ==
  /\ "create" \in Calls[t] /\ ~shutdown
  /\ \E n \in Names : Begin(t, [NoToken EXCEPT !.call = "create", !.name = n])

BeginById(t) ==
  \E c \in ById \cap Calls[t], id \in Serials :
    /\ shutdown => Mode[c] = "EXCLUSIVE"
    /\ Begin(t, [NoToken EXCEPT !.call = c, !.id = id])

BeginByName(t) ==
  \E c \in ByName \cap Calls[t], n \in Names :
    /\ shutdown => Mode[c] = "EXCLUSIVE"
    /\ Begin(t, [NoToken EXCEPT !.call = c, !.name = n])

\* OS_DeleteAllObjects: OS_ForEachObjectOfType(OS_CleanUpObject).
BeginForEach(t) ==
  /\ "foreach" \in Calls[t] /\ ~shutdown
  /\ pc[t] = "idle" /\ budget[t] > 0
  /\ budget' = [budget EXCEPT ![t] = @ - 1]
  /\ pc' = [pc EXCEPT ![t] = "iterate"]
  /\ iter' = [iter EXCEPT ![t] = -1]
  /\ UNCHANGED <<tableVars, lock, tok, shutdown>>

-----------------------------------------------------------------------------
(* OS_ObjectIdConvertToken, with token k on record k.idx, the mutex held.  *)

Matches(k) == active[k.idx] = k.expected

\* Mutant of ConvertSuccess: an exclusive caller does not reserve the ID.
ConvertSuccessUnreserved(t, k) ==
  /\ Matches(k)
  /\ Mode[k.call] = "EXCLUSIVE" => refcount[k.idx] = 0
  /\ refcount' = [refcount EXCEPT ![k.idx] = @ + 1]
  /\ lock' = IF Mode[k.call] = "GLOBAL" THEN t ELSE NoTask
  /\ pc' = [pc EXCEPT ![t] = "held"]
  /\ tok' = [tok EXCEPT ![t] = [k EXCEPT !.attempts = 0]]
  /\ UNCHANGED active

\* The caller gets the record: its reference count is raised, and the mutex
\* is released unless the mode is GLOBAL.
ConvertSuccess(t, k) ==
  LET exclusive == Mode[k.call] = "EXCLUSIVE" IN
  /\ Matches(k)
  /\ exclusive => refcount[k.idx] = 0
  /\ active' = IF exclusive THEN [active EXCEPT ![k.idx] = RESERVED] ELSE active
  /\ refcount' = [refcount EXCEPT ![k.idx] = @ + 1]
  /\ lock' = IF Mode[k.call] = "GLOBAL" THEN t ELSE NoTask
  /\ pc' = [pc EXCEPT ![t] = "held"]
  /\ tok' = [tok EXCEPT ![t] = [k EXCEPT !.attempts = 0]]

Contended(k) ==
  \/ Matches(k) /\ Mode[k.call] = "EXCLUSIVE" /\ refcount[k.idx] > 0
  \/ ~Matches(k) /\ active[k.idx] = RESERVED

\* Mutant of ConvertWait: the mutex is kept while waiting.
ConvertWaitLocked(t, k) ==
  /\ Contended(k) /\ k.attempts + 1 < MaxAttempts
  /\ active' = IF Matches(k) THEN [active EXCEPT ![k.idx] = RESERVED] ELSE active
  /\ tok' = [tok EXCEPT ![t] = [k EXCEPT !.attempts = @ + 1,
                                         !.expected = IF Matches(k) THEN RESERVED ELSE @]]
  /\ lock' = t
  /\ pc' = [pc EXCEPT ![t] = "waiting"]
  /\ UNCHANGED refcount

\* Wait for the record with the mutex released, having reserved it if this
\* caller is the one to delete it.
ConvertWait(t, k) ==
  /\ Contended(k) /\ k.attempts + 1 < MaxAttempts
  /\ active' = IF Matches(k) THEN [active EXCEPT ![k.idx] = RESERVED] ELSE active
  /\ tok' = [tok EXCEPT ![t] = [k EXCEPT !.attempts = @ + 1,
                                         !.expected = IF Matches(k) THEN RESERVED ELSE @]]
  /\ lock' = NoTask
  /\ pc' = [pc EXCEPT ![t] = "waiting"]
  /\ UNCHANGED refcount

\* Give up, and restore the ID if this caller had reserved it.  It is
\* OS_ObjectIdGetById that releases the mutex; OS_ObjectIdGetBySearch does not.
ConvertFail(t, k) ==
  /\ \/ Contended(k) /\ k.attempts + 1 >= MaxAttempts
     \/ ~Matches(k) /\ active[k.idx] # RESERVED
  /\ active' = IF Matches(k) \/ k.expected = RESERVED
               THEN [active EXCEPT ![k.idx] = k.id] ELSE active
  /\ lock' = IF k.call \in ByName THEN t ELSE NoTask
  /\ Return(t)
  /\ UNCHANGED refcount

Convert(t, k) ==
  /\ ConvertSuccess(t, k) \/ ConvertWait(t, k) \/ ConvertFail(t, k)
  /\ UNCHANGED <<name, lastIssued, iter, shutdown, budget>>

-----------------------------------------------------------------------------
(* The transactions of a task.                                             *)

\* OS_ObjectIdAllocateNew fails: the name is taken or the table is full.
AllocateFail(t) ==
  /\ pc[t] = "start" /\ tok[t].call = "create" /\ lock = NoTask
  /\ Named(tok[t].name) # {} \/ FreeProbes = {}
  /\ Return(t)
  /\ UNCHANGED <<tableVars, lock, iter, shutdown, budget>>

\* OS_ObjectIdAllocateNew.  When the handler of OS_EVENT_RESOURCE_ALLOCATED
\* refuses, OS_ObjectIdFinalizeNew is called with the mutex still held.
AllocateNew(t) ==
  LET free == Probe[Min(FreeProbes)]
      id   == free.serial
      i    == free.slot
  IN
  /\ pc[t] = "start" /\ tok[t].call = "create" /\ lock = NoTask
  /\ Named(tok[t].name) = {} /\ FreeProbes # {}
  /\ lastIssued' = id
  /\ name' = [name EXCEPT ![i] = NoName]
  /\ tok' = [tok EXCEPT ![t].id = id, ![t].idx = i]
  /\ \/ /\ active' = [active EXCEPT ![i] = RESERVED]
        /\ refcount' = [refcount EXCEPT ![i] = 1]
        /\ pc' = [pc EXCEPT ![t] = "allocated"]
        /\ UNCHANGED lock
     \/ /\ TRUE \in Refusals
        /\ active' = [active EXCEPT ![i] = id]
        /\ refcount' = [refcount EXCEPT ![i] = 0]
        /\ pc' = [pc EXCEPT ![t] = "refused"]
        /\ lock' = t
  /\ UNCHANGED <<iter, shutdown, budget>>

\* OS_OBJECT_INIT: the creator names the record, after the mutex is released.
SetName(t) ==
  /\ pc[t] = "allocated"
  /\ name' = [name EXCEPT ![tok[t].idx] = tok[t].name]
  /\ pc' = [pc EXCEPT ![t] = "held"]
  /\ UNCHANGED <<active, refcount, lastIssued, lock, tok, iter, shutdown, budget>>

GetById(t) ==
  /\ pc[t] = "start" /\ tok[t].call \in ById /\ lock = NoTask
  /\ Convert(t, [tok[t] EXCEPT !.idx = SlotOf(tok[t].id), !.expected = tok[t].id])

\* OS_ObjectIdGetBySearch finds nothing and cancels its transaction.
SearchFail(t) ==
  /\ pc[t] = "start" /\ tok[t].call \in ByName /\ lock = NoTask
  /\ Named(tok[t].name) = {}
  /\ Return(t)
  /\ UNCHANGED <<tableVars, lock, iter, shutdown, budget>>

\* OS_ObjectIdGetBySearch finds a record that is being created or deleted:
\* its ID is defined and not valid, and OS_ObjectIdConvertToken returns at once.
SearchReserved(t) ==
  /\ pc[t] = "start" /\ tok[t].call \in ByName /\ lock = NoTask
  /\ Named(tok[t].name) # {} /\ active[Min(Named(tok[t].name))] = RESERVED
  /\ lock' = t
  /\ Return(t)
  /\ UNCHANGED <<tableVars, iter, shutdown, budget>>

GetBySearch(t) ==
  LET i == Min(Named(tok[t].name)) IN
  /\ pc[t] = "start" /\ tok[t].call \in ByName /\ lock = NoTask
  /\ Named(tok[t].name) # {} /\ active[i] # RESERVED
  /\ Convert(t, [tok[t] EXCEPT !.id = active[i], !.idx = i, !.expected = active[i]])

\* OS_WaitForStateChange returns, with the mutex, after a change or a while.
Retry(t) ==
  /\ pc[t] = "waiting" /\ lock = NoTask
  /\ Convert(t, tok[t])

\* The caller works on the record it holds.  Its creation or deletion may
\* fail; `expected' keeps the ID the record is to have, as final_id does.
Operate(t) ==
  /\ pc[t] = "held"
  /\ \E final \in IF Mode[tok[t].call] = "EXCLUSIVE" THEN {UNDEFINED, tok[t].id} ELSE {RESERVED} :
       tok' = [tok EXCEPT ![t].expected = final]
  /\ pc' = [pc EXCEPT ![t] = "finish"]
  /\ UNCHANGED <<tableVars, lock, iter, shutdown, budget>>

\* Mutant of Lowered: only a shared holder lowers the count again.
LoweredShared(t) ==
  IF Mode[tok[t].call] = "REFCOUNT" THEN [refcount EXCEPT ![tok[t].idx] = @ - 1]
  ELSE refcount

\* The reference counts when t lets go of its record.
Lowered(t) == [refcount EXCEPT ![tok[t].idx] = IF @ > 0 THEN @ - 1 ELSE @]

\* OS_ObjectIdTransactionFinish.  It takes the mutex unless the mode kept it,
\* lowers the count, and updates the ID after a creation or deletion.
TransactionFinish(t) ==
  /\ pc[t] = "finish"
  /\ lock = IF Mode[tok[t].call] = "GLOBAL" THEN t ELSE NoTask
  /\ refcount' = Lowered(t)
  /\ active' = IF tok[t].expected = RESERVED THEN active
               ELSE [active EXCEPT ![tok[t].idx] = tok[t].expected]
  /\ lock' = NoTask
  /\ Return(t)
  /\ UNCHANGED <<name, lastIssued, iter, shutdown, budget>>

\* OS_ObjectIdIteratorGetNext and OS_ObjectIdIteratorProcessEntry: find the
\* next object and delete it (OS_CleanUpObject) with the mutex released.
IteratorNext(t) ==
  LET rest == {i \in Slots : i > iter[t] /\ active[i] \in Serials} IN
  /\ pc[t] = "iterate" /\ lock = NoTask /\ rest # {}
  /\ iter' = [iter EXCEPT ![t] = Min(rest)]
  /\ tok' = [tok EXCEPT ![t] = [NoToken EXCEPT !.call = "delete", !.id = active[Min(rest)]]]
  /\ pc' = [pc EXCEPT ![t] = "start"]
  /\ UNCHANGED <<tableVars, lock, shutdown, budget>>

IteratorDestroy(t) ==
  /\ pc[t] = "iterate" /\ lock = NoTask
  /\ \A i \in Slots : i > iter[t] => active[i] \notin Serials
  /\ iter' = [iter EXCEPT ![t] = NoIter]
  /\ pc' = [pc EXCEPT ![t] = "idle"]
  /\ UNCHANGED <<tableVars, lock, tok, shutdown, budget>>

\* OS_ApplicationShutdown.
Shutdown ==
  /\ ~shutdown
  /\ shutdown' = TRUE
  /\ UNCHANGED <<tableVars, lock, pc, tok, iter, budget>>

-----------------------------------------------------------------------------

Proceed(t) ==
  \/ AllocateFail(t) \/ AllocateNew(t) \/ SetName(t)
  \/ GetById(t) \/ SearchFail(t) \/ SearchReserved(t) \/ GetBySearch(t)
  \/ Retry(t) \/ Operate(t) \/ TransactionFinish(t)
  \/ IteratorNext(t) \/ IteratorDestroy(t)

CallBegins(t) == BeginCreate(t) \/ BeginById(t) \/ BeginByName(t) \/ BeginForEach(t)

Next == Shutdown \/ \E t \in Tasks : CallBegins(t) \/ Proceed(t)

Spec == Init /\ [][Next]_vars

FairSpec == Spec /\ \A t \in Tasks : WF_vars(Proceed(t))
-----------------------------------------------------------------------------
(* Properties.                                                             *)

\* Task t has a record in its hands, from OS_ObjectIdConvertToken to
\* OS_ObjectIdTransactionFinish.
Holds(t, i) == pc[t] \in {"allocated", "held", "finish"} /\ tok[t].idx = i
HoldsExclusive(t, i) == Holds(t, i) /\ Mode[tok[t].call] = "EXCLUSIVE"
Reserving(t, i) == pc[t] = "waiting" /\ tok[t].idx = i /\ tok[t].expected = RESERVED

TokenType == [call : DOMAIN Mode \cup {"none"}, name : Names \cup {NoName},
              id : Serials \cup {UNDEFINED}, idx : Slots,
              expected : Serials \cup {UNDEFINED, RESERVED}, attempts : 0 .. MaxAttempts - 1]

\* Every variable has its type; in particular a reference count never counts
\* more than the tasks there are.
TypeOK ==
  /\ active \in [Slots -> Serials \cup {UNDEFINED, RESERVED}]
  /\ name \in [Slots -> Names \cup {NoName}]
  /\ refcount \in [Slots -> 0 .. Cardinality(Tasks)]
  /\ lastIssued \in Serials
  /\ lock \in Tasks \cup {NoTask}
  /\ pc \in [Tasks -> {"idle", "start", "waiting", "allocated", "held", "finish",
                       "refused", "iterate"}]
  /\ tok \in [Tasks -> TokenType]
  /\ iter \in [Tasks -> Slots \cup {-1, NoIter}]
  /\ shutdown \in BOOLEAN
  /\ budget \in [Tasks -> Nat]

\* A task that holds a record EXCLUSIVE, to create or delete the object, holds
\* it alone: nobody reads or writes a file that is being closed.
ExclusiveAlone ==
  \A t, u \in Tasks, i \in Slots : t # u /\ HoldsExclusive(t, i) => ~Holds(u, i)

\* The reference count of a record is the number of tasks that hold it,
\* whatever was refused, given up after waiting, or failed: a count left
\* raised would make the object impossible to delete.
RefcountExact ==
  \A i \in Slots : refcount[i] = Cardinality({t \in Tasks : Holds(t, i)})

\* A reserved record has somebody creating it, deleting it, or waiting to
\* delete it: no failed call leaves a record that nobody can ever use again.
ReservedHasOwner ==
  \A i \in Slots : active[i] = RESERVED =>
    \E t \in Tasks : HoldsExclusive(t, i) \/ Reserving(t, i)

\* While a task holds a record in a shared mode the record keeps the ID the
\* task asked for, or is reserved by one task waiting to delete it: it is
\* never freed and issued to another object under the holder.
HeldKeepsId ==
  \A t \in Tasks, i \in Slots : Holds(t, i) /\ ~HoldsExclusive(t, i) =>
    active[i] = tok[t].id \/ \E u \in Tasks : Reserving(u, i)

\* An ID in service is found in the slot it was issued for, also after the
\* serial numbers have wrapped at OS_OBJECT_INDEX_MASK.
SerialFindsSlot == \A i \in Slots : active[i] \in Serials => SlotOf(active[i]) = i

\* Nobody else is at a record that is held exclusively, and it does not change
\* its ID under those that share it.
HoldersSafe == ExclusiveAlone /\ HeldKeepsId

\* No failed, refused or wrapped call makes a record impossible to find, to use
\* or to delete.
RecordsUsable == RefcountExact /\ ReservedHasOwner /\ SerialFindsSlot

\* The mutex is held by a task that does not release it any more.
LockLost == lock # NoTask /\ pc[lock] \in {"idle", "start", "iterate", "refused"}

\* Every call returns, the waiting of a deletion for the holders of its object
\* included, as long as the mutex is not lost (LockHeldInCall, NoSelfWait).
CallsEnd == \A t \in Tasks : pc[t] # "idle" ~> pc[t] = "idle" \/ LockLost

\* "Upon failure, the global table lock is always released for all lock modes
\* other than OS_LOCK_MODE_NONE" (OS_ObjectIdConvertToken): a task that is in
\* no call does not hold the mutex.
LockHeldInCall == \A t \in Tasks : pc[t] = "idle" => lock # t

\* "If the handler returns non-success, the error will be returned to the
\* caller and the creation process is aborted" (OS_EVENT_RESOURCE_ALLOCATED):
\* a task whose object is refused does not wait for a mutex that it holds.
NoSelfWait == \A t \in Tasks : pc[t] = "refused" => lock # t

\* "OS_ERR_NAME_TAKEN if the name is already being used on another queue": two
\* objects of one type never have the same name.
NamesUnique ==
  \A i, j \in Slots : i # j /\ active[i] # UNDEFINED /\ active[j] # UNDEFINED
                      /\ name[i] = name[j] => name[i] = NoName
=============================================================================
