-------------------------------- MODULE TBL --------------------------------
(***************************************************************************)
(* cFE Table Services: tables that applications register, share, load and  *)
(* read, and the ground loads, validates, dumps and activates.             *)
(*                                                                         *)
(* One mutex guards the registry of tables and the access descriptors; the *)
(* calls that hold it throughout are one action.  CFE_TBL_Load, Modified,  *)
(* Validate and the commands of the ground work on the record after they   *)
(* have released it, and each of their steps is an action.  Buffers stand  *)
(* where the code keeps them: one or two in each record, and a shared pool,*)
(* each with the identifier it was reserved under.  Every application has  *)
(* one task and one handle to a table.  Left out: tables with an address   *)
(* of the user, options and sizes, the format of files, partial loads,     *)
(* time stamps and CRCs, telemetry and events, and the critical table      *)
(* registry, which is kept with the data in cds.                           *)
(***************************************************************************)
EXTENDS Integers, FiniteSets

CONSTANTS
  Apps,           \* applications that use tables
  Names,          \* full names of tables, the name of the owner included
  OwnerOf,        \* [Names -> Apps]: the application that registers it
  Double,         \* the tables registered double-buffered,
  DumpOnly,       \*   dump-only,
  Critical,       \*   critical,
  Checked,        \*   and with a validation function
  Images,         \* what a table may contain
  Good,           \* the images that the validation functions accept
  Blank,          \* a buffer that was never written, or was cleared
  Calls,          \* the calls, other than the basic ones, that applications make
  Commands,       \* the commands that the ground sends
  Exits,          \* the applications that may stop and be started again
  PoolFails,      \* whether the memory pool may be exhausted
  MaxTables,      \* CFE_PLATFORM_TBL_MAX_NUM_TABLES
  MaxHandles,     \* CFE_PLATFORM_TBL_MAX_NUM_HANDLES
  MaxLoads,       \* CFE_PLATFORM_TBL_MAX_SIMULTANEOUS_LOADS
  MaxValidations, \* CFE_PLATFORM_TBL_MAX_NUM_VALIDATIONS
  LastReg, LastHandle, LastGen, LastLoad, LastDump, \* bounds on IDs
  None

\* What a command of the ground may be at.
CmdSteps == {"load", "read", "abort", "validate", "prepare"}

ASSUME TablesAssumption ==
  /\ OwnerOf \in [Names -> Apps] /\ Double \cup DumpOnly \cup Critical \cup Checked \subseteq Names
  /\ DumpOnly \cap (Double \cup Critical) = {}
  /\ Good \subseteq Images /\ Blank \notin Images /\ None \notin Apps \cup Names \cup CmdSteps
ASSUME LimitsAssumption ==
  /\ {MaxTables, MaxHandles, MaxLoads, MaxValidations} \subseteq Nat \ {0}
  /\ {LastReg, LastHandle, LastLoad, LastDump} \subseteq Nat /\ LastGen \in Nat \ {0}

Slots == 0 .. MaxTables - 1
Hs    == 1 .. LastHandle
Data  == Images \cup {Blank}

(* Identifiers of buffers: <<slot of a record, serial>>, or <<-1, serial>> *)
(* for the shared ones; NoBuf is CFE_TBL_LOADBUFFID_UNDEFINED and NULL.    *)
NoBuf      == <<-1, 0>>
BufIds     == (Slots \X (1 .. LastGen)) \cup ({-1} \X (1 .. LastLoad + MaxLoads * LastDump)) \cup {NoBuf}
Shared     == {-1} \X (1 .. MaxLoads)
Places     == (Slots \X {0, 1}) \cup Shared

VARIABLES
  reg,      \* Registry, by slot
  lastReg,  \* LastRegId
  hnd,      \* Handles, by identifier
  lastHnd,  \* LastHandle
  buf,      \* the buffers of the records, and LoadBuffs
  lastLoad, \* LastLoadBuffId
  cds,      \* what the CDS holds of each critical table
  dmp,      \* DumpControlBlocks, by identifier
  val,      \* ValidationResults
  lock,     \* who holds RegistryMutex
  at, job,  \* where each application is in its call, and with what
  gnd,      \* the command the Table Services task is in
  seen      \* specification only: what a locked table must show its user

storeVars == <<buf, lastLoad, cds>>
userVars  == <<hnd, lastHnd, seen>>
askVars   == <<dmp, val>>
taskVars  == <<at, job, gnd>>
vars == <<reg, lastReg, hnd, lastHnd, buf, lastLoad, cds, dmp, val, lock, at, job, gnd, seen>>

NoReg == [id |-> 0, name |-> None, owner |-> None, active |-> NoBuf, prev |-> NoBuf,
          next |-> NoBuf, vAct |-> 0, vInact |-> 0, dump |-> 0]
NoHnd == [used |-> FALSE, app |-> None, slot |-> 0, reg |-> 0, locked |-> FALSE,
          updated |-> FALSE, buf |-> NoBuf, addr |-> NoBuf]
NoJob == [h |-> 0, data |-> Blank, from |-> NoBuf, to |-> NoBuf, v |-> 0]
NoCmd == [cmd |-> None, slot |-> 0, at |-> NoBuf, dump |-> 0]

Init ==
  /\ reg = [s \in Slots |-> NoReg] /\ lastReg = 0
  /\ hnd = [h \in Hs |-> NoHnd] /\ lastHnd = 0
  /\ buf = [p \in Places |-> [id |-> NoBuf, reg |-> 0, data |-> Blank, valid |-> FALSE]]
  /\ lastLoad = 0
  /\ cds = [n \in Critical |-> [made |-> FALSE, loaded |-> FALSE, data |-> Blank]]
  /\ dmp = [d \in 1 .. LastDump |-> [state |-> "unused", source |-> NoBuf, buf |-> NoBuf]]
  /\ val = [v \in 1 .. MaxValidations |-> "free"]
  /\ lock = None
  /\ at = [a \in Apps |-> "idle"] /\ job = [a \in Apps |-> NoJob] /\ gnd = NoCmd
  /\ seen = [h \in Hs |-> Blank]

-----------------------------------------------------------------------------
(* Records, descriptors and buffers *)

Used(s)     == reg[s].id # 0
Named(n)    == {s \in Slots : Used(s) /\ reg[s].name = n}
IsDouble(s) == reg[s].name \in Double
Links(s)    == {h \in Hs : hnd[h].used /\ hnd[h].app # None /\ hnd[h].slot = s}
Mine(a)     == {h \in Hs : hnd[h].used /\ hnd[h].app = a}

\* CFE_TBL_LocateLoadBufferByID: where an identifier points, matching or not.
Place(id) ==
  CASE id = NoBuf -> NoBuf
    [] id # NoBuf /\ id[1] = -1 -> <<-1, 1 + (id[2] % MaxLoads)>>
    [] OTHER -> <<id[1], IF IsDouble(id[1]) THEN id[2] % 2 ELSE 0>>
IsMatch(id)   == id # NoBuf /\ buf[Place(id)].id = id       \* CFE_TBL_LoadBuffIsMatch
IsPrivate(id, s) == id # NoBuf /\ id[1] = s                  \* CFE_TBL_LoadBuffIsPrivate

\* CFE_TBL_GetLoadInProgressBuffer, and the record without a stale reference.
InProgress(s) == IF IsMatch(reg[s].next) THEN Place(reg[s].next) ELSE NoBuf
Unstale(s)    == IF IsMatch(reg[s].next) THEN reg ELSE [reg EXCEPT ![s].next = NoBuf]

\* CFE_TBL_GetSelectedBuffer, with CFE_TBL_GetInactiveBuffer.
Selected(s, active) ==
  IF active THEN Place(reg[s].active)
  ELSE IF InProgress(s) # NoBuf THEN InProgress(s) ELSE Place(reg[s].prev)

\* CFE_TBL_GetNextLocalBufferId
NextLocal(s) == <<s, IF reg[s].active = NoBuf THEN 1 ELSE reg[s].active[2] + 1>>

\* Mutant of LockedBy: the identifier is compared, not the buffer.
LockedById(p, s) == \E h \in Links(s) : hnd[h].locked /\ hnd[h].buf = reg[s].active
\* CFE_TBL_CheckInactiveBufferHelper: a descriptor holds the buffer.
LockedBy(p, s) == \E h \in Links(s) : hnd[h].locked /\ Place(hnd[h].buf) = p

\* CFE_TBL_GetInactiveBufferExclusive: NULL when somebody still uses the buffer.
Exclusive(s) ==
  LET p == Place(NextLocal(s)) IN
    IF buf[p].id \notin {NextLocal(s), NoBuf} /\ LockedBy(p, s) THEN NoBuf ELSE p

\* CFE_TBL_DumpCtrlBlockIsUsed
Live(d) == d # 0 /\ dmp[d].state \in {"taken", "pending", "performed"}

\* CFE_TBL_FindNextSharedBufferId
FreeShared == {k \in lastLoad + 1 .. lastLoad + MaxLoads : buf[Place(<<-1, k>>)].id = NoBuf}
NextShared == CHOOSE k \in FreeShared : \A j \in FreeShared : k <= j

\* Mutant of Discarded: the buffer is forgotten, not freed.
DiscardedNot(s) == buf
\* CFE_TBL_DiscardWorkingBuffer
Discarded(s) ==
  IF ~IsDouble(s) /\ reg[s].next # NoBuf
    THEN [buf EXCEPT ![Place(reg[s].next)].id = NoBuf] ELSE buf

Passes(s, data) == reg[s].name \notin Checked \/ data \in Good

Begin(a)  == at[a] = "idle" /\ lock = None
Goto(a, l) == at' = [at EXCEPT ![a] = l]
\* The call returns, and CFE_TBL_TxnFinish releases the lock it may hold.
Return(a) ==
  /\ Goto(a, "idle") /\ job' = [job EXCEPT ![a] = NoJob]
  /\ lock' = IF lock = a THEN None ELSE lock
HSlot(a)  == hnd[job[a].h].slot

-----------------------------------------------------------------------------
(* Registration: CFE_TBL_Register, Share, Unregister *)

\* CFE_TBL_TxnAllocateRegistryEntry: the next free record after LastRegId.
FreeRegs == {k \in lastReg + 1 .. lastReg + MaxTables : ~Used(k % MaxTables)}
NextReg  == CHOOSE k \in FreeRegs : \A j \in FreeRegs : k <= j
HandlesLeft == Cardinality({h \in Hs : hnd[h].used}) < MaxHandles

\* Mutant of NewReg: the identifier is one ahead of the record it is for.
NewRegAhead(k) == [NoReg EXCEPT !.id = k + 1]
\* CFE_TBL_InitRegistryRecord, then CFE_TBL_RegRecSetUsed
NewReg(k) == [NoReg EXCEPT !.id = k]
\* The buffers of a record whose memory is cleared.
ClearOwn(b, s) == [p \in Places |-> IF p[1] = s THEN [b[p] EXCEPT !.id = NoBuf, !.valid = FALSE] ELSE b[p]]

\* CFE_TBL_TxnAllocateAccDesc, then CFE_TBL_TxnConnectAccessDescriptor
Connect(a, s, id, updated) ==
  /\ lastHnd < LastHandle /\ lastHnd' = lastHnd + 1
  /\ hnd' = [hnd EXCEPT ![lastHnd + 1] = [NoHnd EXCEPT !.used = TRUE, !.app = a, !.slot = s,
                                                       !.reg = id, !.updated = updated]]

\* A registration that fails after CFE_TBL_TxnCheckDuplicateRegistration has
\* taken a record: no descriptor, or no memory for the buffers.
RegisterFails(a, n) ==
  /\ Begin(a) /\ OwnerOf[n] = a /\ Named(n) = {} /\ FreeRegs # {} /\ NextReg <= LastReg
  /\ lastReg' = NextReg
  /\ reg' = [reg EXCEPT ![NextReg % MaxTables] = NewReg(NextReg)]
  /\ buf' = ClearOwn(buf, NextReg % MaxTables)
  /\ \/ ~HandlesLeft /\ UNCHANGED <<hnd, lastHnd>>
     \/ HandlesLeft /\ PoolFails /\ Connect(None, 0, 0, FALSE)
  /\ UNCHANGED <<lastLoad, cds, askVars, taskVars, lock, seen>>

\* CFE_TBL_SetupTableBuffers, CFE_TBL_SetupTableRegistryRecord and, for a critical
\* table, CFE_ES_RegisterCDSEx and CFE_TBL_RestoreTableDataFromCDS: when the CDS
\* exists, a working buffer is taken and stays the load in progress.
Register(a, n) ==
  LET s     == NextReg % MaxTables
      first == <<s, 1>>
      p     == <<s, IF n \in Double THEN 1 ELSE 0>>
      new   == [NewReg(NextReg) EXCEPT !.name = n, !.owner = a]
  IN /\ Begin(a) /\ OwnerOf[n] = a /\ Named(n) = {} /\ FreeRegs # {} /\ NextReg <= LastReg
     /\ HandlesLeft
     /\ lastReg' = NextReg
     /\ \/ /\ n \notin DumpOnly /\ (n \in Critical => ~cds[n].made)
           /\ reg' = [reg EXCEPT ![s] = new] /\ buf' = ClearOwn(buf, s)
           /\ cds' = IF n \in Critical THEN [cds EXCEPT ![n].made = TRUE] ELSE cds
           /\ Connect(a, s, NextReg, FALSE)
        \/ /\ n \in DumpOnly
           /\ reg' = [reg EXCEPT ![s] = [new EXCEPT !.active = first]]
           /\ buf' = [ClearOwn(buf, s) EXCEPT ![p].id = first, ![p].reg = NextReg]
           /\ Connect(a, s, NextReg, FALSE) /\ UNCHANGED cds
        \/ /\ n \in Critical /\ cds[n].made
           /\ \E restored \in {TRUE, FALSE} :
                LET ok == restored /\ cds[n].loaded IN
                  /\ reg' = [reg EXCEPT ![s] = [new EXCEPT !.next = first,
                                                  !.active = IF ok THEN first ELSE NoBuf]]
                  /\ buf' = [ClearOwn(buf, s) EXCEPT ![p].id = first, ![p].reg = NextReg,
                               ![p].data = IF restored THEN cds[n].data ELSE @]
                  /\ Connect(a, s, NextReg, ok)
           /\ UNCHANGED cds
     /\ UNCHANGED <<lastLoad, askVars, taskVars, lock, seen>>

\* CFE_TBL_Share: any record in use with the name, owned or not.
Share(a, n) ==
  /\ Begin(a) /\ OwnerOf[n] # a /\ HandlesLeft
  /\ \A h \in Mine(a) : reg[hnd[h].slot].name # n
  /\ \E s \in Named(n) : Connect(a, s, reg[s].id, n \notin DumpOnly /\ reg[s].active # NoBuf)
  /\ UNCHANGED <<reg, lastReg, storeVars, askVars, taskVars, lock, seen>>

\* Mutant of ReleaseAccDesc: the record is freed as soon as it has no owner.
ReleaseAtOnce(a, h) ==
  LET s     == hnd[h].slot
      owner == IF reg[s].owner = a THEN None ELSE reg[s].owner
  IN /\ IF owner = None
          THEN /\ reg' = [reg EXCEPT ![s] = [@ EXCEPT !.id = 0, !.owner = None, !.next = NoBuf]]
               /\ buf' = ClearOwn(Discarded(s), s)
          ELSE reg' = [reg EXCEPT ![s].owner = owner] /\ UNCHANGED buf
     /\ hnd' = [hnd EXCEPT ![h] = NoHnd] /\ seen' = [seen EXCEPT ![h] = Blank]
     /\ UNCHANGED <<lastReg, lastHnd, lastLoad, cds, val, lock, job, gnd>>
\* CFE_TBL_TxnReleaseAccDesc, with CFE_TBL_TxnRemoveAccessLink: the record and its
\* buffers are freed with the last descriptor of a table without an owner.
ReleaseAccDesc(a, h) ==
  LET s     == hnd[h].slot
      owner == IF reg[s].owner = a THEN None ELSE reg[s].owner
  IN /\ IF owner = None /\ Links(s) = {h}
          THEN /\ reg' = [reg EXCEPT ![s] = [@ EXCEPT !.id = 0, !.owner = None, !.next = NoBuf]]
               /\ buf' = ClearOwn(Discarded(s), s)
          ELSE reg' = [reg EXCEPT ![s].owner = owner] /\ UNCHANGED buf
     /\ hnd' = [hnd EXCEPT ![h] = NoHnd] /\ seen' = [seen EXCEPT ![h] = Blank]
     /\ UNCHANGED <<lastReg, lastHnd, lastLoad, cds, val, lock, job, gnd>>

\* CFE_TBL_Unregister
Unregister(a, h) ==
  "unregister" \in Calls /\ Begin(a) /\ ReleaseAccDesc(a, h) /\ UNCHANGED <<at, dmp>>

\* An application stops, and CFE_TBL_CleanUpApp drops the dumps of its tables,
Exit(a) ==
  LET dropped(d) == /\ Live(d) /\ IsMatch(dmp[d].source)
                    /\ \E s \in Slots : /\ reg[s].id = buf[Place(dmp[d].source)].reg /\ Used(s)
                                        /\ reg[s].owner = a
  IN /\ a \in Exits /\ Begin(a) /\ Goto(a, "cleanup")
     /\ dmp' = [d \in DOMAIN dmp |-> IF dropped(d) THEN [dmp[d] EXCEPT !.state = "free"] ELSE dmp[d]]
     /\ UNCHANGED <<reg, lastReg, userVars, storeVars, val, lock, job, gnd>>
\* then releases each of its descriptors in a transaction of its own.
CleanUpHandle(a, h) == at[a] = "cleanup" /\ lock = None /\ ReleaseAccDesc(a, h) /\ UNCHANGED <<at, dmp>>
\* The application is started again.
CleanUpEnd(a) ==
  /\ at[a] = "cleanup" /\ Mine(a) = {} /\ Goto(a, "idle")
  /\ UNCHANGED <<reg, lastReg, userVars, storeVars, askVars, lock, job, gnd>>

-----------------------------------------------------------------------------
(* Reading: CFE_TBL_GetAddress, ReleaseAddress, Modified *)

\* CFE_TBL_TxnGetTableAddress: the descriptor remembers the identifier that the
\* active buffer has now, and the caller gets the address of the buffer.
GetAddress(a, h) ==
  LET s == hnd[h].slot  p == Place(reg[s].active) IN
    /\ Begin(a) /\ reg[s].owner # None /\ reg[s].active # NoBuf
    /\ hnd' = [hnd EXCEPT ![h] = [@ EXCEPT !.locked = TRUE, !.buf = buf[p].id, !.addr = p]]
    /\ seen' = [seen EXCEPT ![h] = buf[p].data]
    /\ lock' = a /\ Goto(a, "address") /\ job' = [job EXCEPT ![a].h = h]
    /\ UNCHANGED <<reg, lastReg, lastHnd, storeVars, askVars, gnd>>
\* Mutant of AddressStatus: the transaction is not finished.
AddressStatusHeld(a) ==
  /\ at[a] = "address" /\ hnd' = [hnd EXCEPT ![job[a].h].updated = FALSE]
  /\ Goto(a, "idle") /\ job' = [job EXCEPT ![a] = NoJob]
  /\ UNCHANGED <<reg, lastReg, lastHnd, storeVars, askVars, lock, gnd, seen>>
\* The pending notification is read with CFE_TBL_TxnGetNextNotification, and cleared.
AddressStatus(a) ==
  /\ at[a] = "address"
  /\ hnd' = [hnd EXCEPT ![job[a].h].updated = FALSE]
  /\ Return(a)
  /\ UNCHANGED <<reg, lastReg, lastHnd, storeVars, askVars, gnd, seen>>
\* CFE_TBL_ReleaseAddress
ReleaseAddress(a, h) ==
  /\ Begin(a) /\ hnd[h].locked
  /\ hnd' = [hnd EXCEPT ![h] = [@ EXCEPT !.locked = FALSE, !.addr = NoBuf]]
  /\ seen' = [seen EXCEPT ![h] = Blank]
  /\ UNCHANGED <<reg, lastReg, lastHnd, storeVars, askVars, taskVars, lock>>
\* An application writes to the table at its address; then CFE_TBL_Modified, with
\* the lock, tells the others, and without it saves a critical table.
Modified(a, h, d) ==
  LET s == hnd[h].slot IN
    /\ "modified" \in Calls /\ Begin(a) /\ hnd[h].locked /\ reg[s].active # NoBuf
    /\ buf' = [buf EXCEPT ![hnd[h].addr].data = d]
    /\ seen' = [g \in Hs |-> IF hnd[g].addr = hnd[h].addr /\ hnd[g].locked THEN d ELSE seen[g]]
    /\ hnd' = [g \in Hs |-> IF g \in Links(s) /\ hnd[g].app # a THEN [hnd[g] EXCEPT !.updated = TRUE]
                            ELSE hnd[g]]
    /\ IF reg[s].name \in Critical THEN Goto(a, "pickModified") /\ job' = [job EXCEPT ![a].h = h]
       ELSE UNCHANGED <<at, job>>
    /\ UNCHANGED <<reg, lastReg, lastHnd, lastLoad, cds, askVars, lock, gnd>>

-----------------------------------------------------------------------------
(* Loading: CFE_TBL_Load, which runs without the lock *)

\* A buffer is reserved for table s; copy: it starts as the active one, unvalidated,
\* as in CFE_TBL_PrepareNewLoadBuff.
Claim(s, p, id, copy) ==
  buf' = [buf EXCEPT ![p] =
            [id |-> id, reg |-> reg[s].id, valid |-> IF copy THEN FALSE ELSE @.valid,
             data |-> IF copy THEN buf[Place(reg[s].active)].data ELSE @.data]]

\* CFE_TBL_GetWorkingBuffer, when no load is in progress: for the first load the
\* record's own buffer, then the inactive one or, single-buffered, a shared one.
GetWorkingBuffer(s) ==
  /\ NextLocal(s)[2] <= LastGen
  /\ \/ /\ reg[s].active = NoBuf \/ IsDouble(s)
        /\ Exclusive(s) # NoBuf
        /\ Claim(s, Exclusive(s), NextLocal(s), reg[s].active # NoBuf)
        /\ reg' = [reg EXCEPT ![s].next = NextLocal(s)]
        /\ UNCHANGED lastLoad
     \/ /\ reg[s].active # NoBuf /\ ~IsDouble(s)
        /\ FreeShared # {} /\ NextShared <= LastLoad
        /\ Claim(s, Place(<<-1, NextShared>>), <<-1, NextShared>>, TRUE)
        /\ reg' = [reg EXCEPT ![s].next = <<-1, NextShared>>]
        /\ lastLoad' = NextShared

\* CFE_TBL_Load up to CFE_TBL_ValidateLoadRequest: only the owner, and only while
\* no load is in progress.
Load(a, h, d) ==
  LET s == hnd[h].slot IN
    /\ Begin(a) /\ reg[s].owner = a /\ reg[s].next = NoBuf /\ reg[s].name \notin DumpOnly
    /\ GetWorkingBuffer(s)
    /\ Goto(a, "write") /\ job' = [job EXCEPT ![a] = [@ EXCEPT !.h = h, !.data = d]]
    /\ UNCHANGED <<lastReg, userVars, cds, askVars, lock, gnd>>

\* CFE_TBL_TxnLoadFromSourceAddr and CFE_TBL_TxnLoadFromFile: the source is copied
\* into the working buffer, which only the second expects to be missing.
LoadWrite(a) ==
  LET s == HSlot(a)  p == InProgress(s) IN
    /\ at[a] = "write" /\ reg' = Unstale(s)
    /\ \/ /\ p # NoBuf /\ Goto(a, "check")
          /\ \/ buf' = [buf EXCEPT ![p].data = job[a].data]
             \/ buf' = [buf EXCEPT ![p].data = job[a].data, ![p].valid = reg[s].name \notin Checked]
       \/ p # NoBuf /\ Goto(a, "discard") /\ buf' = [buf EXCEPT ![p].data = job[a].data]
       \/ p = NoBuf /\ \E l \in {"discard", "fault"} : Goto(a, l) /\ UNCHANGED buf
    /\ UNCHANGED <<lastReg, userVars, lastLoad, cds, askVars, lock, job, gnd>>

\* Mutant of LoadCheck: the load goes on although the function refused it.
LoadCheckNot(a) ==
  /\ at[a] = "check" /\ Goto(a, "reserve")
  /\ UNCHANGED <<reg, lastReg, userVars, storeVars, askVars, lock, job, gnd>>
\* CFE_TBL_ValidateLoadInProgress
LoadCheck(a) ==
  LET s == HSlot(a)  p == InProgress(s) IN
    /\ at[a] = "check" /\ reg' = Unstale(s)
    /\ \/ p = NoBuf /\ Goto(a, "discard") /\ UNCHANGED buf
       \/ /\ p # NoBuf /\ Passes(s, buf[p].data) /\ Goto(a, "reserve")
          /\ buf' = [buf EXCEPT ![p].valid = TRUE]
       \/ /\ p # NoBuf /\ ~Passes(s, buf[p].data) /\ Goto(a, "discard")
          /\ buf' = [buf EXCEPT ![p].valid = FALSE, ![p].data = Blank]
    /\ UNCHANGED <<lastReg, userVars, lastLoad, cds, askVars, lock, job, gnd>>

-----------------------------------------------------------------------------
(* CFE_TBL_UpdateInternal: called by Load without the lock, by Update with it *)

\* CFE_TBL_Update
Update(a, h) ==
  /\ at[a] = "update" \/ ("update" \in Calls /\ Begin(a))
  /\ lock = None /\ reg[hnd[h].slot].owner = a /\ (at[a] = "update" => job[a].h = h)
  /\ lock' = a /\ Goto(a, "reserve") /\ job' = [job EXCEPT ![a].h = h]
  /\ UNCHANGED <<reg, lastReg, userVars, storeVars, askVars, gnd>>

\* A buffer of the table's own becomes active as it is; for a shared one the own
\* buffer is reserved, unless somebody has locked it.
Reserve(a) ==
  LET s == HSlot(a)  p == InProgress(s) IN
    /\ at[a] = "reserve" /\ reg' = Unstale(s)
    /\ \/ p = NoBuf /\ Return(a) /\ UNCHANGED buf
       \/ /\ p # NoBuf /\ IsPrivate(reg[s].next, s)
          /\ Goto(a, "activate") /\ job' = [job EXCEPT ![a].to = p] /\ UNCHANGED <<buf, lock>>
       \/ /\ p # NoBuf /\ ~IsPrivate(reg[s].next, s) /\ Exclusive(s) = NoBuf
          /\ Return(a) /\ UNCHANGED buf
       \/ /\ p # NoBuf /\ ~IsPrivate(reg[s].next, s) /\ Exclusive(s) # NoBuf
          /\ Claim(s, Exclusive(s), NextLocal(s), FALSE)
          /\ Goto(a, "copy") /\ job' = [job EXCEPT ![a].from = p, ![a].to = Exclusive(s)]
          /\ UNCHANGED lock
    /\ UNCHANGED <<lastReg, userVars, lastLoad, cds, askVars, gnd>>
Copy(a) ==
  /\ at[a] = "copy" /\ Goto(a, "activate")
  /\ buf' = [buf EXCEPT ![job[a].to].data = buf[job[a].from].data]
  /\ UNCHANGED <<reg, lastReg, userVars, lastLoad, cds, askVars, lock, job, gnd>>
\* CFE_TBL_SetActiveBuffer: the identifier the buffer has at this moment.
Activate(a) ==
  LET s == HSlot(a) IN
    /\ at[a] = "activate" /\ Goto(a, "notify")
    /\ reg' = [reg EXCEPT ![s].prev = reg[s].active, ![s].active = buf[job[a].to].id]
    /\ UNCHANGED <<lastReg, userVars, storeVars, askVars, lock, job, gnd>>
\* Mutant of Notify: the critical data store is not updated.
NotifyOnly(a) ==
  /\ at[a] = "notify"
  /\ hnd' = [h \in Hs |-> IF h \in Links(HSlot(a)) THEN [hnd[h] EXCEPT !.updated = TRUE] ELSE hnd[h]]
  /\ Goto(a, "discard")
  /\ UNCHANGED <<reg, lastReg, lastHnd, storeVars, askVars, lock, job, gnd, seen>>
\* CFE_TBL_NotifyTblUsersOfUpdate
Notify(a) ==
  /\ at[a] = "notify"
  /\ hnd' = [h \in Hs |-> IF h \in Links(HSlot(a)) THEN [hnd[h] EXCEPT !.updated = TRUE] ELSE hnd[h]]
  /\ Goto(a, IF reg[HSlot(a)].name \in Critical THEN "pick" ELSE "discard")
  /\ UNCHANGED <<reg, lastReg, lastHnd, storeVars, askVars, lock, job, gnd, seen>>

\* CFE_TBL_UpdateCriticalTblCDS: the active buffer is found,
PickActive(a) ==
  /\ at[a] \in {"pick", "pickModified"}
  /\ Goto(a, IF at[a] = "pick" THEN "save" ELSE "saveModified")
  /\ job' = [job EXCEPT ![a].from = Place(reg[HSlot(a)].active)]
  /\ UNCHANGED <<reg, lastReg, userVars, storeVars, askVars, lock, gnd>>
\* then copied to the CDS with its entry of the critical table registry.
Save(a) ==
  LET n == reg[HSlot(a)].name IN
    /\ at[a] \in {"save", "saveModified"}
    /\ cds' = IF job[a].from = NoBuf THEN cds
              ELSE [cds EXCEPT ![n].data = buf[job[a].from].data,
                               ![n].loaded = reg[HSlot(a)].active # NoBuf]
    /\ IF at[a] = "save" THEN Goto(a, "discard") /\ UNCHANGED <<job, lock>> ELSE Return(a)
    /\ UNCHANGED <<reg, lastReg, userVars, buf, lastLoad, askVars, gnd>>
\* CFE_TBL_DiscardWorkingBuffer, at the end of an update or of a load that failed.
Discard(a) ==
  /\ at[a] = "discard" /\ buf' = Discarded(HSlot(a))
  /\ reg' = [reg EXCEPT ![HSlot(a)].next = NoBuf]
  /\ Return(a)
  /\ UNCHANGED <<lastReg, userVars, lastLoad, cds, askVars, gnd>>

-----------------------------------------------------------------------------
(* What the ground asked for: CFE_TBL_Validate, DumpToBuffer, Manage *)

\* CFE_TBL_CheckValidationRequest clears a request and returns its block, if that is
\* still in use; CFE_TBL_Validate tries the inactive buffer first, under the lock.
Validate(a, h) ==
  LET s     == hnd[h].slot
      inact == reg[s].vInact # 0 /\ val[reg[s].vInact] # "free"
      v     == IF inact THEN reg[s].vInact ELSE reg[s].vAct
      p     == IF inact THEN InProgress(s) ELSE Place(reg[s].active)
  IN /\ at[a] = "validate" \/ ("validate" \in Calls /\ Begin(a))
     /\ lock = None /\ reg[s].owner = a /\ (at[a] = "validate" => job[a].h = h)
     /\ reg' = IF inact THEN [Unstale(s) EXCEPT ![s].vInact = 0]
               ELSE [reg EXCEPT ![s].vInact = 0, ![s].vAct = 0]
     /\ IF v # 0 /\ val[v] # "free"
          THEN Goto(a, "function") /\ job' = [job EXCEPT ![a] = [@ EXCEPT !.h = h, !.v = v, !.to = p]]
          ELSE Goto(a, "idle") /\ job' = [job EXCEPT ![a] = NoJob]
     /\ UNCHANGED <<lastReg, userVars, storeVars, askVars, lock, gnd>>
\* The validation function runs on the buffer without the lock.
ValidateFunction(a) ==
  LET p == job[a].to IN
    /\ at[a] = "function"
    /\ buf' = IF p # NoBuf /\ Passes(HSlot(a), buf[p].data) THEN [buf EXCEPT ![p].valid = TRUE] ELSE buf
    /\ val' = [val EXCEPT ![job[a].v] = "performed"]
    /\ Goto(a, "idle") /\ job' = [job EXCEPT ![a] = NoJob]
    /\ UNCHANGED <<reg, lastReg, userVars, lastLoad, cds, dmp, lock, gnd>>

\* CFE_TBL_ExecuteDumpSnapshot: the source is copied, if it is still itself.
Snapshot(d, source, to) ==
  /\ IsMatch(source)
  /\ buf' = [buf EXCEPT ![to].data = buf[Place(source)].data]
  /\ dmp' = [dmp EXCEPT ![d] = [state |-> "performed", source |-> NoBuf, buf |-> to]]
\* CFE_TBL_DumpToBuffer; a request that has gone is cleared.
DumpToBuffer(a, h) ==
  LET s == hnd[h].slot  d == reg[s].dump IN
    /\ at[a] = "dump" \/ ("dump" \in Calls /\ Begin(a))
    /\ lock = None /\ (at[a] = "dump" => job[a].h = h)
    /\ \/ d = 0 /\ UNCHANGED <<buf, dmp, reg>>
       \/ Live(d) /\ Snapshot(d, dmp[d].source, dmp[d].buf) /\ UNCHANGED reg
       \/ Live(d) /\ ~IsMatch(dmp[d].source) /\ UNCHANGED <<buf, dmp, reg>>
       \/ d # 0 /\ ~Live(d) /\ reg' = [reg EXCEPT ![s].dump = 0] /\ UNCHANGED <<buf, dmp>>
    /\ Goto(a, "idle") /\ job' = [job EXCEPT ![a] = NoJob]
    /\ UNCHANGED <<lastReg, userVars, lastLoad, cds, val, lock, gnd>>

\* CFE_TBL_Manage acts on what CFE_TBL_GetStatus found, after the lock is released.
Manage(a, h) ==
  LET s == hnd[h].slot IN
    /\ "manage" \in Calls /\ Begin(a) /\ reg[s].owner = a
    /\ \/ (reg[s].vAct # 0 \/ reg[s].vInact # 0) /\ Goto(a, "validate")
       \/ /\ reg[s].vAct = 0 /\ reg[s].vInact = 0
          /\ \/ IsMatch(reg[s].next) /\ buf[Place(reg[s].next)].valid /\ Goto(a, "update")
             \/ /\ ~(IsMatch(reg[s].next) /\ buf[Place(reg[s].next)].valid)
                /\ reg[s].dump # 0 /\ Goto(a, "dump")
    /\ job' = [job EXCEPT ![a].h = h]
    /\ UNCHANGED <<reg, lastReg, userVars, storeVars, askVars, lock, gnd>>

-----------------------------------------------------------------------------
(* The Table Services task: commands of the ground *)

\* CFE_TBL_TxnStartFromName: the record is found under the lock, and used after it
\* is released.
FindTable(c, n) ==
  /\ c \in Commands \ {"dump"} /\ gnd = NoCmd /\ lock = None
  /\ \E s \in Named(n) : gnd' = [NoCmd EXCEPT !.cmd = c, !.slot = s]
  /\ UNCHANGED <<reg, lastReg, userVars, storeVars, askVars, lock, at, job>>

\* CFE_TBL_LoadCmd, CFE_TBL_LoadContentFromFile: the file goes where a load in
\* progress is; a command never starts one.
LoadCmd ==
  LET s == gnd.slot IN
    /\ gnd.cmd = "load" /\ reg' = Unstale(s)
    /\ gnd' = IF reg[s].name \in DumpOnly \/ InProgress(s) = NoBuf THEN NoCmd
              ELSE [gnd EXCEPT !.cmd = "read", !.at = InProgress(s)]
    /\ UNCHANGED <<lastReg, userVars, storeVars, askVars, lock, at, job>>
\* The file is read into the buffer found before; it may turn out too short.
ReadFile(d) ==
  LET s == gnd.slot IN
    /\ gnd.cmd = "read" /\ gnd' = NoCmd
    /\ \/ buf' = [buf EXCEPT ![gnd.at].data = d] /\ UNCHANGED reg
       \/ /\ reg' = Unstale(s)
          /\ LET read == [buf EXCEPT ![gnd.at].data = d] IN
               buf' = IF InProgress(s) = NoBuf THEN read
                      ELSE [read EXCEPT ![InProgress(s)].valid = reg[s].name \notin Checked]
    /\ UNCHANGED <<lastReg, userVars, lastLoad, cds, askVars, lock, at, job>>

\* CFE_TBL_AbortLoadCmd
AbortLoadCmd ==
  LET s == gnd.slot IN
    /\ gnd.cmd = "abort" /\ gnd' = NoCmd
    /\ IF reg[s].next # NoBuf /\ reg[s].name \notin DumpOnly
         THEN buf' = Discarded(s) /\ reg' = [reg EXCEPT ![s].next = NoBuf]
         ELSE UNCHANGED <<buf, reg>>
    /\ UNCHANGED <<lastReg, userVars, lastLoad, cds, askVars, lock, at, job>>

\* CFE_TBL_ValidateCmd: a result block is taken, and the owner asked to fill it; a
\* second request for the same image takes the place of the first.
ValidateCmd(active) ==
  LET s == gnd.slot  found == Selected(s, active)
      r == IF active THEN reg ELSE Unstale(s)
  IN /\ gnd.cmd = "validate" /\ gnd' = NoCmd
     /\ \/ /\ found = NoBuf \/ \A v \in DOMAIN val : val[v] # "free"
           /\ reg' = r /\ UNCHANGED val
        \/ \E v \in DOMAIN val :
             /\ found # NoBuf /\ val[v] = "free"
             /\ val' = [val EXCEPT ![v] = IF reg[s].name \in Checked THEN "pending" ELSE "performed"]
             /\ reg' = IF reg[s].name \notin Checked THEN r
                       ELSE IF active THEN [r EXCEPT ![s].vAct = v] ELSE [r EXCEPT ![s].vInact = v]
     /\ UNCHANGED <<lastReg, userVars, storeVars, dmp, lock, at, job>>

\* CFE_TBL_DumpCmd: under the lock CFE_TBL_AllocateDumpCtrlBlock takes a block,
DumpCmd(n, active) ==
  /\ "dump" \in Commands /\ gnd = NoCmd /\ lock = None
  /\ Cardinality({d \in DOMAIN dmp : Live(d)}) < MaxLoads
  /\ \E s \in Named(n), d \in DOMAIN dmp :
       /\ reg[s].dump = 0 /\ Selected(s, active) # NoBuf
       /\ dmp[d].state = "unused" /\ \A e \in 1 .. d - 1 : dmp[e].state # "unused"
       /\ dmp' = [dmp EXCEPT ![d] = [state |-> "taken", source |-> buf[Selected(s, active)].id,
                                     buf |-> NoBuf]]
       /\ gnd' = [NoCmd EXCEPT !.cmd = "prepare", !.slot = s, !.dump = d]
       /\ reg' = IF active THEN reg ELSE Unstale(s)
  /\ UNCHANGED <<lastReg, userVars, storeVars, val, lock, at, job>>
\* and without it CFE_TBL_PrepareDumpSnapshotBuffer takes a shared buffer, and leaves
\* the copy to the owner of a dump-only table or makes it at once.  It gives the
\* buffer back when it fails, and the block never.
PrepareDump ==
  LET s == gnd.slot  d == gnd.dump  p == Place(<<-1, NextShared>>)
      taken(b) == [b EXCEPT ![p].id = <<-1, NextShared>>, ![p].reg = reg[s].id]
  IN /\ gnd.cmd = "prepare" /\ gnd' = NoCmd
     /\ \/ FreeShared = {} /\ UNCHANGED <<reg, buf, lastLoad, dmp>>
        \/ /\ FreeShared # {} /\ lastLoad' = NextShared
           /\ \/ ~Live(d) /\ UNCHANGED <<reg, buf, dmp>>
              \/ /\ Live(d) /\ reg[s].name \in DumpOnly
                 /\ buf' = taken(buf) /\ reg' = [reg EXCEPT ![s].dump = d]
                 /\ dmp' = [dmp EXCEPT ![d].state = "pending", ![d].buf = p]
              \/ /\ Live(d) /\ reg[s].name \notin DumpOnly /\ IsMatch(dmp[d].source)
                 /\ buf' = [taken(buf) EXCEPT ![p].data = buf[Place(dmp[d].source)].data]
                 /\ dmp' = [dmp EXCEPT ![d] = [state |-> "performed", source |-> NoBuf, buf |-> p]]
                 /\ UNCHANGED reg
              \/ /\ Live(d) /\ reg[s].name \notin DumpOnly /\ ~IsMatch(dmp[d].source)
                 /\ dmp' = [dmp EXCEPT ![d].buf = p] /\ UNCHANGED <<reg, buf>>
     /\ UNCHANGED <<lastReg, userVars, cds, val, lock, at, job>>

\* Mutant of SendHkCmd: the loop misses the first block.
SendHkCmdSkips ==
  LET done == {d \in DOMAIN dmp : dmp[d].state = "performed" /\ d % MaxLoads # 0} IN
    /\ gnd = NoCmd /\ done # {} /\ val' = val
    /\ buf' = [p \in Places |-> IF \E d \in done : dmp[d].buf = p
                                  THEN [buf[p] EXCEPT !.id = NoBuf] ELSE buf[p]]
    /\ dmp' = [d \in DOMAIN dmp |-> IF d \in done THEN [dmp[d] EXCEPT !.state = "free"] ELSE dmp[d]]
    /\ UNCHANGED <<reg, lastReg, userVars, lastLoad, cds, lock, taskVars>>
\* CFE_TBL_SendHkCmd: CFE_TBL_GetHkData reports and frees one validation; every dump
\* performed is written to its file, and its buffer and block are freed.
SendHkCmd ==
  LET done == {d \in DOMAIN dmp : dmp[d].state = "performed"}
      over == {v \in DOMAIN val : val[v] = "performed"}
  IN /\ gnd = NoCmd /\ done \cup over # {}
     /\ IF over = {} THEN UNCHANGED val
        ELSE val' = [val EXCEPT ![CHOOSE v \in over : \A w \in over : v <= w] = "free"]
     /\ buf' = [p \in Places |-> IF \E d \in done : dmp[d].buf = p
                                   THEN [buf[p] EXCEPT !.id = NoBuf] ELSE buf[p]]
     /\ dmp' = [d \in DOMAIN dmp |-> IF d \in done THEN [dmp[d] EXCEPT !.state = "free"] ELSE dmp[d]]
     /\ UNCHANGED <<reg, lastReg, userVars, lastLoad, cds, lock, taskVars>>

-----------------------------------------------------------------------------
Start(a) ==
  \/ \E n \in Names : Register(a, n) \/ RegisterFails(a, n) \/ Share(a, n)
  \/ \E h \in Mine(a) : \/ Unregister(a, h) \/ GetAddress(a, h) \/ ReleaseAddress(a, h)
                        \/ Manage(a, h) \/ (\E d \in Images : Load(a, h, d) \/ Modified(a, h, d))
                        \/ at[a] = "idle" /\ (Update(a, h) \/ Validate(a, h) \/ DumpToBuffer(a, h))
  \/ Exit(a)
\* The steps that a call, once begun, goes through.
Continue(a) ==
  \/ AddressStatus(a) \/ LoadWrite(a) \/ LoadCheck(a)
  \/ Reserve(a) \/ Copy(a) \/ Activate(a) \/ Notify(a) \/ PickActive(a) \/ Save(a) \/ Discard(a)
  \/ ValidateFunction(a) \/ CleanUpEnd(a)
  \/ \E h \in Mine(a) :
       \/ CleanUpHandle(a, h)
       \/ at[a] # "idle" /\ (Update(a, h) \/ Validate(a, h) \/ DumpToBuffer(a, h))
Command == \E n \in Names, b \in {TRUE, FALSE} : FindTable("load", n) \/ FindTable("abort", n)
                                                   \/ FindTable("validate", n) \/ DumpCmd(n, b)
Carry   == \/ LoadCmd \/ (\E d \in Images : ReadFile(d)) \/ AbortLoadCmd
           \/ (\E b \in {TRUE, FALSE} : ValidateCmd(b)) \/ PrepareDump
Next == (\E a \in Apps : Start(a) \/ Continue(a)) \/ Command \/ Carry \/ SendHkCmd
Spec == Init /\ [][Next]_vars

\* A call that has begun goes on, each time the lock comes free, for OSAL gives a
\* mutex to a task that waits; nobody has to begin one.  The housekeeping request
\* comes again and again from the scheduler, and waits in the pipe of the task in
\* turn with the commands.
FairSpec ==
  /\ Spec /\ WF_vars(Carry) /\ SF_vars(SendHkCmd)
  /\ \A a \in Apps : SF_vars(Continue(a))

-----------------------------------------------------------------------------
(* Properties *)

\* Every variable keeps its type: the fields of cfe_tbl_internal.h within the bounds.
TypeOK ==
  /\ reg \in [Slots -> [id : 0 .. LastReg, name : Names \cup {None}, owner : Apps \cup {None},
                        active : BufIds, prev : BufIds, next : BufIds,
                        vAct : 0 .. MaxValidations, vInact : 0 .. MaxValidations, dump : 0 .. LastDump]]
  /\ lastReg \in 0 .. LastReg /\ lastHnd \in 0 .. LastHandle
  /\ hnd \in [Hs -> [used : BOOLEAN, app : Apps \cup {None}, slot : Slots, reg : 0 .. LastReg,
                     locked : BOOLEAN, updated : BOOLEAN, buf : BufIds, addr : Places \cup {NoBuf}]]
  /\ buf \in [Places -> [id : BufIds, reg : 0 .. LastReg, data : Data, valid : BOOLEAN]]
  /\ cds \in [Critical -> [made : BOOLEAN, loaded : BOOLEAN, data : Data]]
  /\ dmp \in [1 .. LastDump -> [state : {"unused", "taken", "pending", "performed", "free"},
                                source : BufIds, buf : Places \cup {NoBuf}]]
  /\ val \in [1 .. MaxValidations -> {"free", "pending", "performed"}]
  /\ lock \in Apps \cup {None} /\ seen \in [Hs -> Data]

\* What an application reads at an address it has locked stays as it was when it got
\* the address, but for what applications write there themselves: "if the buffer
\* becomes inactive while we are using it, no one will modify it until we are done"
\* (CFE_TBL_TxnGetTableAddress).
LockedUnchanged == \A h \in Hs : hnd[h].locked => buf[hnd[h].addr].data = seen[h]

\* Who holds a shared buffer: a load in progress, or a dump.
Loading(p) == {s \in Slots : Used(s) /\ reg[s].next # NoBuf /\ reg[s].next = buf[p].id}
Dumping(p) == {d \in DOMAIN dmp : dmp[d].state \in {"pending", "performed"} /\ dmp[d].buf = p}

\* The shared buffers neither leak nor serve two: one is in use exactly when one load
\* or one dump has it, and a load that names one has it (CFE_TBL_AcquireGlobalLoadBuff,
\* CFE_TBL_DiscardWorkingBuffer, CFE_TBL_SendHkCmd).
SharedBuffersHeld ==
  /\ \A p \in Shared : Cardinality(Loading(p)) + Cardinality(Dumping(p))
                         = IF buf[p].id # NoBuf THEN 1 ELSE 0
  /\ \A s \in Slots : Used(s) /\ reg[s].next[1] = -1 /\ reg[s].next # NoBuf => IsMatch(reg[s].next)

\* A descriptor in use leads to the record it was made for, and a registered table
\* stays as long as it has an owner or a user, and no longer
\* (CFE_TBL_TxnReleaseAccDesc, CFE_TBL_TxnRemoveAccessLink).
DescriptorsLinked ==
  /\ \A h \in Hs : hnd[h].used /\ hnd[h].app # None =>
       reg[hnd[h].slot].id = hnd[h].reg /\ Used(hnd[h].slot)
  /\ \A s \in Slots : Used(s) /\ reg[s].name # None =>
       (reg[s].owner # None => \E h \in Links(s) : hnd[h].app = reg[s].owner) /\ Links(s) # {}
\* The active image of a table with a validation function is one it accepted
\* (CFE_TBL_ValidateLoadInProgress, CFE_TBL_LoadFinish).
ActiveValidated ==
  \A s \in Slots : Used(s) /\ reg[s].name \in Checked /\ reg[s].active # NoBuf
                     => buf[Place(reg[s].active)].data \in Good

\* An owner is between the change of the active image and the end of CopyToCDS.
Saving(s) == \E a \in Apps : at[a] \in {"copy", "activate", "notify", "pick", "save", "pickModified",
                                        "saveModified"} /\ HSlot(a) = s
\* Outside of an update, the CDS holds the active image of a critical table, so that
\* an owner that is started again finds the image it had (CFE_TBL_UpdateCriticalTblCDS,
\* CFE_TBL_RestoreTableDataFromCDS).
CriticalSaved ==
  \A s \in Slots : Used(s) /\ reg[s].name \in Critical /\ reg[s].active # NoBuf /\ ~Saving(s)
                     => cds[reg[s].name].loaded /\ cds[reg[s].name].data = buf[Place(reg[s].active)].data

\* A call that has begun returns: nobody waits for ever for the registry mutex, and no
\* step of a load depends on another task.
CallsEnd == \A a \in Apps : (at[a] # "idle") ~> (at[a] = "idle")
\* A dump that was made is written, and its buffer and block become free, at a
\* housekeeping request (CFE_TBL_SendHkCmd).
DumpsWritten == \A d \in 1 .. LastDump : (dmp[d].state = "performed") ~> (dmp[d].state = "free")
-----------------------------------------------------------------------------
(* What comments and documents say of Table Services, and the code does not do *)

\* "on normal (non-dump only) tables, the buffer pointer is always set as part of
\* registration and thus can never be NULL at this point" (CFE_TBL_TxnLoadFromSourceAddr).
NoFault == \A a \in Apps : at[a] # "fault"

\* CFE_TBL_Load answers that a load is in progress "when another Application was trying
\* to load the table": a table that nobody is loading has no working buffer.
OnlyOthersLoad ==
  \A s \in Slots : Used(s) /\ reg[s].next # NoBuf =>
    \E a \in Apps : at[a] \notin {"idle", "cleanup", "address"} /\ HSlot(a) = s

\* The load command is sent "to tell Table Services to load the table image file into
\* the Inactive Table Image Buffer": while a buffer is free it is not refused.
GroundLoads ==
  [][gnd.cmd = "load" /\ gnd'.cmd # "read"
       => reg[gnd.slot].name \in DumpOnly \/ FreeShared = {}]_vars

\* A dump is refused when the dumps that wait fill "the allocated number of control
\* blocks": a block is taken while its dump is being made, and no longer.
DumpBlocksServed == \A d \in DOMAIN dmp : dmp[d].state = "taken" => gnd.dump = d

\* A registration is refused when "the Table registry already contained
\* CFE_PLATFORM_TBL_MAX_NUM_TABLES in it": every record in use is a table.
UsedRecordsAreTables == \A s \in Slots : Used(s) => reg[s].name # None

\* "the table identified in the call has had its contents updated since the last time
\* the application obtained its address or status": one that keeps an address which
\* is no longer the active one will be told (CFE_TBL_INFO_UPDATED).
OldAddressTold ==
  \A h \in Hs : hnd[h].locked /\ hnd[h].addr # Place(reg[hnd[h].slot].active)
                 /\ at[hnd[h].app] # "address" /\ ~(\E a \in Apps : at[a] = "notify")
                   => hnd[h].updated
=============================================================================
