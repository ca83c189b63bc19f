--------------------------------- MODULE SB ---------------------------------
(***************************************************************************)
(* The cFE Software Bus: pipes, routes, reference-counted message buffers, *)
(* and the calls that tasks make on them concurrently.                     *)
(*                                                                         *)
(* Every section of the C code between CFE_SB_LockSharedData and           *)
(* CFE_SB_UnlockSharedData is one action; so is every OSAL queue call made *)
(* outside the lock.  What a call keeps in local variables between two     *)
(* sections is the state of its task.  Left out: telemetry error counters, *)
(* the peak depth of a pipe and event messages; a call that fails its      *)
(* argument checks (it changes nothing else); and the content of a         *)
(* message, its sequence count included.  The OSAL queue of a pipe is      *)
(* named by the ID of the pipe it was created for.                         *)
(***************************************************************************)
EXTENDS Integers, Sequences, FiniteSets

CONSTANTS
  Tasks,        \* all tasks, the background task of ES among them
  ES,           \* the task that runs CFE_SB_CleanUpApp
  Apps,         \* application IDs
  AppOf,        \* [Tasks -> Apps]
  Doomed,       \* the applications ES may delete
  Forced,       \* TRUE: ES may delete an application that has not exited
  Calls,        \* [Tasks -> sets of API calls]: what each task may call
  MsgIds,       \* message IDs
  Bufs,         \* blocks of the buffer pool
  MaxPipes,     \* CFE_PLATFORM_SB_MAX_PIPES
  MaxRoutes,    \* CFE_PLATFORM_SB_MAX_MSG_IDS
  MaxDests,     \* CFE_PLATFORM_SB_MAX_DEST_PER_PKT
  MaxDepth,     \* OS_QUEUE_MAX_DEPTH
  Depths,       \* the queue depths applications ask for
  MsgLims,      \* the message limits applications ask for
  Verify,       \* the verdicts of CFE_MSG_VerificationAction
  LastSerial,   \* bound: serials given to pipes, far below the wrap-around
  NoApp, NoBuf, NoMsg

ASSUME PipesAssumption == MaxPipes \in Nat \ {0}
ASSUME SerialAssumption == LastSerial \in Nat
ASSUME RouteAssumption == MaxRoutes \in Nat /\ MaxDests \in Nat \ {0}
ASSUME DepthAssumption == MaxDepth \in Nat /\ Depths \subseteq 1 .. MaxDepth /\ MsgLims \subseteq Nat
ASSUME TaskAssumption == ES \in Tasks /\ AppOf \in [Tasks -> Apps]
ASSUME DoomedAssumption == Doomed \subseteq Apps \ {AppOf[ES]}
ASSUME NullAssumption == NoApp \notin Apps /\ NoBuf \notin Bufs /\ NoMsg \notin MsgIds
ASSUME VerifyAssumption == Verify \subseteq BOOLEAN /\ Forced \in BOOLEAN
ASSUME FiniteAssumption == IsFiniteSet(Bufs) /\ IsFiniteSet(MsgIds) /\ IsFiniteSet(Tasks)

Slots    == 0 .. MaxPipes - 1      \* indices of CFE_SB_Global.PipeTbl
PipeIds  == 1 .. LastSerial        \* IDs a pipe can be given
FREE     == 0                      \* CFE_SB_INVALID_PIPE
RESERVED == -1                     \* CFE_RESOURCEID_RESERVED
UseMax   == 32767                  \* where CFE_SB_IncrBufUseCnt saturates

VARIABLES
  pipeId, pipeApp, ignoreMine, curDepth, lastBuf, \* PipeTbl, by slot
  lastPipe,                                     \* CFE_SB_Global.LastPipeId
  routes, dest,                                 \* CFE_SBR_RDATA, by message ID
  use, bufApp, bufMsg, list,                    \* CFE_SB_BufferD_t, by block
  qcap, queue,                                  \* the OSAL queues
  lost,      \* history, not in the code: what went with the queue of a pipe
  pc, opApp, pid, msg, own, got, todo, held,    \* the call each task is in
  pipesInUse, subsInUse, bufsInUse,             \* CFE_SB_Global.StatTlmMsg
  creator,                                      \* the task that created a pipe
  appState, victim, delList                     \* CFE_ES_CleanUpApp

pipeVars == <<pipeId, pipeApp, ignoreMine, curDepth, lastBuf, lastPipe>>
routeVars == <<routes, dest>>
bufVars  == <<use, bufApp, bufMsg, list, bufsInUse>>
queueVars == <<qcap, queue, lost>>
taskVars == <<pc, opApp, pid, msg, own, got, todo, held>>
esVars   == <<appState, victim, delList>>
vars == <<pipeVars, routeVars, bufVars, queueVars, taskVars, pipesInUse,
          subsInUse, creator, esVars>>

-----------------------------------------------------------------------------
(* Helpers.                                                                *)

SlotOf(p)  == p % MaxPipes                        \* CFE_SB_PipeId_ToIndex
Match(p)   == p \in PipeIds /\ pipeId[SlotOf(p)] = p

\* Mutant of FindNext: a slot that is reserved counts as free.
FindNextReserved ==
  LET free == {n \in lastPipe + 1 .. lastPipe + MaxPipes : pipeId[SlotOf(n)] \notin PipeIds}
  IN  IF free = {} THEN 0 ELSE CHOOSE n \in free : \A k \in free : n <= k

\* CFE_ResourceId_FindNext: the first of the MaxPipes serials after the last
\* one given whose slot is free, 0 when all slots are taken.
FindNext ==
  LET free == {n \in lastPipe + 1 .. lastPipe + MaxPipes : pipeId[SlotOf(n)] = FREE}
  IN  IF free = {} THEN 0 ELSE CHOOSE n \in free : \A k \in free : n <= k

Dest(p, lim) == [pipe |-> p, lim |-> lim, active |-> TRUE, cnt |-> 0]
Positions(m, p) == {i \in DOMAIN dest[m] : dest[m][i].pipe = p}
Subscribed(m, p) == Positions(m, p) # {}
DestPtr(m, p) == CHOOSE i \in Positions(m, p) : \A j \in Positions(m, p) : i <= j

\* Mutant of Without: the last node goes, whichever was meant.
WithoutLast(s, i) == SubSeq(s, 1, Len(s) - 1)

\* The list without the node at position i (CFE_SB_RemoveDestNode).
Without(s, i) ==
  [j \in 1 .. Len(s) - 1 |-> IF j < i THEN s[j] ELSE s[j + 1]]

\* Mutant of Fewer: the test for zero is gone.
FewerUnchecked(d) == [d EXCEPT !.cnt = @ - 1]

\* One fewer message of m outstanding on pipe p, never below zero.
Fewer(d) == IF d.cnt > 0 THEN [d EXCEPT !.cnt = @ - 1] ELSE d
More(d)  == [d EXCEPT !.cnt = @ + 1]

CountDown(m, p) ==
  IF Subscribed(m, p) THEN [dest EXCEPT ![m][DestPtr(m, p)] = Fewer(@)] ELSE dest

\* Mutant of DepthDown: the slot may have been given to another pipe.
DepthDownSlot(p) ==
  IF curDepth[SlotOf(p)] > 0 THEN [curDepth EXCEPT ![SlotOf(p)] = @ - 1] ELSE curDepth

DepthDown(p) ==
  IF Match(p) /\ curDepth[SlotOf(p)] > 0
  THEN [curDepth EXCEPT ![SlotOf(p)] = @ - 1]
  ELSE curDepth

\* Mutant of Drop: a buffer goes back to the pool with its first reference.
DropAtOnce(B) ==
  LET all == {b \in Bufs : b \in B /\ use[b] > 0}
  IN  /\ use' = [b \in Bufs |-> IF b \in all THEN 0 ELSE use[b]]
      /\ list' = [b \in Bufs |-> IF b \in all THEN "none" ELSE list[b]]
      /\ bufsInUse' = bufsInUse - Cardinality(all)

\* CFE_SB_DecrBufUseCnt on each buffer of B; a count that reaches zero gives
\* the block back to the pool and takes it off its tracking list.
Drop(B) ==
  LET last == {b \in Bufs : b \in B /\ use[b] = 1}
  IN  /\ use' = [b \in Bufs |-> IF b \in B /\ use[b] > 0 THEN use[b] - 1 ELSE use[b]]
      /\ list' = [b \in Bufs |-> IF b \in last THEN "none" ELSE list[b]]
      /\ bufsInUse' = bufsInUse - Cardinality(last)

\* Mutant of Raised: one reference for all destinations.
RaisedOnce(b, n) == IF n = 0 THEN use[b] ELSE use[b] + 1

\* n calls of CFE_SB_IncrBufUseCnt.
Raised(b, n) == IF use[b] + n <= UseMax THEN use[b] + n ELSE UseMax

AppIdOf(t) == IF appState[AppOf[t]] \in {"running", "exiting"} THEN AppOf[t] ELSE NoApp

Begins(t, call) == t # ES /\ pc[t] = "idle" /\ call \in Calls[t]
GoTo(t, l) == pc' = [pc EXCEPT ![t] = l]

Init ==
  /\ pipeId = [s \in Slots |-> FREE] /\ pipeApp = [s \in Slots |-> NoApp]
  /\ ignoreMine = [s \in Slots |-> FALSE]
  /\ curDepth = [s \in Slots |-> 0]
  /\ lastBuf = [s \in Slots |-> NoBuf] /\ lastPipe = 0
  /\ routes = {} /\ dest = [m \in MsgIds |-> <<>>]
  /\ use = [b \in Bufs |-> 0] /\ bufApp = [b \in Bufs |-> NoApp]
  /\ bufMsg = [b \in Bufs |-> NoMsg]
  /\ list = [b \in Bufs |-> "none"] /\ bufsInUse = 0
  /\ qcap = [p \in PipeIds |-> 0] /\ queue = [p \in PipeIds |-> <<>>]
  /\ lost = [p \in PipeIds |-> <<>>]
  /\ pc = [t \in Tasks |-> "idle"] /\ opApp = [t \in Tasks |-> NoApp]
  /\ pid = [t \in Tasks |-> FREE] /\ msg = [t \in Tasks |-> NoMsg]
  /\ own = [t \in Tasks |-> NoBuf] /\ got = [t \in Tasks |-> NoBuf]
  /\ todo = [t \in Tasks |-> {}] /\ held = [t \in Tasks |-> NoBuf]
  /\ pipesInUse = 0 /\ subsInUse = 0
  /\ creator = [p \in PipeIds |-> ES]
  /\ appState = [a \in Apps |-> "running"] /\ victim = NoApp /\ delList = {}

-----------------------------------------------------------------------------
(* CFE_SB_CreatePipe                                                       *)

\* The caller's AppId is read, then a slot is taken and marked reserved.  A
\* full table (FindNext = 0) is an error return that changes nothing.
CreateReserve(t) ==
  LET n == FindNext  s == SlotOf(n)
  IN  /\ Begins(t, "create")
      /\ n \in PipeIds                          \* bound: LastSerial
      /\ pipeId' = [pipeId EXCEPT ![s] = RESERVED]
      /\ pipeApp' = [pipeApp EXCEPT ![s] = NoApp]
      /\ ignoreMine' = [ignoreMine EXCEPT ![s] = FALSE]
      /\ curDepth' = [curDepth EXCEPT ![s] = 0]
      /\ lastBuf' = [lastBuf EXCEPT ![s] = NoBuf]
      /\ lastPipe' = n
      /\ opApp' = [opApp EXCEPT ![t] = AppIdOf(t)]
      /\ pid' = [pid EXCEPT ![t] = n]
      /\ GoTo(t, "create")
      /\ UNCHANGED <<routeVars, bufVars, queueVars, msg, own, got, todo, held,
                     pipesInUse, subsInUse, creator, esVars>>

\* OS_QueueCreate, outside the lock: it succeeds, or fails (a name already
\* taken, no free OSAL ID).
CreateQueue(t) ==
  /\ pc[t] = "create"
  /\ \/ /\ \E d \in Depths : qcap' = [qcap EXCEPT ![pid[t]] = d]
        /\ GoTo(t, "created")
     \/ GoTo(t, "create_failed") /\ UNCHANGED qcap
  /\ UNCHANGED <<pipeVars, routeVars, bufVars, queue, lost, opApp, pid, msg, own, got,
                 todo, held, pipesInUse, subsInUse, creator, esVars>>

CreateFinish(t) ==
  /\ pc[t] = "created"
  /\ pipeId' = [pipeId EXCEPT ![SlotOf(pid[t])] = pid[t]]
  /\ pipeApp' = [pipeApp EXCEPT ![SlotOf(pid[t])] = opApp[t]]
  /\ pipesInUse' = pipesInUse + 1
  /\ creator' = [creator EXCEPT ![pid[t]] = t]
  /\ pid' = [pid EXCEPT ![t] = FREE]
  /\ opApp' = [opApp EXCEPT ![t] = NoApp]
  /\ GoTo(t, "idle")
  /\ UNCHANGED <<ignoreMine, curDepth, lastBuf, lastPipe, routeVars,
                 bufVars, queueVars, msg, own, got, todo, held, subsInUse, esVars>>

CreateAbort(t) ==
  /\ pc[t] = "create_failed"
  /\ pipeId' = [pipeId EXCEPT ![SlotOf(pid[t])] = FREE]
  /\ pid' = [pid EXCEPT ![t] = FREE]
  /\ opApp' = [opApp EXCEPT ![t] = NoApp]
  /\ GoTo(t, "idle")
  /\ UNCHANGED <<pipeApp, ignoreMine, curDepth, lastBuf, lastPipe,
                 routeVars, bufVars, queueVars, msg, own, got, todo, held,
                 pipesInUse, subsInUse, creator, esVars>>

-----------------------------------------------------------------------------
(* CFE_SB_DeletePipeFull, called by the owner or by CFE_SB_CleanUpApp      *)

\* Under the lock: the pipe leaves every route, its descriptor is reserved,
\* and its last buffer is kept aside to be released.
TearDown(t, p) ==
  LET gone == {m \in MsgIds : Subscribed(m, p)}
  IN  /\ dest' = [m \in MsgIds |-> IF m \in gone
                                   THEN Without(dest[m], DestPtr(m, p))
                                   ELSE dest[m]]
      /\ subsInUse' = subsInUse - Cardinality(gone)
      /\ got' = [got EXCEPT ![t] = lastBuf[SlotOf(p)]]
      /\ pipeId' = [pipeId EXCEPT ![SlotOf(p)] = RESERVED]
      /\ pid' = [pid EXCEPT ![t] = p]
      /\ held' = [u \in Tasks |-> IF creator[p] = u THEN NoBuf ELSE held[u]]
      /\ GoTo(t, "drain")
      /\ UNCHANGED <<pipeApp, ignoreMine, curDepth, lastBuf, lastPipe,
                     routes, bufVars, queueVars, opApp, msg, own, todo,
                     pipesInUse, creator>>

DeleteBegin(t, p) ==
  /\ Begins(t, "delete")
  /\ Match(p) /\ pipeApp[SlotOf(p)] = AppIdOf(t)
  /\ TearDown(t, p)
  /\ UNCHANGED esVars

DrainRelease(t) ==
  /\ pc[t] = "drain" /\ got[t] # NoBuf
  /\ Drop({got[t]})
  /\ got' = [got EXCEPT ![t] = NoBuf]
  /\ UNCHANGED <<pipeVars, routeVars, bufApp, bufMsg, queueVars, pc, opApp,
                 pid, msg, own, todo, held, pipesInUse, subsInUse, creator, esVars>>

\* Mutant of DrainGet: OS_PEND in the place of OS_CHECK.
DrainGetPends(t) ==
  /\ pc[t] = "drain" /\ got[t] = NoBuf
  /\ queue[pid[t]] # <<>>
  /\ got' = [got EXCEPT ![t] = Head(queue[pid[t]])]
  /\ queue' = [queue EXCEPT ![pid[t]] = Tail(@)]
  /\ UNCHANGED <<pipeVars, routeVars, bufVars, qcap, lost, pc, opApp, pid, msg, own,
                 todo, held, pipesInUse, subsInUse, creator, esVars>>

\* Mutant of DrainGet: the loop ends without a look at the queue.
DrainGetNone(t) ==
  /\ pc[t] = "drain" /\ got[t] = NoBuf
  /\ GoTo(t, "queue_delete")
  /\ UNCHANGED <<pipeVars, routeVars, bufVars, queueVars, opApp, pid, msg, own, got,
                 todo, held, pipesInUse, subsInUse, creator, esVars>>

\* OS_QueueGet with OS_CHECK; when there is nothing more the loop ends.
DrainGet(t) ==
  /\ pc[t] = "drain" /\ got[t] = NoBuf
  /\ \/ /\ queue[pid[t]] # <<>>
        /\ got' = [got EXCEPT ![t] = Head(queue[pid[t]])]
        /\ queue' = [queue EXCEPT ![pid[t]] = Tail(@)]
        /\ UNCHANGED pc
     \/ /\ queue[pid[t]] = <<>>
        /\ GoTo(t, "queue_delete")
        /\ UNCHANGED <<got, queue>>
  /\ UNCHANGED <<pipeVars, routeVars, bufVars, qcap, lost, opApp, pid, msg, own,
                 todo, held, pipesInUse, subsInUse, creator, esVars>>

\* OS_QueueDelete.  A message that was written after DrainGet had found the
\* queue empty is thrown away, and its reference is never given back.
QueueDelete(t) ==
  /\ pc[t] = "queue_delete"
  /\ qcap' = [qcap EXCEPT ![pid[t]] = 0]
  /\ lost' = [lost EXCEPT ![pid[t]] = queue[pid[t]]]
  /\ queue' = [queue EXCEPT ![pid[t]] = <<>>]
  /\ GoTo(t, "delete_finish")
  /\ UNCHANGED <<pipeVars, routeVars, bufVars, opApp, pid, msg, own, got,
                 todo, held, pipesInUse, subsInUse, creator, esVars>>

DeleteFinish(t) ==
  /\ pc[t] = "delete_finish"
  /\ pipeId' = [pipeId EXCEPT ![SlotOf(pid[t])] = FREE]
  /\ pipesInUse' = pipesInUse - 1
  /\ pid' = [pid EXCEPT ![t] = FREE]
  /\ GoTo(t, IF t = ES THEN "clean_pipes" ELSE "idle")
  /\ UNCHANGED <<pipeApp, ignoreMine, curDepth, lastBuf, lastPipe,
                 routeVars, bufVars, queueVars, opApp, msg, own, got, todo, held,
                 subsInUse, creator, esVars>>

-----------------------------------------------------------------------------
(* Subscriptions and pipe options: one locked section each                 *)

\* CFE_SB_SubscribeFull.  The route is added, and stays, even when no
\* destination is: a duplicate, a full list, or no block left in the pool.
Subscribe(t, m, p, lim) ==
  /\ Begins(t, "subscribe")
  /\ Match(p) /\ pipeApp[SlotOf(p)] = AppIdOf(t)
  /\ m \in routes \/ Cardinality(routes) < MaxRoutes
  /\ routes' = routes \cup {m}
  /\ \/ /\ ~Subscribed(m, p) /\ Len(dest[m]) < MaxDests
        /\ dest' = [dest EXCEPT ![m] = <<Dest(p, lim)>> \o @]
        /\ subsInUse' = subsInUse + 1
     \/ UNCHANGED <<dest, subsInUse>>
  /\ UNCHANGED <<pipeVars, bufVars, queueVars, taskVars, pipesInUse,
                 creator, esVars>>

\* CFE_SB_UnsubscribeFull
Unsubscribe(t, m, p) ==
  /\ Begins(t, "unsubscribe")
  /\ Match(p) /\ pipeApp[SlotOf(p)] = AppIdOf(t)
  /\ Subscribed(m, p)
  /\ dest' = [dest EXCEPT ![m] = Without(@, DestPtr(m, p))]
  /\ subsInUse' = subsInUse - 1
  /\ UNCHANGED <<pipeVars, routes, bufVars, queueVars, taskVars,
                 pipesInUse, creator, esVars>>

\* CFE_SB_SetPipeOpts: the only option is CFE_SB_PIPEOPTS_IGNOREMINE.
SetPipeOpts(t, p, on) ==
  /\ Begins(t, "setopts")
  /\ Match(p) /\ pipeApp[SlotOf(p)] = AppIdOf(t)
  /\ ignoreMine' = [ignoreMine EXCEPT ![SlotOf(p)] = on]
  /\ UNCHANGED <<pipeId, pipeApp, curDepth, lastBuf, lastPipe,
                 routeVars, bufVars, queueVars, taskVars, pipesInUse, subsInUse,
                 creator, esVars>>

\* The SB task's commands CFE_SB_EnableRouteCmd and CFE_SB_DisableRouteCmd.
RouteCmd(m, p, on) ==
  /\ "route_cmd" \in Calls[ES]                    \* made by a ground operator
  /\ Match(p) /\ Subscribed(m, p)
  /\ dest' = [dest EXCEPT ![m][DestPtr(m, p)] = [@ EXCEPT !.active = on]]
  /\ UNCHANGED <<pipeVars, routes, bufVars, queueVars, taskVars,
                 pipesInUse, subsInUse, creator, esVars>>

-----------------------------------------------------------------------------
(* Zero-copy buffers and CFE_SB_TransmitMsg / CFE_SB_TransmitBuffer        *)

\* CFE_SB_AllocateMessageBuffer reads the caller's AppId and, if there is one,
\* takes a block of the pool in a second, locked, step.  CFE_SB_TransmitMsg
\* allocates in the same way and goes on to transmit the copy.
AllocateBegin(t) ==
  /\ own[t] = NoBuf /\ AppIdOf(t) # NoApp
  /\ opApp' = [opApp EXCEPT ![t] = AppIdOf(t)]
  /\ \/ /\ Begins(t, "allocate")
        /\ GoTo(t, "allocate")
        /\ UNCHANGED msg
     \/ /\ Begins(t, "transmit")
        /\ \E m \in MsgIds : msg' = [msg EXCEPT ![t] = m]
        /\ GoTo(t, "tx_allocate")
  /\ UNCHANGED <<pipeVars, routeVars, bufVars, queueVars, pid, own, got, todo,
                 held, pipesInUse, subsInUse, creator, esVars>>

Allocate(t) ==
  /\ pc[t] \in {"allocate", "tx_allocate"}
  /\ \/ \E b \in {c \in Bufs : use[c] = 0} :
          /\ use' = [use EXCEPT ![b] = 1]
          /\ bufApp' = [bufApp EXCEPT ![b] = opApp[t]]
          /\ bufMsg' = [bufMsg EXCEPT ![b] = NoMsg]
          /\ list' = [list EXCEPT ![b] = "zerocopy"]
          /\ bufsInUse' = bufsInUse + 1
          /\ own' = [own EXCEPT ![t] = b]
          /\ GoTo(t, IF pc[t] = "allocate" THEN "idle" ELSE "tx_find")
          /\ UNCHANGED msg
     \/ /\ \A c \in Bufs : use[c] # 0            \* CFE_SB_GET_BUF_ERR_EID
        /\ GoTo(t, "idle")
        /\ msg' = [msg EXCEPT ![t] = NoMsg]
        /\ UNCHANGED <<bufVars, own>>
  /\ opApp' = [opApp EXCEPT ![t] = NoApp]
  /\ UNCHANGED <<pipeVars, routeVars, queueVars, pid, got, todo, held, pipesInUse,
                 subsInUse, creator, esVars>>

\* CFE_SB_ReleaseMessageBuffer; a buffer that is no longer a zero-copy one is
\* refused.
ReleaseBuffer(t) ==
  /\ Begins(t, "release") /\ own[t] # NoBuf
  /\ own' = [own EXCEPT ![t] = NoBuf]
  /\ IF bufApp[own[t]] # NoApp
     THEN /\ bufApp' = [bufApp EXCEPT ![own[t]] = NoApp]
          /\ Drop({own[t]})
     ELSE UNCHANGED <<bufApp, use, list, bufsInUse>>
  /\ UNCHANGED <<pipeVars, routeVars, bufMsg, queueVars, pc, opApp, pid, msg,
                 got, todo, held, pipesInUse, subsInUse, creator, esVars>>

TransmitBuffer(t, m) ==
  /\ Begins(t, "transmit_buffer") /\ own[t] # NoBuf
  /\ bufApp[own[t]] # NoApp                      \* CFE_SB_ZeroCopyBufferValidate
  /\ msg' = [msg EXCEPT ![t] = m]
  /\ GoTo(t, "tx_find")
  /\ UNCHANGED <<pipeVars, routeVars, bufVars, queueVars, opApp, pid, own, got, todo,
                 held, pipesInUse, subsInUse, creator, esVars>>

\* The destinations of m that a message from application a goes to, newest
\* first; a list never holds more than MaxDests, so the PipeSet has room.
Targets(m, a) ==
  {i \in DOMAIN dest[m] :
     LET p == dest[m][i].pipe
     IN  /\ dest[m][i].active
         /\ Match(p)
         /\ ~(ignoreMine[SlotOf(p)] /\ pipeApp[SlotOf(p)] = a)}

\* CFE_SB_TransmitTxn_FindDestinations.  Depth and limit are counted now, as
\* if every write were going to succeed.
FindDestinations(t) ==
  LET m == msg[t]
      b == own[t]
      write == {i \in Targets(m, AppIdOf(t)) : dest[m][i].cnt < dest[m][i].lim}
      slots == {SlotOf(dest[m][i].pipe) : i \in write}
  IN  /\ pc[t] = "tx_find"
      /\ bufMsg' = [bufMsg EXCEPT ![b] = m]
      /\ todo' = [todo EXCEPT ![t] = {<<i, dest[m][i].pipe>> : i \in write}]
      /\ dest' = [dest EXCEPT ![m] =
                    [i \in DOMAIN @ |-> IF i \in write THEN More(@[i]) ELSE @[i]]]
      /\ curDepth' = [s \in Slots |-> IF s \in slots THEN curDepth[s] + 1 ELSE curDepth[s]]
      /\ use' = [use EXCEPT ![b] = Raised(b, Cardinality(write))]
      /\ bufApp' = [bufApp EXCEPT ![b] = NoApp]
      /\ list' = [list EXCEPT ![b] = "transit"]
      /\ GoTo(t, "tx_put")
      /\ UNCHANGED <<pipeId, pipeApp, ignoreMine, lastBuf, lastPipe, routes,
                     bufsInUse, queueVars, opApp, pid, msg, own, got, held,
                     pipesInUse, subsInUse, creator, esVars>>

\* The write that comes next: destinations are served in list order.
NextWrite(t) == CHOOSE w \in todo[t] : \A v \in todo[t] : w[1] <= v[1]

\* CFE_SB_TransmitTxn_PipeHandler: OS_QueuePut, outside the lock.  It fails
\* when the queue is full, or deleted since.
QueuePut(t) ==
  /\ pc[t] = "tx_put" /\ todo[t] # {}
  /\ LET w == NextWrite(t)  p == w[2]
     IN  /\ todo' = [todo EXCEPT ![t] = @ \ {w}]
         /\ IF Len(queue[p]) < qcap[p]
            THEN /\ queue' = [queue EXCEPT ![p] = Append(@, own[t])]
                 /\ UNCHANGED <<pc, pid>>
            ELSE /\ GoTo(t, "tx_undo")
                 /\ pid' = [pid EXCEPT ![t] = p]
                 /\ UNCHANGED queue
  /\ UNCHANGED <<pipeVars, routeVars, bufVars, qcap, lost, opApp, msg, own, got, held,
                 pipesInUse, subsInUse, creator, esVars>>

\* The same, under the lock, after a failed write: what FindDestinations
\* counted for this pipe is taken back.
UndoPut(t) ==
  /\ pc[t] = "tx_undo"
  /\ curDepth' = DepthDown(pid[t])
  /\ dest' = CountDown(msg[t], pid[t])
  /\ Drop({own[t]})
  /\ pid' = [pid EXCEPT ![t] = FREE]
  /\ GoTo(t, "tx_put")
  /\ UNCHANGED <<pipeId, pipeApp, ignoreMine, lastBuf, lastPipe, routes,
                 bufApp, bufMsg, queueVars, opApp, msg, own, got,
                 todo, held, pipesInUse, subsInUse, creator, esVars>>

\* The end of CFE_SB_TransmitTxn_Execute: the sender's own reference goes.
TransmitDone(t) ==
  /\ pc[t] = "tx_put" /\ todo[t] = {}
  /\ Drop({own[t]})
  /\ own' = [own EXCEPT ![t] = NoBuf]
  /\ msg' = [msg EXCEPT ![t] = NoMsg]
  /\ GoTo(t, "idle")
  /\ UNCHANGED <<pipeVars, routeVars, bufApp, bufMsg, queueVars, opApp, pid,
                 got, todo, held, pipesInUse, subsInUse, creator, esVars>>

-----------------------------------------------------------------------------
(* CFE_SB_ReceiveBuffer.  A pipe is read by the task that created it: the  *)
(* code says a pipe cannot be shared among readers.                        *)

\* CFE_SB_ReceiveTxn_SetPipeId: the buffer of the last call is released.
SetPipeId(t, p) ==
  /\ IF lastBuf[SlotOf(p)] # NoBuf
     THEN /\ Drop({lastBuf[SlotOf(p)]})
          /\ lastBuf' = [lastBuf EXCEPT ![SlotOf(p)] = NoBuf]
     ELSE UNCHANGED <<use, list, bufsInUse, lastBuf>>
  /\ held' = [held EXCEPT ![t] = NoBuf]
  /\ pid' = [pid EXCEPT ![t] = p]
  /\ GoTo(t, "rx_get")
  /\ UNCHANGED <<pipeId, pipeApp, ignoreMine, curDepth, lastPipe,
                 routeVars, bufApp, bufMsg, queueVars, opApp, msg, own, got,
                 todo, pipesInUse, subsInUse, creator, esVars>>

ReceiveBegin(t, p) ==
  /\ Begins(t, "receive")
  /\ Match(p) /\ creator[p] = t
  /\ SetPipeId(t, p)

\* OS_QueueGet takes the oldest message.
QueueGet(t) ==
  /\ pc[t] = "rx_get"
  /\ qcap[pid[t]] > 0 /\ queue[pid[t]] # <<>>
  /\ got' = [got EXCEPT ![t] = Head(queue[pid[t]])]
  /\ queue' = [queue EXCEPT ![pid[t]] = Tail(@)]
  /\ GoTo(t, "rx_export")
  /\ UNCHANGED <<pipeVars, routeVars, bufVars, qcap, lost, opApp, pid, msg, own,
                 todo, held, pipesInUse, subsInUse, creator, esVars>>

\* Nothing to read: CFE_SB_NO_MESSAGE or CFE_SB_TIME_OUT on an empty queue,
\* CFE_SB_PIPE_RD_ERR on a deleted one.  A task that pends does not return.
ReceiveNothing(t) ==
  /\ pc[t] = "rx_get"
  /\ qcap[pid[t]] = 0 \/ queue[pid[t]] = <<>>
  /\ pid' = [pid EXCEPT ![t] = FREE]
  /\ GoTo(t, "idle")
  /\ UNCHANGED <<pipeVars, routeVars, bufVars, queueVars, opApp, msg, own, got, todo,
                 held, pipesInUse, subsInUse, creator, esVars>>

\* CFE_SB_ReceiveTxn_ExportReference: the pipe may be gone since the read; if
\* not, the reference of the queue becomes the pipe's LastBuffer reference.
ExportReference(t) ==
  LET p == pid[t]  s == SlotOf(p)  b == got[t]
  IN  /\ pc[t] = "rx_export"
      /\ IF Match(p)
         THEN /\ lastBuf' = [lastBuf EXCEPT ![s] = b]
              /\ dest' = CountDown(bufMsg[b], p)
              /\ curDepth' = DepthDown(p)
              /\ held' = [held EXCEPT ![t] = b]
              /\ GoTo(t, "rx_verify")
              /\ UNCHANGED <<use, list, bufsInUse, pid>>   \* one up, one down
         ELSE /\ Drop({b})
              /\ pid' = [pid EXCEPT ![t] = FREE]
              /\ GoTo(t, "idle")
              /\ UNCHANGED <<lastBuf, dest, curDepth, held>>
      /\ got' = [got EXCEPT ![t] = NoBuf]
      /\ UNCHANGED <<pipeId, pipeApp, ignoreMine, lastPipe, routes,
                     bufApp, bufMsg, queueVars, opApp, msg, own, todo,
                     pipesInUse, subsInUse, creator, esVars>>

ReceiveAccept(t) ==
  /\ pc[t] = "rx_verify" /\ TRUE \in Verify
  /\ pid' = [pid EXCEPT ![t] = FREE]
  /\ GoTo(t, "idle")
  /\ UNCHANGED <<pipeVars, routeVars, bufVars, queueVars, opApp, msg, own, got, todo,
                 held, pipesInUse, subsInUse, creator, esVars>>

\* A message that fails verification is dropped and the next one read, unless
\* the pipe has been deleted meanwhile.
ReceiveReject(t) ==
  /\ pc[t] = "rx_verify" /\ FALSE \in Verify
  /\ IF Match(pid[t])
     THEN SetPipeId(t, pid[t])
     ELSE /\ pid' = [pid EXCEPT ![t] = FREE]
          /\ held' = [held EXCEPT ![t] = NoBuf]
          /\ GoTo(t, "idle")
          /\ UNCHANGED <<pipeVars, routeVars, bufVars, queueVars, opApp, msg, own,
                         got, todo, pipesInUse, subsInUse, creator, esVars>>

-----------------------------------------------------------------------------
(* CFE_ES_CleanUpApp, as far as the bus sees it                            *)

\* An application's task calls CFE_ES_ExitApp and waits there to be deleted.
\* Other tasks of the application may go on.
Exit(t) ==
  /\ Begins(t, "exit") /\ appState[AppOf[t]] \in {"running", "exiting"}
  /\ AppOf[t] \in Doomed
  /\ appState' = [appState EXCEPT ![AppOf[t]] = "exiting"]
  /\ own' = [own EXCEPT ![t] = NoBuf]
  /\ held' = [held EXCEPT ![t] = NoBuf]
  /\ GoTo(t, "exited")
  /\ UNCHANGED <<pipeVars, routeVars, bufVars, queueVars, opApp, pid, msg, got, todo,
                 pipesInUse, subsInUse, creator, victim, delList>>

\* ES reserves the application and task records, so that CFE_ES_GetAppID no
\* longer finds the application.
CleanUpBegin(a) ==
  /\ pc[ES] = "idle" /\ a \in Doomed /\ appState[a] \in {"running", "exiting"}
  /\ Forced \/ \A t \in Tasks : AppOf[t] = a => pc[t] = "exited"
  /\ appState' = [appState EXCEPT ![a] = "cleaning"]
  /\ victim' = a
  /\ GoTo(ES, "clean_list")
  /\ UNCHANGED <<pipeVars, routeVars, bufVars, queueVars, opApp, pid, msg, own, got,
                 todo, held, pipesInUse, subsInUse, creator, delList>>

\* CFE_SB_CleanUpApp, first section: the pipes the application owns.  A slot
\* that is reserved counts as used, so the list may hold RESERVED.
CleanUpList ==
  /\ pc[ES] = "clean_list"
  /\ delList' = {pipeId[s] : s \in {r \in Slots : pipeId[r] # FREE /\ pipeApp[r] = victim}}
  /\ GoTo(ES, "clean_pipes")
  /\ UNCHANGED <<pipeVars, routeVars, bufVars, queueVars, opApp, pid, msg, own, got,
                 todo, held, pipesInUse, subsInUse, creator, appState, victim>>

\* Mutant of CleanUpPipe: the list is dropped after its first pipe.
CleanUpPipeOnce(p) ==
  /\ pc[ES] = "clean_pipes" /\ p \in delList
  /\ delList' = {}
  /\ IF Match(p) /\ pipeApp[SlotOf(p)] = victim
     THEN TearDown(ES, p)
     ELSE UNCHANGED <<pipeVars, routeVars, bufVars, queueVars, taskVars,
                      pipesInUse, subsInUse, creator>>
  /\ UNCHANGED <<appState, victim>>

\* CFE_SB_DeletePipeWithAppId for each of them; a pipe that is gone, or that
\* belongs to someone else by now, is an error return.
CleanUpPipe(p) ==
  /\ pc[ES] = "clean_pipes" /\ p \in delList
  /\ delList' = delList \ {p}
  /\ IF Match(p) /\ pipeApp[SlotOf(p)] = victim
     THEN TearDown(ES, p)
     ELSE UNCHANGED <<pipeVars, routeVars, bufVars, queueVars, taskVars,
                      pipesInUse, subsInUse, creator>>
  /\ UNCHANGED <<appState, victim>>

\* CFE_SB_ZeroCopyReleaseAppId
CleanUpZeroCopy ==
  /\ pc[ES] = "clean_pipes" /\ delList = {}
  /\ Drop({b \in Bufs : list[b] = "zerocopy" /\ bufApp[b] = victim})
  /\ GoTo(ES, "clean_tasks")
  /\ UNCHANGED <<pipeVars, routeVars, bufApp, bufMsg, queueVars, opApp, pid,
                 msg, own, got, todo, held, pipesInUse, subsInUse, creator, esVars>>

\* Only now does ES delete the tasks of the application, wherever they are.
CleanUpTasks ==
  LET dead == {t \in Tasks : AppOf[t] = victim}
      Cleared(f, v) == [t \in Tasks |-> IF t \in dead THEN v ELSE f[t]]
  IN  /\ pc[ES] = "clean_tasks"
      /\ pc' = [Cleared(pc, "dead") EXCEPT ![ES] = "idle"]
      /\ own' = Cleared(own, NoBuf) /\ got' = Cleared(got, NoBuf)
      /\ held' = Cleared(held, NoBuf) /\ todo' = Cleared(todo, {})
      /\ pid' = Cleared(pid, FREE) /\ msg' = Cleared(msg, NoMsg)
      /\ opApp' = Cleared(opApp, NoApp)
      /\ appState' = [appState EXCEPT ![victim] = "gone"]
      /\ victim' = NoApp
      /\ UNCHANGED <<pipeVars, routeVars, bufVars, queueVars, pipesInUse, subsInUse,
                     creator, delList>>

-----------------------------------------------------------------------------
(* The specification.                                                      *)

\* The steps of a call that has begun; every one but the last three of a
\* receive is taken without waiting for anybody.
Proceed(t) ==
  \/ CreateQueue(t) \/ CreateFinish(t) \/ CreateAbort(t)
  \/ DrainRelease(t) \/ DrainGet(t) \/ QueueDelete(t) \/ DeleteFinish(t)
  \/ Allocate(t) \/ FindDestinations(t) \/ QueuePut(t) \/ UndoPut(t) \/ TransmitDone(t)
  \/ QueueGet(t) \/ ExportReference(t) \/ ReceiveAccept(t) \/ ReceiveReject(t)

CallBegins(t) ==
  \/ CreateReserve(t) \/ AllocateBegin(t) \/ ReleaseBuffer(t) \/ Exit(t)
  \/ \E p \in PipeIds :
       \/ DeleteBegin(t, p) \/ ReceiveBegin(t, p)
       \/ \E on \in BOOLEAN : SetPipeOpts(t, p, on)
       \/ \E m \in MsgIds : \/ Unsubscribe(t, m, p)
                            \/ \E lim \in MsgLims : Subscribe(t, m, p, lim)
  \/ \E m \in MsgIds : TransmitBuffer(t, m)

CleanUp ==
  \/ \E a \in Apps : CleanUpBegin(a)
  \/ CleanUpList \/ (\E p \in delList : CleanUpPipe(p)) \/ CleanUpZeroCopy \/ CleanUpTasks

Next ==
  \/ \E t \in Tasks : CallBegins(t) \/ Proceed(t) \/ ReceiveNothing(t)
  \/ CleanUp
  \/ \E m \in MsgIds, p \in PipeIds, on \in BOOLEAN : RouteCmd(m, p, on)

Spec == Init /\ [][Next]_vars

\* The scheduler runs every task that can run; calls are made at will.
Fairness == (\A t \in Tasks : WF_vars(Proceed(t))) /\ WF_vars(CleanUp)
FairSpec == Spec /\ Fairness

-----------------------------------------------------------------------------
(* Properties.                                                             *)

Names == {"create", "delete", "subscribe", "unsubscribe", "setopts", "route_cmd",
          "allocate", "release", "transmit", "transmit_buffer", "receive", "exit"}
ASSUME CallsAssumption == Calls \in [Tasks -> SUBSET Names]

Deleting  == {"drain", "queue_delete", "delete_finish"}
Creating  == {"create", "created", "create_failed"}
Sending   == {"tx_find", "tx_put", "tx_undo"}
Receiving == {"rx_get", "rx_export", "rx_verify"}
Cleaning  == {"clean_list", "clean_pipes", "clean_tasks"}
PCs == Deleting \cup Creating \cup Sending \cup Receiving \cup Cleaning
       \cup {"idle", "allocate", "tx_allocate", "exited", "dead"}
DestType == [pipe : PipeIds, lim : Nat, active : BOOLEAN, cnt : Nat]

\* Every variable has its type.
PipesOK ==
  /\ pipeId \in [Slots -> PipeIds \cup {FREE, RESERVED}]
  /\ pipeApp \in [Slots -> Apps \cup {NoApp}]
  /\ ignoreMine \in [Slots -> BOOLEAN]
  /\ curDepth \in [Slots -> Nat]
  /\ lastBuf \in [Slots -> Bufs \cup {NoBuf}]
  /\ lastPipe \in 0 .. LastSerial
RoutesOK ==
  /\ routes \subseteq MsgIds
  /\ dest \in [MsgIds -> Seq(DestType)]
BufsOK ==
  /\ use \in [Bufs -> 0 .. UseMax]
  /\ bufApp \in [Bufs -> Apps \cup {NoApp}]
  /\ bufMsg \in [Bufs -> MsgIds \cup {NoMsg}]
  /\ list \in [Bufs -> {"none", "zerocopy", "transit"}]
  /\ bufsInUse \in Int
QueuesOK ==
  /\ qcap \in [PipeIds -> Nat]
  /\ queue \in [PipeIds -> Seq(Bufs)]
  /\ lost \in [PipeIds -> Seq(Bufs)]
TasksOK ==
  /\ pc \in [Tasks -> PCs]
  /\ opApp \in [Tasks -> Apps \cup {NoApp}]
  /\ pid \in [Tasks -> PipeIds \cup {FREE}]
  /\ msg \in [Tasks -> MsgIds \cup {NoMsg}]
  /\ own \in [Tasks -> Bufs \cup {NoBuf}]
  /\ got \in [Tasks -> Bufs \cup {NoBuf}]
  /\ todo \in [Tasks -> SUBSET (Nat \X PipeIds)]
  /\ held \in [Tasks -> Bufs \cup {NoBuf}]
StatsOK ==
  /\ pipesInUse \in Int
  /\ subsInUse \in Int
  /\ creator \in [PipeIds -> Tasks]
CleanUpOK ==
  /\ appState \in [Apps -> {"running", "exiting", "cleaning", "gone"}]
  /\ victim \in Apps \cup {NoApp}
  /\ delList \subseteq PipeIds \cup {RESERVED}
TypeOK == PipesOK /\ RoutesOK /\ BufsOK /\ QueuesOK /\ TasksOK /\ StatsOK /\ CleanUpOK

\* A write of task t to pipe p is still to be made.
Pending(t, p) == \E w \in todo[t] : w[2] = p

\* The places that hold a reference to b: an application that owns it as a
\* zero-copy buffer, its sender, the writes a sender has still to make or to
\* take back, a task between reading b and storing it, the queues, and the
\* pipes it was last read from.
SentBy(b)    == {t \in Tasks : own[t] = b /\ pc[t] \in {"tx_put", "tx_undo"}}
WritesOf(b)  == {x \in Tasks \X PipeIds : own[x[1]] = b /\ Pending(x[1], x[2])}
FailedOf(b)  == {t \in Tasks : own[t] = b /\ pc[t] = "tx_undo"}
ReadBy(b)    == {t \in Tasks : got[t] = b}
PlacesOf(b)  == {x \in PipeIds \X (1 .. MaxDepth) :
                   x[2] <= Len(queue[x[1]]) /\ queue[x[1]][x[2]] = b}
LastReads(b) == {s \in Slots : pipeId[s] \in PipeIds /\ lastBuf[s] = b}
References(b) ==
  (IF list[b] = "zerocopy" THEN 1 ELSE 0) + Cardinality(SentBy(b)) + Cardinality(WritesOf(b))
  + Cardinality(FailedOf(b)) + Cardinality(ReadBy(b)) + Cardinality(PlacesOf(b))
  + Cardinality(LastReads(b))

\* The references to b that nobody holds any more and nobody gave back.
LostOf(b) == {x \in PipeIds \X (1 .. MaxDepth) :
                x[2] <= Len(lost[x[1]]) /\ lost[x[1]][x[2]] = b}

\* CFE_SB_BufferD_t.UseCount, as cfe_sb_priv.h:156 defines it: "Number of active
\* references to this buffer in the system".  The code does not keep to it: a
\* message written between the last OS_QueueGet of CFE_SB_DeletePipeFull and its
\* OS_QueueDelete leaves the count of its buffer raised for ever.
UseCountExact == \A b \in Bufs : use[b] = References(b)

\* CFE_SB_IncrBufUseCnt/DecrBufUseCnt are called at a dozen places, under
\* separate locks.  The use count of a buffer is the number of places that hold
\* it and of the writes of it that OS_QueueDelete threw away: a buffer is never
\* recycled while in use and, as long as every application is left to exit, a
\* deletion that overtakes a write is the only way to leak one.
UseCountAccounted == \A b \in Bufs : use[b] = References(b) + Cardinality(LostOf(b))

\* CFE_SB_DeletePipeFull and CFE_SB_SubscribeFull: every destination of every
\* route is a pipe that exists at this moment, once per route, and the lists
\* stay within CFE_PLATFORM_SB_MAX_DEST_PER_PKT.
RoutesLive ==
  \A m \in MsgIds :
    /\ Len(dest[m]) <= MaxDests
    /\ dest[m] # <<>> => m \in routes
    /\ \A i \in DOMAIN dest[m] :
         /\ Match(dest[m][i].pipe)
         /\ \A j \in DOMAIN dest[m] : dest[m][i].pipe = dest[m][j].pipe => i = j

\* The messages among B on their way to pipe p: queued, about to be written,
\* failed and not yet taken back, or read and not yet accounted for.
Queued(p, B)  == {i \in DOMAIN queue[p] : queue[p][i] \in B}
Writers(p, B) == {t \in Tasks : Pending(t, p) /\ own[t] \in B}
Failing(p, B) == {t \in Tasks : pc[t] = "tx_undo" /\ pid[t] = p /\ own[t] \in B}
Readers(p, B) == {t \in Tasks : pc[t] = "rx_export" /\ pid[t] = p /\ got[t] \in B}
Outstanding(p, B) ==
  Cardinality(Queued(p, B)) + Cardinality(Writers(p, B)) + Cardinality(Failing(p, B))
  + Cardinality(Readers(p, B))
BuffersOf(m) == {b \in Bufs : bufMsg[b] = m}

\* CurrentQueueDepth is raised before the write and lowered after the read, in
\* other locked sections and by other tasks: for a pipe that exists it is the
\* number of messages on their way to it.
DepthExact ==
  \A p \in PipeIds :
    Match(p) => curDepth[SlotOf(p)] = Outstanding(p, Bufs)

\* A subscription never counts more messages outstanding than there are, so
\* its limit cannot stay exhausted and silence it for good.
LimitNotStuck ==
  \A m \in MsgIds : \A i \in DOMAIN dest[m] :
    dest[m][i].cnt <= Outstanding(dest[m][i].pipe, BuffersOf(m))

\* The statistics CFE_SB_SendStatsCmd reports agree with the tables.
LivePipes     == {s \in Slots : pipeId[s] \in PipeIds}
DeletingTasks == {t \in Tasks : pc[t] \in Deleting}
Subscriptions == {x \in MsgIds \X PipeIds : Subscribed(x[1], x[2])}
UsedBufs      == {b \in Bufs : use[b] > 0}
StatsExact ==
  /\ pipesInUse = Cardinality(LivePipes) + Cardinality(DeletingTasks)
  /\ subsInUse = Cardinality(Subscriptions)
  /\ bufsInUse = Cardinality(UsedBufs)

\* The counts that several tasks raise and lower in sections of their own, and that
\* nothing would ever correct, are those that the tables themselves give.
CountsExact == DepthExact /\ LimitNotStuck /\ StatsExact

\* CFE_SB_CreatePipe and CFE_SB_DeletePipeFull give up the lock half-way and
\* come back to the same slot.  It is still reserved when they do, and no other
\* call is at work on it.
Claims(t) == pc[t] \in Creating \cup Deleting
SlotClaims ==
  \A t \in Tasks : Claims(t) =>
    /\ pid[t] \in PipeIds
    /\ pipeId[SlotOf(pid[t])] = RESERVED
    /\ \A u \in Tasks : Claims(u) /\ SlotOf(pid[u]) = SlotOf(pid[t]) => u = t

\* A slot is reserved only while some call is at work on it: none is lost to
\* the table for good.
ReservedHasOwner ==
  \A s \in Slots : pipeId[s] = RESERVED =>
    \E t \in Tasks : Claims(t) /\ SlotOf(pid[t]) = s

\* The message CFE_SB_ReceiveBuffer returned stays allocated, and stays the
\* pipe's LastBuffer, until the reader's next call or the end of the pipe.
HeldIsPinned ==
  \A t \in Tasks : held[t] # NoBuf =>
    /\ use[held[t]] > 0
    /\ \E p \in PipeIds : creator[p] = t /\ Match(p) /\ lastBuf[SlotOf(p)] = held[t]

\* The buffer a task is filling or sending is allocated, and no other task is
\* filling or sending the same one.
OwnIsAllocated ==
  \A t \in Tasks : own[t] # NoBuf =>
    /\ use[own[t]] > 0
    /\ \A u \in Tasks : own[u] = own[t] => u = t

\* What a task was given to read or to fill stays its own until it gives it back.
HoldersKeepBuffers == HeldIsPinned /\ OwnIsAllocated

\* Once ES has deleted an application that had exited, nothing on the bus is
\* its own: no pipe, no slot of the table, no message on a queue of a pipe it
\* made, no subscription, no zero-copy buffer.
NothingLeftBehind ==
  \A a \in Apps : appState[a] = "gone" =>
    /\ \A s \in Slots : pipeId[s] # FREE => pipeApp[s] # a
    /\ \A p \in PipeIds : AppOf[creator[p]] = a => queue[p] = <<>>
    /\ \A b \in Bufs : list[b] = "zerocopy" => bufApp[b] # a
    /\ \A m \in MsgIds : \A i \in DOMAIN dest[m] : AppOf[creator[dest[m][i].pipe]] # a

\* The deletion of a pipe, by its owner or by the clean-up, loses messages that
\* were written too late to be drained, and their buffers with them.  Since no
\* route leads to the pipe any more, it is at most one of each task that sends,
\* however deep the queue is: the drain leaves nothing else behind.
Senders == {t \in Tasks : Calls[t] \cap {"transmit", "transmit_buffer"} # {}}
FewLost == \A p \in PipeIds : Len(lost[p]) <= Cardinality(Senders)

\* What the bus gives out it gets back, but for those messages: a slot when the
\* call at work on it ends, and all that an application held when it is deleted.
CleanedUp == ReservedHasOwner /\ NothingLeftBehind /\ FewLost

\* Whatever the other tasks do on the bus, a transmission that has begun ends; deleting
\* a pipe ends, and frees its slot; and CFE_ES_CleanUpApp, which one task runs and which
\* waits for nobody, ends what it began.
CallsEnd ==
  /\ \A t \in Tasks : pc[t] = "tx_find" ~> pc[t] \in {"idle", "dead"}
  /\ \A t \in Tasks : pc[t] = "drain" ~> pc[t] \notin Deleting
  /\ \A a \in Apps : victim = a ~> appState[a] = "gone"
=============================================================================
