------------------------------ MODULE SBProofs ------------------------------
(***************************************************************************)
(* Machine-checked proofs about the Software Bus, for every number of      *)
(* tasks, pipes, routes and buffers, in two parts.                         *)
(*                                                                         *)
(* The first part is about the types, the routes and the slots.  Its       *)
(* inductive invariant IInv joins the type invariant, SlotClaims and       *)
(* RoutesLive with two facts about the task that takes a step: a sender    *)
(* has a buffer and a message ID, a reader has a pipe.  The three need     *)
(* each other: a route is alive because a slot that is claimed is nobody's *)
(* pipe, and a queue has its type because the call at work on it has a     *)
(* pipe ID.  There is a lemma for each action.                             *)
(*                                                                         *)
(* The second part is about what the bus gives out: the use count of a     *)
(* buffer is the number of places that hold it and of the writes of it     *)
(* that were lost with the queue of a deleted pipe, whoever was given a    *)
(* buffer keeps it, what ends leaves nothing behind but those writes, of   *)
(* which there are few, and the depths, limits and statistics agree with   *)
(* what is there to be counted.                                            *)
(*                                                                         *)
(* None of the four is inductive.  Whether the count is right depends on   *)
(* where every task has come to in its call (CallInv), on no two tasks     *)
(* having one buffer in their hands (HandsOK), on a new pipe finding an    *)
(* empty queue: nobody knows an ID before it is given (FreshOK), and on a  *)
(* queue going only once (GoneOK).  How much goes with it depends on who   *)
(* had a write to make when the drain ended (LateOK).  That                *)
(* a reader keeps its message depends on the count; that nothing is left   *)
(* of an application that has gone depends on whose each slot is           *)
(* (OwnersOK) and on what ES has still to come to (CleanOK); and the       *)
(* limit of a subscription depends on a sender's buffer being nowhere else *)
(* when the sender says which message it holds.                            *)
(*                                                                         *)
(* The layers, each proved step by step from those before it:              *)
(*   CallInv      where every call is, and what it relies on               *)
(*   QueueInv     whose the queues are, and what goes with them            *)
(*   UseInv       the use counts, and the hands each buffer is in          *)
(*   HeldOK       what the readers hold                                    *)
(*   LostInv      the slots and buffers of those who have gone             *)
(*   CountsExact  the statistics, the depths and the limits                *)
(***************************************************************************)
EXTENDS SB, FiniteSetTheorems, WellFoundedInduction, TLAPS

\* A task that is transmitting has a buffer and a message ID: what the type
\* of the queues and of the routes rests on.
SendingHasBuffer ==
  \A t \in Tasks :
    /\ pc[t] \in Sending => own[t] \in Bufs
    /\ pc[t] \in Sending \cup {"tx_allocate"} => msg[t] \in MsgIds

\* A task that is reading, or taking a write back, has a pipe.
RunningHasPipe ==
  \A t \in Tasks : pc[t] \in Receiving \cup {"tx_undo"} => pid[t] \in PipeIds

\* The inductive invariant.
IInv == TypeOK /\ SendingHasBuffer /\ RunningHasPipe /\ SlotClaims /\ RoutesLive

-----------------------------------------------------------------------------
(* Helpers                                                                 *)

\* The slot of a pipe ID is a slot of the table.
LEMMA SlotInRange ==
  ASSUME NEW p \in Int
  PROVE  SlotOf(p) \in Slots
BY PipesAssumption DEF SlotOf, Slots

\* A list without its i-th node: the other nodes, in their order.
LEMMA WithoutType ==
  ASSUME NEW s \in Seq(DestType), NEW i \in DOMAIN s
  PROVE  /\ Without(s, i) \in Seq(DestType)
         /\ Len(Without(s, i)) = Len(s) - 1
         /\ \A j \in DOMAIN Without(s, i) :
              \E k \in DOMAIN s :
                k # i /\ Without(s, i)[j] = s[k] /\ k = (IF j < i THEN j ELSE j + 1)
BY DEF Without

\* Taking the oldest message off a queue.
LEMMA HeadTailType ==
  ASSUME QueuesOK, NEW p \in PipeIds, queue[p] # <<>>
  PROVE  Head(queue[p]) \in Bufs /\ Tail(queue[p]) \in Seq(Bufs)
BY DEF QueuesOK

\* CFE_SB_DecrBufUseCnt on a count that is not zero stays in range.
LEMMA OneLess ==
  ASSUME NEW n \in 0 .. UseMax, n > 0
  PROVE  n - 1 \in 0 .. UseMax
BY SMTT(30) DEF UseMax

\* CFE_SB_IncrBufUseCnt saturates.
LEMMA RaisedType ==
  ASSUME NEW n \in 0 .. UseMax, NEW k \in Nat
  PROVE  (IF n + k <= UseMax THEN n + k ELSE UseMax) \in 0 .. UseMax
<1>1. n + k <= UseMax => n + k \in 0 .. UseMax
  BY SMTT(30) DEF UseMax
<1>2. UseMax \in 0 .. UseMax
  BY SMTT(30) DEF UseMax
<1> QED
  BY <1>1, <1>2

\* Releasing any set of buffers keeps the types of the buffer table.
LEMMA DropType ==
  ASSUME BufsOK, NEW B, Drop(B)
  PROVE  /\ use' \in [Bufs -> 0 .. UseMax]
         /\ list' \in [Bufs -> {"none", "zerocopy", "transit"}]
         /\ bufsInUse' \in Int
<1> DEFINE last == {b \in Bufs : b \in B /\ use[b] = 1}
<1> DEFINE now(b) == IF b \in B /\ use[b] > 0 THEN use[b] - 1 ELSE use[b]
<1>1. Cardinality(last) \in Nat
  BY FiniteAssumption, FS_Subset, FS_CardinalityType
<1>2. /\ bufsInUse' = bufsInUse - Cardinality(last)
      /\ use' = [b \in Bufs |-> now(b)]
      /\ list' = [b \in Bufs |-> IF b \in last THEN "none" ELSE list[b]]
  BY DEF Drop
<1>3. bufsInUse' \in Int
  BY <1>1, <1>2 DEF BufsOK
<1>4. \A b \in Bufs : now(b) \in 0 .. UseMax
  BY OneLess DEF BufsOK
<1> HIDE DEF last, now
<1>5. use' \in [Bufs -> 0 .. UseMax]
  BY <1>2, <1>4
<1>6. list' \in [Bufs -> {"none", "zerocopy", "transit"}]
  BY <1>2 DEF BufsOK
<1> QED
  BY <1>3, <1>5, <1>6

\* The search of CFE_SB_GetDestPtr finds the one destination of m at pipe p.
LEMMA DestPtrFound ==
  ASSUME RoutesOK, RoutesLive, NEW m \in MsgIds, NEW p, Subscribed(m, p)
  PROVE  /\ DestPtr(m, p) \in DOMAIN dest[m]
         /\ dest[m][DestPtr(m, p)].pipe = p
<1>1. PICK i \in DOMAIN dest[m] : dest[m][i].pipe = p
  BY DEF Subscribed, Positions
<1>2. Positions(m, p) = {i}
  BY <1>1 DEF RoutesLive, Positions
<1>3. DOMAIN dest[m] \subseteq Nat
  BY DEF RoutesOK
<1>4. DestPtr(m, p) = i
  BY <1>1, <1>2, <1>3 DEF DestPtr
<1> QED
  BY <1>1, <1>4

\* Counting a message up or down keeps a destination, and its pipe.
LEMMA CountedType ==
  ASSUME NEW d \in DestType
  PROVE  /\ Fewer(d) \in DestType /\ Fewer(d).pipe = d.pipe
         /\ More(d) \in DestType /\ More(d).pipe = d.pipe
BY DEF DestType, Fewer, More

\* A route command keeps a destination, and its pipe.
LEMMA SwitchedType ==
  ASSUME NEW d \in DestType, NEW on \in BOOLEAN
  PROVE  /\ [d EXCEPT !.active = on] \in DestType
         /\ [d EXCEPT !.active = on].pipe = d.pipe
BY DEF DestType

\* Counting a message down moves no destination of any route.
LEMMA CountDownType ==
  ASSUME RoutesOK, RoutesLive, NEW m, NEW p
  PROVE  /\ CountDown(m, p) \in [MsgIds -> Seq(DestType)]
         /\ \A n \in MsgIds :
              /\ DOMAIN CountDown(m, p)[n] = DOMAIN dest[n]
              /\ Len(CountDown(m, p)[n]) = Len(dest[n])
              /\ \A i \in DOMAIN dest[n] : CountDown(m, p)[n][i].pipe = dest[n][i].pipe
<1> DEFINE i == DestPtr(m, p)
           d == Fewer(dest[m][i])
           s == [dest[m] EXCEPT ![i] = d]
<1>1. CASE m \notin MsgIds \/ ~Subscribed(m, p)
  BY <1>1 DEF CountDown, RoutesOK
<1>2. CASE m \in MsgIds /\ Subscribed(m, p)
  <2>1. i \in DOMAIN dest[m] /\ dest[m] \in Seq(DestType)
    BY <1>2, DestPtrFound DEF RoutesOK
  <2>2. d \in DestType /\ d.pipe = dest[m][i].pipe
    BY <2>1, CountedType
  <2>3. CountDown(m, p) = [dest EXCEPT ![m] = s]
    BY <1>2 DEF CountDown
  <2> HIDE DEF i, d
  <2>4. /\ s \in Seq(DestType) /\ Len(s) = Len(dest[m]) /\ DOMAIN s = DOMAIN dest[m]
        /\ \A j \in DOMAIN dest[m] : s[j].pipe = dest[m][j].pipe
    BY <2>1, <2>2
  <2> HIDE DEF s
  <2> QED
    BY <2>3, <2>4 DEF RoutesOK
<1> QED
  BY <1>1, <1>2

\* CurrentQueueDepth stays a natural number.
LEMMA DepthDownType ==
  ASSUME PipesOK, NEW p \in PipeIds
  PROVE  DepthDown(p) \in [Slots -> Nat]
<1>1. SlotOf(p) \in Slots
  BY SlotInRange DEF PipeIds
<1> QED
  BY <1>1 DEF DepthDown, PipesOK

\* A non-empty set of numbers has a least element.
LEMMA Least ==
  ASSUME NEW S, S \subseteq Nat, S # {}
  PROVE  \E i \in S : \A j \in S : i <= j
<1> DEFINE R == OpToRel(<, Nat)
<1>1. PICK i \in S : \A j \in S : ~ (<<j, i>> \in R)
  BY NatLessThanWellFounded, WFMin
<1>2. \A j \in S : ~ (j < i)
  BY <1>1 DEF OpToRel
<1> QED
  BY <1>2

-----------------------------------------------------------------------------
(* What is left alone stays as it was.                                     *)

\* A step that changes no slot, and begins no claim, keeps SlotClaims.
LEMMA ClaimsKept ==
  ASSUME SlotClaims, pipeId' = pipeId,
         \A u \in Tasks : Claims(u)' => Claims(u) /\ pid'[u] = pid[u]
  PROVE  SlotClaims'
BY DEF SlotClaims

\* A step that changes no slot, and moves no destination, keeps RoutesLive.
LEMMA RoutesKept ==
  ASSUME RoutesLive, pipeId' = pipeId, routes' = routes,
         \A m \in MsgIds :
           /\ DOMAIN dest'[m] = DOMAIN dest[m]
           /\ Len(dest'[m]) = Len(dest[m])
           /\ dest'[m] = <<>> <=> dest[m] = <<>>
           /\ \A i \in DOMAIN dest[m] : dest'[m][i].pipe = dest[m][i].pipe
  PROVE  RoutesLive'
BY DEF RoutesLive, Match

\* A slot that is taken away from nobody leaves the routes alive.
LEMMA RoutesStillLive ==
  ASSUME RoutesLive, UNCHANGED routeVars,
         \A p \in PipeIds : Match(p) => Match(p)'
  PROVE  RoutesLive'
BY DEF RoutesLive, Match, routeVars

\* A call that gives its slot back, or gives it to the pipe it has made.
LEMMA SlotSettled ==
  ASSUME IInv, NEW t \in Tasks, Claims(t), NEW v,
         pipeId' = [pipeId EXCEPT ![SlotOf(pid[t])] = v],
         \A u \in Tasks : Claims(u)' => u # t /\ Claims(u) /\ pid'[u] = pid[u],
         UNCHANGED routeVars
  PROVE  SlotClaims' /\ RoutesLive'
<1>1. /\ pid[t] \in PipeIds /\ SlotOf(pid[t]) \in Slots
      /\ pipeId[SlotOf(pid[t])] = RESERVED
  BY SlotInRange DEF IInv, SlotClaims, PipeIds
<1>2. SlotClaims'
  BY <1>1 DEF IInv, TypeOK, PipesOK, SlotClaims
<1>3. \A p \in PipeIds : Match(p) => Match(p)'
  BY <1>1 DEF IInv, TypeOK, PipesOK, Match, PipeIds, RESERVED
<1> QED
  BY <1>2, <1>3, RoutesStillLive DEF IInv

-----------------------------------------------------------------------------
(* CFE_SB_CreatePipe                                                       *)

\* The slot FindNext gives is free, so nobody claims it and no route uses it.
LEMMA CreateReserveStep ==
  ASSUME IInv, NEW t \in Tasks, CreateReserve(t)
  PROVE  IInv'
<1> USE DEF IInv, TypeOK
<1> DEFINE n == FindNext
           s == SlotOf(n)
<1>1. /\ n \in PipeIds /\ n \in Int /\ n \in 0 .. LastSerial
      /\ s \in Slots /\ pipeId[s] = FREE
  <2>1. n \in PipeIds /\ n # 0
    BY DEF CreateReserve, PipeIds
  <2> DEFINE free == {k \in lastPipe + 1 .. lastPipe + MaxPipes : pipeId[SlotOf(k)] = FREE}
  <2>2. free \subseteq Nat /\ free # {}
    BY <2>1, PipesAssumption DEF FindNext, PipesOK
  <2>3. n \in free
    BY <2>2, Least DEF FindNext
  <2> QED
    BY <2>1, <2>3, SlotInRange, SerialAssumption DEF PipeIds
<1>2. /\ pipeId' = [pipeId EXCEPT ![s] = RESERVED]
      /\ pid' = [pid EXCEPT ![t] = n] /\ pc' = [pc EXCEPT ![t] = "create"]
      /\ opApp' = [opApp EXCEPT ![t] = AppIdOf(t)] /\ lastPipe' = n
      /\ pc[t] = "idle"
  BY DEF CreateReserve, GoTo, Begins
<1> HIDE DEF n, s
<1>3. PipesOK'
  BY <1>1, <1>2 DEF PipesOK, CreateReserve, n, s
<1>4. TasksOK' /\ SendingHasBuffer' /\ RunningHasPipe'
  <2>1. AppIdOf(t) \in Apps \cup {NoApp}
    BY TaskAssumption DEF AppIdOf
  <2>2. UNCHANGED <<msg, own, got, todo, held>>
    BY DEF CreateReserve
  <2> QED
    BY <1>1, <1>2, <2>1, <2>2 DEF TasksOK, PCs, Creating, SendingHasBuffer, RunningHasPipe, Sending, Receiving
<1>5. SlotClaims'
  <2>1. \A u \in Tasks : Claims(u)' => u = t \/ (Claims(u) /\ pid'[u] = pid[u])
    BY <1>2 DEF TasksOK, Claims
  <2>2. \A u \in Tasks : Claims(u) => SlotOf(pid[u]) # s
    BY <1>1 DEF SlotClaims, FREE, RESERVED
  <2>3. pid'[t] = n
    BY <1>2 DEF TasksOK
  <2> QED
    BY <1>1, <1>2, <2>1, <2>2, <2>3, SlotInRange DEF SlotClaims, PipesOK, s, PipeIds
<1>6. RoutesLive'
  <2>1. \A p \in PipeIds : Match(p) => Match(p)'
    BY <1>1, <1>2, SlotInRange DEF Match, PipesOK, PipeIds, FREE
  <2> QED
    BY <2>1, RoutesStillLive DEF CreateReserve
<1> QED
  BY <1>3, <1>4, <1>5, <1>6
     DEF CreateReserve, RoutesOK, BufsOK, QueuesOK, StatsOK, CleanUpOK, routeVars, bufVars, queueVars, esVars

\* Whether or not OSAL makes the queue, the slot stays claimed.
LEMMA CreateQueueStep ==
  ASSUME IInv, NEW t \in Tasks, CreateQueue(t)
  PROVE  IInv'
<1> USE DEF IInv, TypeOK
<1>1. /\ pc[t] = "create"
      /\ \E l \in {"created", "create_failed"} : pc' = [pc EXCEPT ![t] = l]
  BY DEF CreateQueue, GoTo
<1>2. QueuesOK'
  <2>1. UNCHANGED <<queue, lost>> /\ (UNCHANGED qcap \/ \E d \in Depths : qcap' = [qcap EXCEPT ![pid[t]] = d])
    BY DEF CreateQueue
  <2>2. \A d \in Depths : d \in Nat
    BY DepthAssumption
  <2> QED
    BY <2>1, <2>2 DEF QueuesOK
<1>3. TasksOK' /\ SendingHasBuffer' /\ RunningHasPipe'
  BY <1>1 DEF CreateQueue, TasksOK, PCs, Creating, SendingHasBuffer, RunningHasPipe, Sending, Receiving
<1>4. SlotClaims'
  BY <1>1, ClaimsKept DEF CreateQueue, TasksOK, Claims, Creating, pipeVars
<1> QED
  BY <1>2, <1>3, <1>4, RoutesKept
     DEF CreateQueue, PipesOK, RoutesOK, BufsOK, StatsOK, CleanUpOK, pipeVars, routeVars, bufVars, esVars

\* The claimed slot becomes the pipe it was reserved for.
LEMMA CreateFinishStep ==
  ASSUME IInv, NEW t \in Tasks, CreateFinish(t)
  PROVE  IInv'
<1> USE DEF IInv, TypeOK
<1>1. Claims(t) /\ pid[t] \in PipeIds /\ SlotOf(pid[t]) \in Slots
  BY SlotInRange DEF CreateFinish, SlotClaims, Claims, Creating, PipeIds
<1>2. PipesOK'
  BY <1>1 DEF CreateFinish, PipesOK, TasksOK
<1>3. TasksOK' /\ SendingHasBuffer' /\ RunningHasPipe'
  BY DEF CreateFinish, GoTo, TasksOK, PCs, Creating, SendingHasBuffer, RunningHasPipe, Sending, Receiving
<1>4. StatsOK'
  BY <1>1 DEF CreateFinish, StatsOK
<1>5. SlotClaims' /\ RoutesLive'
  <2>1. \A u \in Tasks : Claims(u)' => u # t /\ Claims(u) /\ pid'[u] = pid[u]
    BY DEF CreateFinish, GoTo, TasksOK, Claims, Creating, Deleting
  <2> QED
    BY <1>1, <2>1, SlotSettled DEF CreateFinish
<1> QED
  BY <1>2, <1>3, <1>4, <1>5
     DEF CreateFinish, RoutesOK, BufsOK, QueuesOK, CleanUpOK, routeVars, bufVars, queueVars, esVars

\* The claimed slot is free again.
LEMMA CreateAbortStep ==
  ASSUME IInv, NEW t \in Tasks, CreateAbort(t)
  PROVE  IInv'
<1> USE DEF IInv, TypeOK
<1>1. Claims(t) /\ pid[t] \in PipeIds /\ SlotOf(pid[t]) \in Slots
  BY SlotInRange DEF CreateAbort, SlotClaims, Claims, Creating, PipeIds
<1>2. PipesOK'
  BY <1>1 DEF CreateAbort, PipesOK
<1>3. TasksOK' /\ SendingHasBuffer' /\ RunningHasPipe'
  BY DEF CreateAbort, GoTo, TasksOK, PCs, Creating, SendingHasBuffer, RunningHasPipe, Sending, Receiving
<1>4. SlotClaims' /\ RoutesLive'
  <2>1. \A u \in Tasks : Claims(u)' => u # t /\ Claims(u) /\ pid'[u] = pid[u]
    BY DEF CreateAbort, GoTo, TasksOK, Claims, Creating, Deleting
  <2> QED
    BY <1>1, <2>1, SlotSettled DEF CreateAbort
<1> QED
  BY <1>2, <1>3, <1>4
     DEF CreateAbort, RoutesOK, BufsOK, QueuesOK, StatsOK, CleanUpOK, routeVars, bufVars, queueVars, esVars

-----------------------------------------------------------------------------
(* CFE_SB_DeletePipeFull                                                   *)

\* The pipe leaves every route before its slot stops naming it.
LEMMA TearDownStep ==
  ASSUME IInv, NEW t \in Tasks, NEW p \in PipeIds, Match(p), ~Claims(t),
         TearDown(t, p), CleanUpOK'
  PROVE  IInv'
<1> USE DEF IInv, TypeOK
<1> DEFINE gone == {m \in MsgIds : Subscribed(m, p)}
           left(m) == IF m \in gone THEN Without(dest[m], DestPtr(m, p)) ELSE dest[m]
<1>1. SlotOf(p) \in Slots /\ pipeId[SlotOf(p)] = p
  BY SlotInRange DEF Match, PipeIds
<1>2. dest' = [m \in MsgIds |-> left(m)]
  BY DEF TearDown
<1>3. ASSUME NEW m \in MsgIds
      PROVE  /\ left(m) \in Seq(DestType) /\ Len(left(m)) <= Len(dest[m])
             /\ left(m) # <<>> => dest[m] # <<>>
             /\ \A i \in DOMAIN left(m) :
                  /\ left(m)[i].pipe # p
                  /\ \E k \in DOMAIN dest[m] : left(m)[i] = dest[m][k]
                  /\ \A j \in DOMAIN left(m) : left(m)[i].pipe = left(m)[j].pipe => i = j
  <2>1. CASE m \notin gone
    BY <2>1 DEF RoutesOK, RoutesLive, Subscribed, Positions
  <2>2. CASE m \in gone
    <3> DEFINE d == DestPtr(m, p)
    <3>1. d \in DOMAIN dest[m] /\ dest[m][d].pipe = p /\ dest[m] \in Seq(DestType)
      BY <2>2, DestPtrFound DEF RoutesOK
    <3> HIDE DEF d
    <3>2. left(m) = Without(dest[m], d)
      BY <2>2 DEF d
    <3> HIDE DEF left
    <3>3. /\ left(m) \in Seq(DestType) /\ Len(left(m)) = Len(dest[m]) - 1
          /\ \A i \in DOMAIN left(m) :
               \E k \in DOMAIN dest[m] :
                 k # d /\ left(m)[i] = dest[m][k] /\ k = (IF i < d THEN i ELSE i + 1)
      BY <3>1, <3>2, WithoutType
    <3>4. \A i, j \in DOMAIN dest[m] : dest[m][i].pipe = dest[m][j].pipe => i = j
      BY DEF RoutesLive
    <3> QED
      BY <3>1, <3>3, <3>4
  <2> QED
    BY <2>1, <2>2
<1> HIDE DEF left
<1>4. PipesOK'
  BY <1>1 DEF TearDown, PipesOK
<1>5. RoutesOK'
  BY <1>2, <1>3 DEF TearDown, RoutesOK
<1>6. TasksOK' /\ SendingHasBuffer' /\ RunningHasPipe'
  BY <1>1 DEF TearDown, GoTo, TasksOK, PipesOK, PCs, Deleting, SendingHasBuffer, RunningHasPipe, Sending, Receiving
<1>7. StatsOK'
  <2>1. Cardinality(gone) \in Nat
    BY FiniteAssumption, FS_Subset, FS_CardinalityType
  <2> QED
    BY <2>1 DEF TearDown, StatsOK
<1>8. SlotClaims'
  <2>1. \A u \in Tasks : Claims(u)' => u = t \/ (Claims(u) /\ pid'[u] = pid[u])
    BY DEF TearDown, GoTo, TasksOK, Claims
  <2>2. \A u \in Tasks : Claims(u) => u # t /\ SlotOf(pid[u]) # SlotOf(p)
    BY <1>1 DEF SlotClaims, PipeIds, RESERVED
  <2>3. pid'[t] = p
    BY DEF TearDown, TasksOK
  <2> QED
    BY <1>1, <2>1, <2>2, <2>3 DEF TearDown, SlotClaims, PipesOK
<1>9. RoutesLive'
  <2>1. \A q \in PipeIds : Match(q) /\ q # p => Match(q)'
    BY <1>1 DEF TearDown, Match, PipesOK
  <2>2. \A m \in MsgIds : dest'[m] = left(m)
    BY <1>2
  <2>3. ASSUME NEW m \in MsgIds
        PROVE  Len(left(m)) <= MaxDests /\ (left(m) # <<>> => m \in routes')
    BY <1>3, RouteAssumption DEF TearDown, RoutesLive, RoutesOK
  <2>4. ASSUME NEW m \in MsgIds, NEW i \in DOMAIN left(m)
        PROVE  LET q == left(m)[i].pipe
               IN  q \in PipeIds /\ pipeId'[SlotOf(q)] = q
    <3>1. PICK k \in DOMAIN dest[m] : left(m)[i] = dest[m][k]
      BY <1>3
    <3>2. Match(dest[m][k].pipe) /\ dest[m][k].pipe # p
      BY <1>3, <3>1 DEF RoutesLive
    <3> QED
      BY <2>1, <3>1, <3>2 DEF Match
  <2> QED
    BY <1>3, <2>2, <2>3, <2>4 DEF RoutesLive, Match
<1> QED
  BY <1>4, <1>5, <1>6, <1>7, <1>8, <1>9 DEF TearDown, BufsOK, QueuesOK, bufVars, queueVars

\* The owner deletes its pipe.
LEMMA DeleteBeginStep ==
  ASSUME IInv, NEW t \in Tasks, NEW p \in PipeIds, DeleteBegin(t, p)
  PROVE  IInv'
<1>1. Match(p) /\ ~Claims(t) /\ TearDown(t, p)
  BY DEF DeleteBegin, Begins, Claims, Creating, Deleting
<1>2. CleanUpOK'
  BY DEF DeleteBegin, IInv, TypeOK, CleanUpOK, esVars
<1> QED
  BY <1>1, <1>2, TearDownStep

\* A drained buffer is released.
LEMMA DrainReleaseStep ==
  ASSUME IInv, NEW t \in Tasks, DrainRelease(t)
  PROVE  IInv'
<1> USE DEF IInv, TypeOK
<1>1. BufsOK'
  BY DropType DEF DrainRelease, BufsOK
<1>2. TasksOK' /\ SendingHasBuffer' /\ RunningHasPipe'
  BY DEF DrainRelease, TasksOK, SendingHasBuffer, RunningHasPipe
<1>3. SlotClaims'
  BY ClaimsKept DEF DrainRelease, Claims, pipeVars
<1> QED
  BY <1>1, <1>2, <1>3, RoutesKept
     DEF DrainRelease, PipesOK, RoutesOK, QueuesOK, StatsOK, CleanUpOK, pipeVars, routeVars, queueVars, esVars

\* The queue that is drained belongs to the claimed slot.
LEMMA DrainGetStep ==
  ASSUME IInv, NEW t \in Tasks, DrainGet(t)
  PROVE  IInv'
<1> USE DEF IInv, TypeOK
<1>1. pid[t] \in PipeIds
  BY DEF DrainGet, SlotClaims, Claims, Deleting
<1>2. QueuesOK' /\ got' \in [Tasks -> Bufs \cup {NoBuf}]
  <2>1. CASE queue[pid[t]] # <<>>
    <3>1. Head(queue[pid[t]]) \in Bufs /\ Tail(queue[pid[t]]) \in Seq(Bufs)
      BY <1>1, <2>1, HeadTailType
    <3>2. got' = [got EXCEPT ![t] = Head(queue[pid[t]])]
      BY <2>1 DEF DrainGet
    <3>3. queue' = [queue EXCEPT ![pid[t]] = Tail(queue[pid[t]])] /\ UNCHANGED <<qcap, lost>>
      BY <2>1 DEF DrainGet
    <3>4. QueuesOK'
      BY <1>1, <3>1, <3>3 DEF QueuesOK
    <3> QED
      BY <3>1, <3>2, <3>4 DEF TasksOK
  <2>2. CASE queue[pid[t]] = <<>>
    BY <2>2 DEF DrainGet, GoTo, QueuesOK, TasksOK
  <2> QED
    BY <2>1, <2>2
<1>3. TasksOK' /\ SendingHasBuffer' /\ RunningHasPipe'
  BY <1>2 DEF DrainGet, GoTo, TasksOK, PCs, Deleting, SendingHasBuffer, RunningHasPipe, Sending, Receiving
<1>4. SlotClaims'
  BY ClaimsKept DEF DrainGet, GoTo, TasksOK, Claims, Deleting, pipeVars
<1> QED
  BY <1>2, <1>3, <1>4, RoutesKept
     DEF DrainGet, PipesOK, RoutesOK, BufsOK, StatsOK, CleanUpOK, pipeVars, routeVars, bufVars, esVars

\* The queue goes, and what is on it, while the slot stays claimed.
LEMMA QueueDeleteStep ==
  ASSUME IInv, NEW t \in Tasks, QueueDelete(t)
  PROVE  IInv'
<1> USE DEF IInv, TypeOK
<1>1. QueuesOK'
  <2>1. pid[t] \in PipeIds
    BY DEF QueueDelete, SlotClaims, Claims, Deleting
  <2>2. /\ qcap' = [qcap EXCEPT ![pid[t]] = 0] /\ queue' = [queue EXCEPT ![pid[t]] = <<>>]
        /\ lost' = [lost EXCEPT ![pid[t]] = queue[pid[t]]]
    BY DEF QueueDelete
  <2>3. queue[pid[t]] \in Seq(Bufs) /\ <<>> \in Seq(Bufs)
    BY <2>1 DEF QueuesOK
  <2> QED
    BY <2>2, <2>3 DEF QueuesOK
<1>2. TasksOK' /\ SendingHasBuffer' /\ RunningHasPipe'
  BY DEF QueueDelete, GoTo, TasksOK, PCs, Deleting, SendingHasBuffer, RunningHasPipe, Sending, Receiving
<1>3. SlotClaims'
  BY ClaimsKept DEF QueueDelete, GoTo, TasksOK, Claims, Deleting, pipeVars
<1> QED
  BY <1>1, <1>2, <1>3, RoutesKept
     DEF QueueDelete, PipesOK, RoutesOK, BufsOK, StatsOK, CleanUpOK, pipeVars, routeVars, bufVars, esVars

\* The claimed slot is free again.
LEMMA DeleteFinishStep ==
  ASSUME IInv, NEW t \in Tasks, DeleteFinish(t)
  PROVE  IInv'
<1> USE DEF IInv, TypeOK
<1>1. Claims(t) /\ pid[t] \in PipeIds /\ SlotOf(pid[t]) \in Slots
  BY SlotInRange DEF DeleteFinish, SlotClaims, Claims, Deleting, PipeIds
<1>2. \E l \in {"idle", "clean_pipes"} : pc' = [pc EXCEPT ![t] = l]
  BY DEF DeleteFinish, GoTo
<1>3. PipesOK' /\ StatsOK'
  BY <1>1 DEF DeleteFinish, PipesOK, StatsOK
<1>4. TasksOK' /\ SendingHasBuffer' /\ RunningHasPipe'
  BY <1>2 DEF DeleteFinish, TasksOK, PCs, Cleaning, SendingHasBuffer, RunningHasPipe, Sending, Receiving
<1>5. SlotClaims' /\ RoutesLive'
  <2>1. \A u \in Tasks : Claims(u)' => u # t /\ Claims(u) /\ pid'[u] = pid[u]
    BY <1>2 DEF DeleteFinish, TasksOK, Claims, Creating, Deleting
  <2> QED
    BY <1>1, <2>1, SlotSettled DEF DeleteFinish
<1> QED
  BY <1>3, <1>4, <1>5
     DEF DeleteFinish, RoutesOK, BufsOK, QueuesOK, CleanUpOK, routeVars, bufVars, queueVars, esVars

-----------------------------------------------------------------------------
(* Subscriptions and pipe options                                          *)

\* The new head of the list is the caller's live pipe, which was not on it.
LEMMA SubscribeStep ==
  ASSUME IInv, NEW t \in Tasks, NEW m \in MsgIds, NEW p \in PipeIds, NEW lim \in MsgLims,
         Subscribe(t, m, p, lim)
  PROVE  IInv'
<1> USE DEF IInv, TypeOK
<1>1. UNCHANGED <<pipeVars, bufVars, queueVars, taskVars, pipesInUse, creator, esVars>>
  BY DEF Subscribe
<1>2. SlotClaims'
  BY <1>1, ClaimsKept DEF Claims, pipeVars, taskVars
<1>3. RoutesOK' /\ StatsOK' /\ RoutesLive'
  <2>1. CASE UNCHANGED <<dest, subsInUse>>
    BY <1>1, <2>1 DEF Subscribe, RoutesOK, StatsOK, RoutesLive, Match, pipeVars
  <2>2. CASE /\ ~Subscribed(m, p) /\ Len(dest[m]) < MaxDests
             /\ dest' = [dest EXCEPT ![m] = <<Dest(p, lim)>> \o @]
             /\ subsInUse' = subsInUse + 1
    <3> DEFINE d == Dest(p, lim)
               new == <<d>> \o dest[m]
    <3>1. d \in DestType /\ d.pipe = p
      BY DepthAssumption DEF Dest, DestType
    <3> HIDE DEF d
    <3>2. dest[m] \in Seq(DestType) /\ \A i \in DOMAIN dest[m] : dest[m][i].pipe # p
      BY <2>2 DEF RoutesOK, Subscribed, Positions
    <3>3. /\ new \in Seq(DestType) /\ Len(new) = Len(dest[m]) + 1
          /\ DOMAIN new = 1 .. Len(dest[m]) + 1
          /\ \A i \in 1 .. Len(dest[m]) + 1 : new[i] = IF i = 1 THEN d ELSE dest[m][i - 1]
      BY <3>1, <3>2
    <3>4. dest' = [dest EXCEPT ![m] = new] /\ routes' = routes \cup {m}
      BY <2>2 DEF Subscribe, d
    <3> HIDE DEF new
    <3>5. RoutesOK' /\ StatsOK'
      BY <1>1, <2>2, <3>3, <3>4 DEF RoutesOK, StatsOK
    <3>6. ASSUME NEW i \in DOMAIN new
          PROVE  /\ Match(new[i].pipe)
                 /\ \A j \in DOMAIN new : new[i].pipe = new[j].pipe => i = j
      <4>1. \A j \in DOMAIN dest[m] : Match(dest[m][j].pipe)
        BY DEF RoutesLive
      <4>2. \A j, k \in DOMAIN dest[m] : dest[m][j].pipe = dest[m][k].pipe => j = k
        BY DEF RoutesLive
      <4>3. Match(p)
        BY DEF Subscribe
      <4>4. \A j \in DOMAIN new : j # 1 => j - 1 \in DOMAIN dest[m] /\ new[j] = dest[m][j - 1]
        BY <3>2, <3>3
      <4>5. Match(new[i].pipe)
        BY <3>1, <3>3, <4>1, <4>3, <4>4
      <4>6. ASSUME NEW j \in DOMAIN new, new[i].pipe = new[j].pipe, i # j
            PROVE  FALSE
        <5>1. new[1] = d /\ i \in Int /\ j \in Int
          BY <3>3
        <5>2. CASE i = 1
          BY <3>1, <3>2, <4>4, <4>6, <5>1, <5>2
        <5>3. CASE j = 1
          BY <3>1, <3>2, <4>4, <4>6, <5>1, <5>3
        <5>4. CASE i # 1 /\ j # 1
          <6>1. i - 1 \in DOMAIN dest[m] /\ j - 1 \in DOMAIN dest[m]
            BY <4>4, <5>4
          <6>2. dest[m][i - 1].pipe = dest[m][j - 1].pipe
            BY <4>4, <4>6, <5>4
          <6> QED
            BY <4>2, <4>6, <5>1, <6>1, <6>2
        <5> QED
          BY <5>2, <5>3, <5>4
      <4> QED
        BY <4>5, <4>6
    <3>7. Len(new) <= MaxDests
      BY <2>2, <3>2, <3>3, RouteAssumption
    <3> QED
      BY <1>1, <3>4, <3>5, <3>6, <3>7 DEF RoutesLive, RoutesOK, Match, pipeVars
  <2> QED
    BY <2>1, <2>2 DEF Subscribe
<1> QED
  BY <1>1, <1>2, <1>3
     DEF PipesOK, BufsOK, QueuesOK, TasksOK, CleanUpOK, SendingHasBuffer, RunningHasPipe,
         pipeVars, bufVars, queueVars, taskVars, esVars

\* The rest of the list stays as it was.
LEMMA UnsubscribeStep ==
  ASSUME IInv, NEW t \in Tasks, NEW m \in MsgIds, NEW p \in PipeIds, Unsubscribe(t, m, p)
  PROVE  IInv'
<1> USE DEF IInv, TypeOK
<1> DEFINE d == DestPtr(m, p)
           left == Without(dest[m], d)
<1>1. d \in DOMAIN dest[m] /\ dest[m] \in Seq(DestType)
  BY DestPtrFound DEF Unsubscribe, RoutesOK
<1>2. /\ dest' = [dest EXCEPT ![m] = left] /\ routes' = routes
      /\ subsInUse' = subsInUse - 1
      /\ UNCHANGED <<pipeVars, bufVars, queueVars, taskVars, pipesInUse, creator, esVars>>
  BY DEF Unsubscribe
<1> HIDE DEF d
<1>3. /\ left \in Seq(DestType) /\ Len(left) = Len(dest[m]) - 1
      /\ \A i \in DOMAIN left :
           \E k \in DOMAIN dest[m] :
             k # d /\ left[i] = dest[m][k] /\ k = (IF i < d THEN i ELSE i + 1)
  BY <1>1, WithoutType
<1> HIDE DEF left
<1>4. RoutesOK' /\ StatsOK'
  BY <1>2, <1>3 DEF RoutesOK, StatsOK
<1>5. RoutesLive'
  <2>1. ASSUME NEW i \in DOMAIN left
        PROVE  /\ Match(left[i].pipe)
               /\ \A j \in DOMAIN left : left[i].pipe = left[j].pipe => i = j
    BY <1>1, <1>3 DEF RoutesLive
  <2>2. Len(left) <= MaxDests /\ dest[m] # <<>>
    BY <1>1, <1>3, RouteAssumption DEF RoutesLive
  <2> QED
    BY <1>2, <2>1, <2>2 DEF RoutesLive, RoutesOK, Match, pipeVars
<1>6. SlotClaims'
  BY <1>2, ClaimsKept DEF Claims, pipeVars, taskVars
<1> QED
  BY <1>2, <1>4, <1>5, <1>6
     DEF PipesOK, BufsOK, QueuesOK, TasksOK, CleanUpOK, SendingHasBuffer, RunningHasPipe,
         pipeVars, bufVars, queueVars, taskVars, esVars

\* An option changes no route and no claim.
LEMMA SetPipeOptsStep ==
  ASSUME IInv, NEW t \in Tasks, NEW p \in PipeIds, NEW on \in BOOLEAN, SetPipeOpts(t, p, on)
  PROVE  IInv'
<1> USE DEF IInv, TypeOK
<1>1. PipesOK'
  BY DEF SetPipeOpts, PipesOK
<1>2. SlotClaims'
  BY ClaimsKept DEF SetPipeOpts, Claims, taskVars
<1> QED
  BY <1>1, <1>2, RoutesKept
     DEF SetPipeOpts, RoutesOK, BufsOK, QueuesOK, TasksOK, StatsOK, CleanUpOK, SendingHasBuffer,
         RunningHasPipe, routeVars, bufVars, queueVars, taskVars, esVars

\* A route command moves no destination.
LEMMA RouteCmdStep ==
  ASSUME IInv, NEW m \in MsgIds, NEW p \in PipeIds, NEW on \in BOOLEAN, RouteCmd(m, p, on)
  PROVE  IInv'
<1> USE DEF IInv, TypeOK
<1> DEFINE i == DestPtr(m, p)
           d == [dest[m][i] EXCEPT !.active = on]
           s == [dest[m] EXCEPT ![i] = d]
<1>1. i \in DOMAIN dest[m] /\ dest[m] \in Seq(DestType)
  BY DestPtrFound DEF RouteCmd, RoutesOK
<1>2. d \in DestType /\ d.pipe = dest[m][i].pipe
  BY <1>1, SwitchedType
<1>3. /\ dest' = [dest EXCEPT ![m] = s]
      /\ UNCHANGED <<pipeVars, routes, bufVars, queueVars, taskVars, pipesInUse, subsInUse, creator, esVars>>
  BY DEF RouteCmd
<1> HIDE DEF i, d
<1>4. /\ s \in Seq(DestType) /\ Len(s) = Len(dest[m]) /\ DOMAIN s = DOMAIN dest[m]
      /\ \A j \in DOMAIN dest[m] : s[j].pipe = dest[m][j].pipe
  BY <1>1, <1>2
<1> HIDE DEF s
<1>5. RoutesOK'
  BY <1>3, <1>4 DEF RoutesOK
<1>6. RoutesLive'
  BY <1>3, <1>4, RoutesKept DEF RoutesOK, pipeVars
<1>7. SlotClaims'
  BY <1>3, ClaimsKept DEF Claims, pipeVars, taskVars
<1> QED
  BY <1>3, <1>5, <1>6, <1>7
     DEF PipesOK, BufsOK, QueuesOK, TasksOK, StatsOK, CleanUpOK, SendingHasBuffer, RunningHasPipe,
         pipeVars, bufVars, queueVars, taskVars, esVars

-----------------------------------------------------------------------------
(* Buffers and CFE_SB_TransmitMsg                                          *)

\* A sender keeps its message ID until it has a buffer.
LEMMA AllocateBeginStep ==
  ASSUME IInv, NEW t \in Tasks, AllocateBegin(t)
  PROVE  IInv'
<1> USE DEF IInv, TypeOK
<1>1. pc[t] = "idle" /\ \E l \in {"allocate", "tx_allocate"} : pc' = [pc EXCEPT ![t] = l]
  BY DEF AllocateBegin, Begins, GoTo
<1>2. AppIdOf(t) \in Apps \cup {NoApp}
  BY TaskAssumption DEF AppIdOf
<1>3. TasksOK' /\ SendingHasBuffer' /\ RunningHasPipe'
  <2>1. \/ pc' = [pc EXCEPT ![t] = "allocate"] /\ msg' = msg
        \/ /\ pc' = [pc EXCEPT ![t] = "tx_allocate"]
           /\ \E m \in MsgIds : msg' = [msg EXCEPT ![t] = m]
    BY DEF AllocateBegin, GoTo
  <2>2. /\ opApp' = [opApp EXCEPT ![t] = AppIdOf(t)]
        /\ UNCHANGED <<pid, own, got, todo, held>>
    BY DEF AllocateBegin
  <2>3. TasksOK'
    BY <1>1, <1>2, <2>1, <2>2 DEF TasksOK, PCs
  <2>4. RunningHasPipe'
    BY <2>1, <2>2 DEF TasksOK, RunningHasPipe, Receiving
  <2>5. \A u \in Tasks : pc'[u] \in Sending => pc[u] \in Sending
    BY <2>1 DEF TasksOK, Sending
  <2>6. \A u \in Tasks : pc'[u] \in Sending \cup {"tx_allocate"} => msg'[u] \in MsgIds
    BY <2>1 DEF TasksOK, SendingHasBuffer, Sending
  <2> QED
    BY <2>2, <2>3, <2>4, <2>5, <2>6 DEF SendingHasBuffer
<1>4. SlotClaims'
  BY <1>1, ClaimsKept DEF AllocateBegin, TasksOK, Claims, Creating, Deleting, pipeVars
<1> QED
  BY <1>3, <1>4, RoutesKept
     DEF AllocateBegin, PipesOK, RoutesOK, BufsOK, QueuesOK, StatsOK, CleanUpOK,
         pipeVars, routeVars, bufVars, queueVars, esVars

\* A task that goes on to transmit has a buffer and a message ID.
LEMMA AllocateStep ==
  ASSUME IInv, NEW t \in Tasks, Allocate(t)
  PROVE  IInv'
<1> USE DEF IInv, TypeOK
<1>1. /\ pc[t] \in {"allocate", "tx_allocate"}
      /\ \E l \in {"idle", "tx_find"} : pc' = [pc EXCEPT ![t] = l]
  BY DEF Allocate, GoTo
<1>2. BufsOK'
  <2>1. CASE UNCHANGED bufVars
    BY <2>1 DEF BufsOK, bufVars
  <2>2. ASSUME NEW b \in Bufs,
               use' = [use EXCEPT ![b] = 1], bufApp' = [bufApp EXCEPT ![b] = opApp[t]],
               bufMsg' = [bufMsg EXCEPT ![b] = NoMsg], list' = [list EXCEPT ![b] = "zerocopy"],
               bufsInUse' = bufsInUse + 1
        PROVE  BufsOK'
    <3>1. opApp[t] \in Apps \cup {NoApp}
      BY DEF TasksOK
    <3>2. 1 \in 0 .. UseMax
      BY DEF UseMax
    <3>3. bufsInUse' \in Int
      BY <2>2 DEF BufsOK
    <3> QED
      BY <2>2, <3>1, <3>2, <3>3 DEF BufsOK
  <2> QED
    BY <2>1, <2>2 DEF Allocate
<1>3. TasksOK'
  BY <1>1 DEF Allocate, TasksOK, PCs, Sending
<1>4. SendingHasBuffer' /\ RunningHasPipe'
  <2>1. CASE \E b \in Bufs :
               /\ own' = [own EXCEPT ![t] = b] /\ UNCHANGED msg
               /\ pc' = [pc EXCEPT ![t] = IF pc[t] = "allocate" THEN "idle" ELSE "tx_find"]
    BY <1>1, <2>1 DEF Allocate, TasksOK, SendingHasBuffer, RunningHasPipe, Sending, Receiving
  <2>2. CASE /\ pc' = [pc EXCEPT ![t] = "idle"] /\ UNCHANGED own
             /\ msg' = [msg EXCEPT ![t] = NoMsg]
    BY <1>1, <2>2 DEF Allocate, TasksOK, SendingHasBuffer, RunningHasPipe, Sending, Receiving
  <2> QED
    BY <2>1, <2>2 DEF Allocate, GoTo
<1>5. SlotClaims'
  BY <1>1, ClaimsKept DEF Allocate, TasksOK, Claims, Creating, Deleting, pipeVars
<1> QED
  BY <1>2, <1>3, <1>4, <1>5, RoutesKept
     DEF Allocate, PipesOK, RoutesOK, QueuesOK, StatsOK, CleanUpOK, pipeVars, routeVars, queueVars, esVars

\* Only an idle task gives its buffer back.
LEMMA ReleaseBufferStep ==
  ASSUME IInv, NEW t \in Tasks, ReleaseBuffer(t)
  PROVE  IInv'
<1> USE DEF IInv, TypeOK
<1>1. BufsOK'
  BY DropType DEF ReleaseBuffer, BufsOK
<1>2. TasksOK' /\ SendingHasBuffer' /\ RunningHasPipe'
  BY DEF ReleaseBuffer, Begins, TasksOK, SendingHasBuffer, RunningHasPipe, Sending
<1>3. SlotClaims'
  BY ClaimsKept DEF ReleaseBuffer, Claims, pipeVars
<1> QED
  BY <1>1, <1>2, <1>3, RoutesKept
     DEF ReleaseBuffer, PipesOK, RoutesOK, QueuesOK, StatsOK, CleanUpOK, pipeVars, routeVars, queueVars, esVars

\* A buffer that is sent is one the task has.
LEMMA TransmitBufferStep ==
  ASSUME IInv, NEW t \in Tasks, NEW m \in MsgIds, TransmitBuffer(t, m)
  PROVE  IInv'
<1> USE DEF IInv, TypeOK
<1>1. TasksOK' /\ SendingHasBuffer' /\ RunningHasPipe'
  BY DEF TransmitBuffer, GoTo, TasksOK, PCs, SendingHasBuffer, RunningHasPipe, Sending, Receiving
<1>2. SlotClaims'
  BY ClaimsKept DEF TransmitBuffer, GoTo, TasksOK, Claims, Creating, Deleting, pipeVars
<1> QED
  BY <1>1, <1>2, RoutesKept
     DEF TransmitBuffer, PipesOK, RoutesOK, BufsOK, QueuesOK, StatsOK, CleanUpOK,
         pipeVars, routeVars, bufVars, queueVars, esVars

\* The writes to come all name pipes; no destination moves.
LEMMA FindDestinationsStep ==
  ASSUME IInv, NEW t \in Tasks, FindDestinations(t)
  PROVE  IInv'
<1> USE DEF IInv, TypeOK
<1> DEFINE m == msg[t]
           b == own[t]
           write == {i \in Targets(m, AppIdOf(t)) : dest[m][i].cnt < dest[m][i].lim}
           s == [i \in DOMAIN dest[m] |-> IF i \in write THEN More(dest[m][i]) ELSE dest[m][i]]
<1>1. m \in MsgIds /\ b \in Bufs /\ pc[t] = "tx_find"
  BY DEF FindDestinations, SendingHasBuffer, Sending
<1>2. dest[m] \in Seq(DestType) /\ write \subseteq DOMAIN dest[m]
  BY <1>1 DEF RoutesOK, Targets
<1>3. /\ s \in Seq(DestType) /\ Len(s) = Len(dest[m]) /\ DOMAIN s = DOMAIN dest[m]
      /\ \A j \in DOMAIN dest[m] : s[j].pipe = dest[m][j].pipe
  <2> HIDE DEF m, write
  <2> QED
    BY <1>2, CountedType
<1>4. dest' = [dest EXCEPT ![m] = s] /\ pipeId' = pipeId /\ routes' = routes
  BY DEF FindDestinations
<1>5. use' = [use EXCEPT ![b] = Raised(b, Cardinality(write))]
  BY DEF FindDestinations
<1>6. todo' = [todo EXCEPT ![t] = {<<i, dest[m][i].pipe>> : i \in write}]
  BY DEF FindDestinations
<1> HIDE DEF s
<1>7. PipesOK'
  BY DEF FindDestinations, PipesOK
<1>8. RoutesOK'
  BY <1>3, <1>4 DEF RoutesOK
<1>9. BufsOK'
  <2>1. Cardinality(write) \in Nat
    <3> HIDE DEF m, write
    <3>1. IsFiniteSet(DOMAIN dest[m])
      BY <1>2, FS_Interval
    <3> QED
      BY <1>2, <3>1, FS_Subset, FS_CardinalityType
  <2>2. Raised(b, Cardinality(write)) \in 0 .. UseMax
    BY <1>1, <2>1, RaisedType DEF BufsOK, Raised
  <2> HIDE DEF write
  <2> QED
    BY <1>1, <1>5, <2>2 DEF FindDestinations, BufsOK
<1>10. TasksOK'
  <2> HIDE DEF write, m
  <2>1. \A i \in write : i \in Nat /\ dest[m][i].pipe \in PipeIds
    <3>1. DOMAIN dest[m] \subseteq Nat /\ \A i \in DOMAIN dest[m] : dest[m][i] \in DestType
      BY <1>2
    <3> QED
      BY <1>2, <3>1 DEF DestType
  <2>2. todo' \in [Tasks -> SUBSET (Nat \X PipeIds)]
    BY <1>6, <2>1 DEF TasksOK
  <2> QED
    BY <2>2 DEF FindDestinations, GoTo, TasksOK, PCs, Sending
<1>11. SendingHasBuffer' /\ RunningHasPipe'
  BY <1>1 DEF FindDestinations, GoTo, TasksOK, SendingHasBuffer, RunningHasPipe, Receiving
<1>12. SlotClaims'
  BY ClaimsKept DEF FindDestinations, GoTo, TasksOK, Claims, Creating, Deleting
<1>13. RoutesLive'
  BY <1>3, <1>4, RoutesKept DEF RoutesOK
<1> QED
  BY <1>7, <1>8, <1>9, <1>10, <1>11, <1>12, <1>13
     DEF FindDestinations, QueuesOK, StatsOK, CleanUpOK, queueVars, esVars

\* The next write is one of those there are.
LEMMA NextWriteFound ==
  ASSUME TasksOK, NEW t \in Tasks, todo[t] # {}
  PROVE  NextWrite(t) \in todo[t] /\ NextWrite(t)[2] \in PipeIds
<1> DEFINE at == {w[1] : w \in todo[t]}
<1>1. todo[t] \subseteq Nat \X PipeIds
  BY DEF TasksOK
<1>2. PICK i \in at : \A j \in at : i <= j
  <2>1. at \subseteq Nat /\ at # {}
    BY <1>1
  <2> HIDE DEF at
  <2> QED
    BY <2>1, Least
<1>3. \E w \in todo[t] : \A v \in todo[t] : w[1] <= v[1]
  BY <1>2
<1>4. NextWrite(t) \in todo[t]
  BY <1>3 DEF NextWrite
<1> QED
  BY <1>1, <1>4

\* A buffer goes to the queue of a pipe, or the task keeps the pipe to take it back.
LEMMA QueuePutStep ==
  ASSUME IInv, NEW t \in Tasks, QueuePut(t)
  PROVE  IInv'
<1> USE DEF IInv, TypeOK
<1> DEFINE w == NextWrite(t)
<1>1. w[2] \in PipeIds /\ own[t] \in Bufs /\ pc[t] = "tx_put"
  BY NextWriteFound DEF QueuePut, SendingHasBuffer, Sending
<1>2. /\ todo' = [todo EXCEPT ![t] = @ \ {w}]
      /\ \/ /\ queue' = [queue EXCEPT ![w[2]] = Append(@, own[t])]
            /\ UNCHANGED <<pc, pid>>
         \/ /\ pc' = [pc EXCEPT ![t] = "tx_undo"] /\ pid' = [pid EXCEPT ![t] = w[2]]
            /\ UNCHANGED queue
      /\ UNCHANGED <<qcap, lost>>
  BY DEF QueuePut, GoTo
<1> HIDE DEF w
<1>3. QueuesOK'
  <2>1. queue[w[2]] \in Seq(Bufs) /\ Append(queue[w[2]], own[t]) \in Seq(Bufs)
    BY <1>1 DEF QueuesOK
  <2> QED
    BY <1>1, <1>2, <2>1 DEF QueuesOK
<1>4. TasksOK' /\ SendingHasBuffer' /\ RunningHasPipe'
  BY <1>1, <1>2 DEF QueuePut, TasksOK, PCs, SendingHasBuffer, RunningHasPipe, Sending, Receiving
<1>5. SlotClaims'
  BY <1>1, <1>2, ClaimsKept DEF QueuePut, TasksOK, Claims, Creating, Deleting, pipeVars
<1> QED
  BY <1>3, <1>4, <1>5, RoutesKept
     DEF QueuePut, PipesOK, RoutesOK, BufsOK, StatsOK, CleanUpOK, pipeVars, routeVars, bufVars, esVars

\* What is taken back moves no destination.
LEMMA UndoPutStep ==
  ASSUME IInv, NEW t \in Tasks, UndoPut(t)
  PROVE  IInv'
<1> USE DEF IInv, TypeOK
<1>1. pid[t] \in PipeIds /\ msg[t] \in MsgIds
  BY DEF UndoPut, RunningHasPipe, SendingHasBuffer, Sending
<1>2. PipesOK'
  BY <1>1, DepthDownType DEF UndoPut, PipesOK
<1>3. RoutesOK' /\ RoutesLive'
  <2>1. UNCHANGED <<pipeId, routes>> /\ dest' = CountDown(msg[t], pid[t])
    BY DEF UndoPut
  <2>2. /\ dest' \in [MsgIds -> Seq(DestType)]
        /\ \A n \in MsgIds :
              /\ DOMAIN dest'[n] = DOMAIN dest[n]
              /\ Len(dest'[n]) = Len(dest[n])
              /\ \A i \in DOMAIN dest[n] : dest'[n][i].pipe = dest[n][i].pipe
    BY <1>1, <2>1, CountDownType
  <2> QED
    BY <2>1, <2>2, RoutesKept DEF RoutesOK
<1>4. BufsOK'
  BY DropType DEF UndoPut, BufsOK
<1>5. TasksOK' /\ SendingHasBuffer' /\ RunningHasPipe'
  BY DEF UndoPut, GoTo, TasksOK, PCs, SendingHasBuffer, RunningHasPipe, Sending, Receiving
<1>6. SlotClaims'
  BY ClaimsKept DEF UndoPut, GoTo, TasksOK, Claims, Creating, Deleting
<1> QED
  BY <1>2, <1>3, <1>4, <1>5, <1>6 DEF UndoPut, QueuesOK, StatsOK, CleanUpOK, queueVars, esVars

\* The sender gives its reference up.
LEMMA TransmitDoneStep ==
  ASSUME IInv, NEW t \in Tasks, TransmitDone(t)
  PROVE  IInv'
<1> USE DEF IInv, TypeOK
<1>1. BufsOK'
  BY DropType DEF TransmitDone, BufsOK
<1>2. TasksOK' /\ SendingHasBuffer' /\ RunningHasPipe'
  BY DEF TransmitDone, GoTo, TasksOK, PCs, SendingHasBuffer, RunningHasPipe, Sending, Receiving
<1>3. SlotClaims'
  BY ClaimsKept DEF TransmitDone, GoTo, TasksOK, Claims, Creating, Deleting, pipeVars
<1> QED
  BY <1>1, <1>2, <1>3, RoutesKept
     DEF TransmitDone, PipesOK, RoutesOK, QueuesOK, StatsOK, CleanUpOK, pipeVars, routeVars, queueVars, esVars

-----------------------------------------------------------------------------
(* CFE_SB_ReceiveBuffer                                                    *)

\* A read begins on a live pipe.
LEMMA SetPipeIdStep ==
  ASSUME IInv, NEW t \in Tasks, NEW p \in PipeIds, ~Claims(t), SetPipeId(t, p)
  PROVE  IInv'
<1> USE DEF IInv, TypeOK
<1>1. PipesOK'
  BY DEF SetPipeId, PipesOK
<1>2. BufsOK'
  BY DropType DEF SetPipeId, BufsOK
<1>3. TasksOK' /\ SendingHasBuffer' /\ RunningHasPipe'
  BY DEF SetPipeId, GoTo, TasksOK, PCs, SendingHasBuffer, RunningHasPipe, Sending, Receiving
<1>4. SlotClaims'
  BY ClaimsKept DEF SetPipeId, GoTo, TasksOK, Claims, Creating, Deleting
<1> QED
  BY <1>1, <1>2, <1>3, <1>4, RoutesKept
     DEF SetPipeId, RoutesOK, QueuesOK, StatsOK, CleanUpOK, routeVars, queueVars, esVars

\* The same, for the first read of a call.
LEMMA ReceiveBeginStep ==
  ASSUME IInv, NEW t \in Tasks, NEW p \in PipeIds, ReceiveBegin(t, p)
  PROVE  IInv'
BY SetPipeIdStep DEF ReceiveBegin, Begins, Claims, Creating, Deleting

\* A task that reads has a pipe, so what it reads is a buffer.
LEMMA QueueGetStep ==
  ASSUME IInv, NEW t \in Tasks, QueueGet(t)
  PROVE  IInv'
<1> USE DEF IInv, TypeOK
<1>1. pid[t] \in PipeIds /\ queue[pid[t]] # <<>>
  BY DEF QueueGet, RunningHasPipe, Receiving
<1>2. Head(queue[pid[t]]) \in Bufs /\ Tail(queue[pid[t]]) \in Seq(Bufs)
  BY <1>1, HeadTailType
<1>3. QueuesOK'
  BY <1>1, <1>2 DEF QueueGet, QueuesOK
<1>4. TasksOK' /\ SendingHasBuffer' /\ RunningHasPipe'
  BY <1>1, <1>2 DEF QueueGet, GoTo, TasksOK, PCs, SendingHasBuffer, RunningHasPipe, Sending, Receiving
<1>5. SlotClaims'
  BY ClaimsKept DEF QueueGet, GoTo, TasksOK, Claims, Creating, Deleting, pipeVars
<1> QED
  BY <1>3, <1>4, <1>5, RoutesKept
     DEF QueueGet, PipesOK, RoutesOK, BufsOK, StatsOK, CleanUpOK, pipeVars, routeVars, bufVars, esVars

\* A read that returns nothing changes only the task.
LEMMA ReceiveNothingStep ==
  ASSUME IInv, NEW t \in Tasks, ReceiveNothing(t)
  PROVE  IInv'
<1> USE DEF IInv, TypeOK
<1>1. TasksOK' /\ SendingHasBuffer' /\ RunningHasPipe'
  BY DEF ReceiveNothing, GoTo, TasksOK, PCs, SendingHasBuffer, RunningHasPipe, Sending, Receiving
<1>2. SlotClaims'
  BY ClaimsKept DEF ReceiveNothing, GoTo, TasksOK, Claims, Creating, Deleting, pipeVars
<1> QED
  BY <1>1, <1>2, RoutesKept
     DEF ReceiveNothing, PipesOK, RoutesOK, BufsOK, QueuesOK, StatsOK, CleanUpOK,
         pipeVars, routeVars, bufVars, queueVars, esVars

\* A pipe deleted since the read is left alone.
LEMMA ExportReferenceStep ==
  ASSUME IInv, NEW t \in Tasks, ExportReference(t)
  PROVE  IInv'
<1> USE DEF IInv, TypeOK
<1> DEFINE p == pid[t]
           b == got[t]
<1>1. p \in PipeIds /\ b \in Bufs \cup {NoBuf} /\ pc[t] = "rx_export"
  BY DEF ExportReference, RunningHasPipe, Receiving, TasksOK
<1>2. \E l \in {"rx_verify", "idle"} : pc' = [pc EXCEPT ![t] = l] /\ (l = "rx_verify" => UNCHANGED pid)
  BY DEF ExportReference, GoTo
<1>3. PipesOK'
  BY <1>1, DepthDownType DEF ExportReference, PipesOK
<1>4. RoutesOK' /\ RoutesLive'
  <2>1. UNCHANGED <<pipeId, routes>> /\ (dest' = dest \/ dest' = CountDown(bufMsg[b], p))
    BY DEF ExportReference
  <2>2. CASE UNCHANGED dest
    BY <2>1, <2>2, RoutesKept DEF RoutesOK
  <2>3. CASE dest' = CountDown(bufMsg[b], p)
    <3>1. /\ dest' \in [MsgIds -> Seq(DestType)]
          /\ \A n \in MsgIds :
                /\ DOMAIN dest'[n] = DOMAIN dest[n]
                /\ Len(dest'[n]) = Len(dest[n])
                /\ \A i \in DOMAIN dest[n] : dest'[n][i].pipe = dest[n][i].pipe
      BY <2>3, CountDownType
    <3> QED
      BY <2>1, <3>1, RoutesKept DEF RoutesOK
  <2> QED
    BY <2>1, <2>2, <2>3
<1>5. BufsOK'
  BY DropType DEF ExportReference, BufsOK
<1>6. TasksOK'
  BY <1>1, <1>2 DEF ExportReference, TasksOK, PCs, Receiving
<1>7. SendingHasBuffer' /\ RunningHasPipe'
  BY <1>1, <1>2 DEF ExportReference, TasksOK, SendingHasBuffer, RunningHasPipe, Sending, Receiving
<1>8. SlotClaims'
  BY <1>1, <1>2, ClaimsKept DEF ExportReference, TasksOK, Claims, Creating, Deleting
<1> QED
  BY <1>3, <1>4, <1>5, <1>6, <1>7, <1>8 DEF ExportReference, QueuesOK, StatsOK, CleanUpOK, queueVars, esVars

\* The message is handed over.
LEMMA ReceiveAcceptStep ==
  ASSUME IInv, NEW t \in Tasks, ReceiveAccept(t)
  PROVE  IInv'
<1> USE DEF IInv, TypeOK
<1>1. TasksOK' /\ SendingHasBuffer' /\ RunningHasPipe'
  BY DEF ReceiveAccept, GoTo, TasksOK, PCs, SendingHasBuffer, RunningHasPipe, Sending, Receiving
<1>2. SlotClaims'
  BY ClaimsKept DEF ReceiveAccept, GoTo, TasksOK, Claims, Creating, Deleting, pipeVars
<1> QED
  BY <1>1, <1>2, RoutesKept
     DEF ReceiveAccept, PipesOK, RoutesOK, BufsOK, QueuesOK, StatsOK, CleanUpOK,
         pipeVars, routeVars, bufVars, queueVars, esVars

\* A rejected message starts another read, on a pipe that is still there.
LEMMA ReceiveRejectStep ==
  ASSUME IInv, NEW t \in Tasks, ReceiveReject(t)
  PROVE  IInv'
<1> USE DEF IInv, TypeOK
<1>1. CASE Match(pid[t])
  BY <1>1, SetPipeIdStep DEF ReceiveReject, Match, Claims, Creating, Deleting
<1>2. CASE ~Match(pid[t])
  <2>1. TasksOK' /\ SendingHasBuffer' /\ RunningHasPipe'
    BY <1>2 DEF ReceiveReject, GoTo, TasksOK, PCs, SendingHasBuffer, RunningHasPipe, Sending, Receiving
  <2>2. SlotClaims'
    BY <1>2, ClaimsKept DEF ReceiveReject, GoTo, TasksOK, Claims, Creating, Deleting, pipeVars
  <2> QED
    BY <1>2, <2>1, <2>2, RoutesKept
       DEF ReceiveReject, PipesOK, RoutesOK, BufsOK, QueuesOK, StatsOK, CleanUpOK,
           pipeVars, routeVars, bufVars, queueVars, esVars
<1> QED
  BY <1>1, <1>2

-----------------------------------------------------------------------------
(* CFE_ES_CleanUpApp                                                       *)

\* An application that exits claims nothing any more.
LEMMA ExitStep ==
  ASSUME IInv, NEW t \in Tasks, Exit(t)
  PROVE  IInv'
<1> USE DEF IInv, TypeOK
<1>1. CleanUpOK'
  BY DEF Exit, CleanUpOK
<1>2. TasksOK' /\ SendingHasBuffer' /\ RunningHasPipe'
  BY DEF Exit, GoTo, TasksOK, PCs, SendingHasBuffer, RunningHasPipe, Sending, Receiving
<1>3. SlotClaims'
  BY ClaimsKept DEF Exit, GoTo, TasksOK, Claims, Creating, Deleting, pipeVars
<1> QED
  BY <1>1, <1>2, <1>3, RoutesKept
     DEF Exit, PipesOK, RoutesOK, BufsOK, QueuesOK, StatsOK, pipeVars, routeVars, bufVars, queueVars

\* ES picks an application.
LEMMA CleanUpBeginStep ==
  ASSUME IInv, NEW a \in Apps, CleanUpBegin(a)
  PROVE  IInv'
<1> USE TaskAssumption DEF IInv, TypeOK
<1>1. CleanUpOK'
  BY DEF CleanUpBegin, CleanUpOK
<1>2. TasksOK' /\ SendingHasBuffer' /\ RunningHasPipe'
  BY DEF CleanUpBegin, GoTo, TasksOK, PCs, Cleaning, SendingHasBuffer, RunningHasPipe, Sending, Receiving
<1>3. SlotClaims'
  BY ClaimsKept DEF CleanUpBegin, GoTo, TasksOK, Claims, Creating, Deleting, pipeVars
<1> QED
  BY <1>1, <1>2, <1>3, RoutesKept
     DEF CleanUpBegin, PipesOK, RoutesOK, BufsOK, QueuesOK, StatsOK, pipeVars, routeVars, bufVars, queueVars

\* The list holds IDs of pipes, and perhaps RESERVED.
LEMMA CleanUpListStep ==
  ASSUME IInv, CleanUpList
  PROVE  IInv'
<1> USE TaskAssumption DEF IInv, TypeOK
<1>1. CleanUpOK'
  BY DEF CleanUpList, CleanUpOK, PipesOK
<1>2. TasksOK' /\ SendingHasBuffer' /\ RunningHasPipe'
  BY DEF CleanUpList, GoTo, TasksOK, PCs, Cleaning, SendingHasBuffer, RunningHasPipe, Sending, Receiving
<1>3. SlotClaims'
  BY ClaimsKept DEF CleanUpList, GoTo, TasksOK, Claims, Creating, Deleting, pipeVars
<1> QED
  BY <1>1, <1>2, <1>3, RoutesKept
     DEF CleanUpList, PipesOK, RoutesOK, BufsOK, QueuesOK, StatsOK, pipeVars, routeVars, bufVars, queueVars

\* ES deletes a pipe only if it is still the one it listed.
LEMMA CleanUpPipeStep ==
  ASSUME IInv, NEW p \in delList, CleanUpPipe(p)
  PROVE  IInv'
<1> USE TaskAssumption DEF IInv, TypeOK
<1>1. CleanUpOK'
  BY DEF CleanUpPipe, CleanUpOK
<1>2. CASE Match(p) /\ pipeApp[SlotOf(p)] = victim
  <2>1. ~Claims(ES)
    BY DEF CleanUpPipe, Claims, Creating, Deleting
  <2>2. p \in PipeIds /\ TearDown(ES, p)
    BY <1>2 DEF CleanUpPipe, Match
  <2> QED
    BY <1>1, <1>2, <2>1, <2>2, TearDownStep
<1>3. CASE ~(Match(p) /\ pipeApp[SlotOf(p)] = victim)
  <2>1. UNCHANGED <<pipeVars, routeVars, bufVars, queueVars, taskVars, pipesInUse, subsInUse, creator>>
    BY <1>3 DEF CleanUpPipe
  <2>2. SlotClaims'
    BY <2>1, ClaimsKept DEF Claims, pipeVars, taskVars
  <2> QED
    BY <1>1, <2>1, <2>2, RoutesKept
       DEF PipesOK, RoutesOK, BufsOK, QueuesOK, TasksOK, StatsOK, SendingHasBuffer, RunningHasPipe,
           pipeVars, routeVars, bufVars, queueVars, taskVars
<1> QED
  BY <1>2, <1>3

\* The zero-copy buffers are released.
LEMMA CleanUpZeroCopyStep ==
  ASSUME IInv, CleanUpZeroCopy
  PROVE  IInv'
<1> USE TaskAssumption DEF IInv, TypeOK
<1>1. BufsOK'
  BY DropType DEF CleanUpZeroCopy, BufsOK
<1>2. TasksOK' /\ SendingHasBuffer' /\ RunningHasPipe'
  BY DEF CleanUpZeroCopy, GoTo, TasksOK, PCs, Cleaning, SendingHasBuffer, RunningHasPipe, Sending, Receiving
<1>3. SlotClaims'
  BY ClaimsKept DEF CleanUpZeroCopy, GoTo, TasksOK, Claims, Creating, Deleting, pipeVars
<1> QED
  BY <1>1, <1>2, <1>3, RoutesKept
     DEF CleanUpZeroCopy, PipesOK, RoutesOK, QueuesOK, StatsOK, CleanUpOK, pipeVars, routeVars, queueVars, esVars

\* A deleted task claims nothing any more.
LEMMA CleanUpTasksStep ==
  ASSUME IInv, CleanUpTasks
  PROVE  IInv'
<1> USE TaskAssumption DEF IInv, TypeOK
<1>1. CleanUpOK'
  BY DEF CleanUpTasks, CleanUpOK
<1>2. TasksOK'
  BY DEF CleanUpTasks, TasksOK, PCs
<1>3. SendingHasBuffer' /\ RunningHasPipe'
  BY DEF CleanUpTasks, TasksOK, SendingHasBuffer, RunningHasPipe, Sending, Receiving
<1>4. SlotClaims'
  BY ClaimsKept DEF CleanUpTasks, TasksOK, Claims, Creating, Deleting, pipeVars
<1> QED
  BY <1>1, <1>2, <1>3, <1>4, RoutesKept
     DEF CleanUpTasks, PipesOK, RoutesOK, BufsOK, QueuesOK, StatsOK, pipeVars, routeVars, bufVars, queueVars

-----------------------------------------------------------------------------
(* The theorems                                                            *)

\* The bus starts in the invariant.
LEMMA InitSafe == Init => IInv
<1> SUFFICES ASSUME Init PROVE IInv
  OBVIOUS
<1> USE DEF Init
<1>1. PipesOK /\ CleanUpOK
  BY SerialAssumption DEF PipesOK, CleanUpOK
<1>2. RoutesOK /\ RoutesLive
  BY RouteAssumption DEF RoutesOK, RoutesLive
<1>3. BufsOK
  BY DEF BufsOK, UseMax
<1>4. QueuesOK /\ StatsOK
  BY TaskAssumption DEF QueuesOK, StatsOK
<1>5. TasksOK
  BY DEF TasksOK, PCs
<1>6. SendingHasBuffer /\ RunningHasPipe /\ SlotClaims
  BY DEF SendingHasBuffer, RunningHasPipe, SlotClaims, Claims, Sending, Receiving, Creating, Deleting
<1> QED
  BY <1>1, <1>2, <1>3, <1>4, <1>5, <1>6 DEF IInv, TypeOK

\* Every step keeps the invariant.
LEMMA NextSafe == IInv /\ [Next]_vars => IInv'
<1> SUFFICES ASSUME IInv, [Next]_vars PROVE IInv'
  OBVIOUS
<1>1. ASSUME NEW t \in Tasks, CallBegins(t) PROVE IInv'
  BY <1>1, CreateReserveStep, AllocateBeginStep, ReleaseBufferStep, ExitStep, DeleteBeginStep,
     ReceiveBeginStep, SetPipeOptsStep, UnsubscribeStep, SubscribeStep, TransmitBufferStep
     DEF CallBegins
<1>2. ASSUME NEW t \in Tasks, Proceed(t) PROVE IInv'
  BY <1>2, CreateQueueStep, CreateFinishStep, CreateAbortStep, DrainReleaseStep, DrainGetStep,
     QueueDeleteStep, DeleteFinishStep, AllocateStep, FindDestinationsStep, QueuePutStep,
     UndoPutStep, TransmitDoneStep, QueueGetStep, ExportReferenceStep, ReceiveAcceptStep,
     ReceiveRejectStep
     DEF Proceed
<1>3. ASSUME NEW t \in Tasks, ReceiveNothing(t) PROVE IInv'
  BY <1>3, ReceiveNothingStep
<1>4. CASE CleanUp
  BY <1>4, CleanUpBeginStep, CleanUpListStep, CleanUpPipeStep, CleanUpZeroCopyStep, CleanUpTasksStep
     DEF CleanUp
<1>5. ASSUME NEW m \in MsgIds, NEW p \in PipeIds, NEW on \in BOOLEAN, RouteCmd(m, p, on)
      PROVE  IInv'
  BY <1>5, RouteCmdStep
<1>6. CASE UNCHANGED vars
  BY <1>6, RoutesKept, ClaimsKept
     DEF vars, pipeVars, routeVars, bufVars, queueVars, taskVars, esVars, IInv, TypeOK, PipesOK,
         RoutesOK, BufsOK, QueuesOK, TasksOK, StatsOK, CleanUpOK, SendingHasBuffer, RunningHasPipe, Claims
<1> QED
  BY <1>1, <1>2, <1>3, <1>4, <1>5, <1>6 DEF Next

\* Every state of the bus satisfies the inductive invariant.
THEOREM InductiveInvariant == Spec => []IInv
  BY InitSafe, NextSafe, PTL DEF Spec

\* Every variable keeps its type: no call ever leaves a table of the bus with
\* a value its code does not expect.
THEOREM TypeCorrect == Spec => []TypeOK
<1>1. IInv => TypeOK
  BY DEF IInv
<1> QED
  BY <1>1, InductiveInvariant, PTL

\* Every destination of every route is a pipe that exists, whatever the order
\* of the calls of CFE_SB_SubscribeFull and CFE_SB_DeletePipeFull.
THEOREM RoutesAlwaysLive == Spec => []RoutesLive
<1>1. IInv => RoutesLive
  BY DEF IInv
<1> QED
  BY <1>1, InductiveInvariant, PTL

\* The slot a call reserved while it went outside the lock is its own when it
\* comes back.
THEOREM SlotsNeverShared == Spec => []SlotClaims
<1>1. IInv => SlotClaims
  BY DEF IInv
<1> QED
  BY <1>1, InductiveInvariant, PTL

-----------------------------------------------------------------------------
(* The second part: what the bus gives out.  Its invariant.                *)

\* A task that has counted its writes and has not finished making them.
Writing == {"tx_put", "tx_undo"}
Allocating == {"allocate", "tx_allocate"}
Ended == {"exited", "dead"}

\* What the place a task has come to in its call says of its variables.
CallOK(t) ==
  /\ todo[t] # {} => pc[t] \in Writing
  /\ \A v, w \in todo[t] : v[2] = w[2] => v = w
  /\ got[t] # NoBuf => pc[t] \in {"drain", "rx_export"}
  /\ pc[t] = "rx_export" => got[t] # NoBuf
  /\ pc[t] \in Allocating \cup Ended => own[t] = NoBuf
  /\ pc[t] \in Ended => held[t] = NoBuf
  /\ pc[t] \in Allocating \cup Creating => opApp[t] = AppOf[t]
  /\ pc[t] \in Receiving => creator[pid[t]] = t
  /\ pc[t] \in {"idle"} \cup Deleting \cup Cleaning \/ t # ES
  /\ pc[t] \in Cleaning => t = ES
CallsOK == \A t \in Tasks : CallOK(t)

\* No task of an application acts once its clean-up has begun.
AppsOK ==
  /\ \A t \in Tasks : appState[AppOf[t]] \in {"cleaning", "gone"} => pc[t] \in Ended
  /\ \A a \in Apps : appState[a] \in {"cleaning", "gone"} => a \in Doomed
  /\ pc[ES] # "idle" => victim \in Apps /\ appState[victim] = "cleaning"

\* A pipe ID that has not been the name of a pipe yet.
Fresh(p) == p > lastPipe \/ \E t \in Tasks : pc[t] \in Creating /\ pid[t] = p

\* Nobody knows a pipe that is still to be made.
FreshOK ==
  /\ \A t \in Tasks : pid[t] <= lastPipe
  /\ \A p \in PipeIds : Fresh(p) =>
       /\ ~Match(p)
       /\ queue[p] = <<>>
       /\ \A t \in Tasks : ~Pending(t, p) /\ (pc[t] \notin Creating => pid[t] # p)

\* A pipe that is still to be made, or is being read, keeps no last buffer.
ReadOK ==
  \A t \in Tasks :
    /\ pc[t] \in Creating => lastBuf[SlotOf(pid[t])] = NoBuf /\ curDepth[SlotOf(pid[t])] = 0
    /\ pc[t] \in {"rx_get", "rx_export"} /\ Match(pid[t]) => lastBuf[SlotOf(pid[t])] = NoBuf

\* No queue is longer than OSAL allows.
LengthOK == \A p \in PipeIds : qcap[p] <= MaxDepth /\ Len(queue[p]) <= MaxDepth

\* What the calls in progress rely on.
CallInv == CallsOK /\ AppsOK /\ FreshOK /\ ReadOK /\ LengthOK

\* A pipe whose queue may hold messages: it exists, or a call is emptying it.
Live(p) == Match(p) \/ \E t \in Tasks : pc[t] \in {"drain", "queue_delete"} /\ pid[t] = p

\* What is on a queue is on the queue of such a pipe, which is its creator's.
LiveOK ==
  \A p \in PipeIds :
    /\ queue[p] # <<>> => Live(p)
    /\ Live(p) => pipeApp[SlotOf(p)] = AppOf[creator[p]]

\* So is every queue that can be written to, once its pipe is made.
MakersOK ==
  \A p \in PipeIds : qcap[p] > 0 => Live(p) \/ \E t \in Tasks : pc[t] = "created" /\ pid[t] = p

\* A queue that is gone does not come back, so it loses nothing more.
GoneOK == \A p \in PipeIds : lost[p] # <<>> => ~Live(p) /\ ~Fresh(p)

\* Only senders send.
SendingOK == \A t \in Tasks : pc[t] \in Sending \cup {"tx_allocate"} => t \in Senders

\* What comes after the drain is one message of each task that was about to write.
LateOK ==
  \A t \in Tasks : pc[t] = "queue_delete" =>
    Len(queue[pid[t]]) + Cardinality({u \in Tasks : Pending(u, pid[t])}) <= Cardinality(Senders)

\* Whose the queues are, and how much goes with them.
QueueInv == LiveOK /\ MakersOK /\ GoneOK /\ SendingOK /\ LateOK /\ FewLost

\* A buffer is in one task's hands, and on no list of the bus but its own.
HandsOK ==
  /\ \A b \in Bufs : list[b] = "zerocopy" => use[b] = 1
  /\ \A t, u \in Tasks : own[t] = own[u] /\ own[t] # NoBuf => t = u
  /\ \A t \in Tasks : own[t] # NoBuf =>
       IF pc[t] \in Writing THEN bufMsg[own[t]] = msg[t]
       ELSE list[own[t]] = "zerocopy" /\ bufApp[own[t]] = AppOf[t]

\* The message a reader was given is the last buffer of a pipe of its own.
HeldOK ==
  \A t \in Tasks : held[t] # NoBuf =>
    \E p \in PipeIds : creator[p] = t /\ Match(p) /\ lastBuf[SlotOf(p)] = held[t]

\* The references to b that its use count has to account for.
Owed(b) == References(b) + Cardinality(LostOf(b))

\* The use counts account for every reference.
UseInv == UseCountAccounted /\ HandsOK

\* Whose a slot is.
OwnersOK ==
  /\ \A s \in Slots : pipeId[s] \in PipeIds =>
       SlotOf(pipeId[s]) = s /\ pipeApp[s] = AppOf[creator[pipeId[s]]]
  /\ \A t \in Tasks :
       /\ pc[t] \in Creating => pipeApp[SlotOf(pid[t])] = NoApp
       /\ pc[t] \in Deleting => pipeApp[SlotOf(pid[t])] = IF t = ES THEN victim ELSE AppOf[t]

\* ES has not come to slot s yet, or is at work on it.
InHand(s) ==
  /\ pc[ES] # "clean_tasks"
  /\ \/ pc[ES] = "clean_list" \/ pipeId[s] \in delList
     \/ pc[ES] \in Deleting /\ SlotOf(pid[ES]) = s

\* How far the clean-up of an application has come.
CleanOK ==
  /\ pc[ES] = "idle" => victim = NoApp
  /\ \A s \in Slots, a \in Apps :
       pipeId[s] # FREE /\ pipeApp[s] = a => appState[a] # "gone" /\ (victim = a => InHand(s))
  /\ \A b \in Bufs, a \in Apps :
       list[b] = "zerocopy" /\ bufApp[b] = a =>
         appState[a] # "gone" /\ ~ (victim = a /\ pc[ES] = "clean_tasks")

\* Nothing is left: no slot, and nothing of an application that has gone.
LostInv == ReservedHasOwner /\ OwnersOK /\ CleanOK

\* ES deletes applications only when they have exited.
Orderly == ~Forced

\* A use count has room for a reference from each destination of a message.
RoomForDests == MaxDests < UseMax

-----------------------------------------------------------------------------
(* What the calls in progress rely on                                      *)

\* The task that acts is where its call says, and everyone else where he was.
LEMMA CallsFrame ==
  ASSUME CallsOK, NEW t \in Tasks, CallOK(t)',
         \A u \in Tasks : u # t =>
           /\ UNCHANGED <<pc[u], opApp[u], pid[u], own[u], got[u], todo[u]>>
           /\ held'[u] = held[u] \/ held'[u] = NoBuf
           /\ creator'[pid[u]] = creator[pid[u]] \/ pc[u] \notin Receiving
  PROVE  CallsOK'
BY DEF CallsOK, CallOK

\* A step that makes no new pipe known.
LEMMA FreshFrame ==
  ASSUME FreshOK, NEW t \in Tasks, UNCHANGED <<lastPipe, queue>>,
         \A u \in Tasks, p \in PipeIds : Pending(u, p)' => Pending(u, p) \/ Match(p),
         \A p \in PipeIds : Match(p)' => Match(p),
         \A u \in Tasks : u # t => UNCHANGED <<pc[u], pid[u]>>,
         pc'[t] \in Creating => pc[t] \in Creating /\ pid'[t] = pid[t],
         \/ pid'[t] = FREE
         \/ pid'[t] = pid[t] /\ (pc[t] \notin Creating \/ pc'[t] \in Creating)
         \/ Match(pid'[t])
         \/ Pending(t, pid'[t]),
         pid'[t] \in PipeIds \cup {FREE}, lastPipe \in Nat
  PROVE  FreshOK'
<1>1. \A p \in PipeIds : Fresh(p)' => Fresh(p)
  BY DEF Fresh
<1>2. ASSUME NEW u \in Tasks PROVE pid'[u] <= lastPipe'
  <2>1. \A p \in PipeIds : ~Fresh(p) => p <= lastPipe
    BY DEF Fresh, PipeIds
  <2>2. Match(pid'[t]) \/ Pending(t, pid'[t]) => pid'[t] = FREE \/ pid'[t] <= lastPipe
    BY <2>1 DEF FreshOK
  <2> QED
    BY <2>2 DEF FreshOK, FREE
<1>3. ASSUME NEW p \in PipeIds, Fresh(p)'
      PROVE  /\ ~Match(p)' /\ queue'[p] = <<>>
             /\ \A u \in Tasks : ~Pending(u, p)' /\ (pc'[u] \notin Creating => pid'[u] # p)
  BY <1>1, <1>3 DEF FreshOK, PipeIds, FREE
<1> QED
  BY <1>2, <1>3 DEF FreshOK

\* A step that starts no creation and no read, and changes no slot of those there are.
LEMMA ReadFrame ==
  ASSUME ReadOK, NEW t \in Tasks,
         \A u \in Tasks : u # t => UNCHANGED <<pc[u], pid[u]>>,
         \A p \in PipeIds : Match(p)' => Match(p),
         pc'[t] \in Creating => pc[t] \in Creating /\ pid'[t] = pid[t],
         pc'[t] \in {"rx_get", "rx_export"} => pc[t] \in {"rx_get", "rx_export"} /\ pid'[t] = pid[t],
         UNCHANGED <<lastBuf, curDepth>>
  PROVE  ReadOK'
<1> SUFFICES ASSUME NEW u \in Tasks
             PROVE  /\ pc'[u] \in Creating => lastBuf'[SlotOf(pid'[u])] = NoBuf /\ curDepth'[SlotOf(pid'[u])] = 0
                    /\ pc'[u] \in {"rx_get", "rx_export"} /\ Match(pid[u])' => lastBuf'[SlotOf(pid'[u])] = NoBuf
  BY DEF ReadOK
<1>1. Match(pid[u])' /\ pid'[u] = pid[u] => Match(pid[u])
  BY DEF Match
<1> QED
  BY <1>1 DEF ReadOK

\* A step of a task that acts, which is never one of an application being cleaned up.
LEMMA AppsFrame ==
  ASSUME AppsOK, NEW t \in Tasks, pc[t] \notin Ended, UNCHANGED <<appState, victim>>,
         \A u \in Tasks : u # t => UNCHANGED pc[u],
         t = ES => pc[t] # "idle"
  PROVE  AppsOK'
BY TaskAssumption DEF AppsOK

\* A task that acts still has its application ID.
LEMMA AppIdFound ==
  ASSUME AppsOK, CleanUpOK, NEW t \in Tasks, pc[t] \notin Ended
  PROVE  AppIdOf(t) = AppOf[t] /\ AppOf[t] \in Apps /\ appState[AppOf[t]] \in {"running", "exiting"}
BY TaskAssumption DEF AppsOK, CleanUpOK, AppIdOf

\* The slot FindNext gives is free, and its serial is new.
LEMMA NextIsNew ==
  ASSUME PipesOK, FindNext \in PipeIds
  PROVE  /\ SlotOf(FindNext) \in Slots /\ pipeId[SlotOf(FindNext)] = FREE
         /\ FindNext > lastPipe
<1> DEFINE free == {k \in lastPipe + 1 .. lastPipe + MaxPipes : pipeId[SlotOf(k)] = FREE}
<1>1. free \subseteq Nat /\ free # {}
  BY PipesAssumption DEF FindNext, PipesOK, PipeIds
<1>2. FindNext \in free
  BY <1>1, Least DEF FindNext
<1> QED
  BY <1>2, SlotInRange DEF PipesOK, PipeIds

\* The pipe to be made has an ID that nobody knows yet.
LEMMA CreateReserveCalls ==
  ASSUME IInv, CallInv, NEW t \in Tasks, CreateReserve(t)
  PROVE  CallInv'
<1> USE DEF IInv, TypeOK, CallInv
<1> DEFINE n == FindNext
           s == SlotOf(n)
<1>1. n \in PipeIds /\ n > lastPipe /\ s \in Slots /\ pipeId[s] = FREE
  BY NextIsNew DEF CreateReserve
<1>2. /\ pipeId' = [pipeId EXCEPT ![s] = RESERVED]
      /\ lastBuf' = [lastBuf EXCEPT ![s] = NoBuf] /\ curDepth' = [curDepth EXCEPT ![s] = 0]
      /\ pid' = [pid EXCEPT ![t] = n] /\ pc' = [pc EXCEPT ![t] = "create"]
      /\ opApp' = [opApp EXCEPT ![t] = AppIdOf(t)] /\ lastPipe' = n
      /\ pc[t] = "idle" /\ t # ES
  BY DEF CreateReserve, GoTo, Begins
<1>3. UNCHANGED <<queueVars, own, got, todo, held, creator, esVars>>
  BY DEF CreateReserve
<1> HIDE DEF n, s
<1>4. CallsOK'
  <2>1. CallOK(t)
    BY DEF CallsOK
  <2>2. opApp'[t] = AppOf[t]
    BY <1>2, AppIdFound DEF TasksOK, Ended
  <2>3. pc'[t] = "create"
    BY <1>2 DEF TasksOK
  <2>4. CallOK(t)'
    BY <1>2, <1>3, <2>1, <2>2, <2>3
       DEF CallOK, Writing, Allocating, Ended, Receiving, Creating, Deleting, Cleaning
  <2> QED
    BY <1>2, <1>3, <2>4, CallsFrame DEF TasksOK
<1>5. AppsOK'
  BY <1>2, <1>3, AppsFrame DEF TasksOK, Ended, esVars
<1>6. FreshOK'
  <2>1. \A p \in PipeIds : Fresh(p)' => Fresh(p)
    BY <1>1, <1>2 DEF Fresh, TasksOK, PipeIds, PipesOK
  <2>2. ASSUME NEW u \in Tasks PROVE pid'[u] <= lastPipe'
    <3>1. pid[u] <= lastPipe /\ pid[u] \in Int /\ lastPipe \in Int /\ n \in Int
      BY <1>1 DEF FreshOK, PipeIds, TasksOK, PipesOK, FREE
    <3>2. pid'[u] = n \/ pid'[u] = pid[u]
      BY <1>2 DEF TasksOK
    <3> QED
      BY <1>1, <1>2, <3>1, <3>2
  <2>3. ASSUME NEW p \in PipeIds, Fresh(p)'
        PROVE  /\ ~Match(p)' /\ queue'[p] = <<>>
               /\ \A u \in Tasks : ~Pending(u, p)' /\ (pc'[u] \notin Creating => pid'[u] # p)
    <3>1. ~Match(p)'
      BY <1>1, <1>2, <2>1, <2>3 DEF FreshOK, Match, PipesOK, RESERVED, PipeIds
    <3> QED
      BY <1>2, <1>3, <2>1, <2>3, <3>1 DEF FreshOK, Pending, queueVars, TasksOK, Creating
  <2> QED
    BY <2>2, <2>3 DEF FreshOK
<1>7. ReadOK'
  <2>1. \A p \in PipeIds : Match(p)' => Match(p)
    BY <1>1, <1>2 DEF Match, PipesOK, PipeIds, RESERVED
  <2>2. ASSUME NEW u \in Tasks, pc'[u] \in Creating
        PROVE  lastBuf'[SlotOf(pid'[u])] = NoBuf /\ curDepth'[SlotOf(pid'[u])] = 0
    <3>1. CASE u = t
      BY <1>1, <1>2, <3>1 DEF TasksOK, PipesOK, s
    <3>2. CASE u # t
      <4>1. pc[u] \in Creating /\ pid'[u] = pid[u] /\ pid[u] \in PipeIds
        BY <1>2, <2>2, <3>2 DEF TasksOK, SlotClaims, Claims
      <4>2. SlotOf(pid[u]) \in Slots /\ SlotOf(pid[u]) # s
        BY <1>1, <4>1, SlotInRange DEF SlotClaims, Claims, FREE, RESERVED, PipeIds
      <4> QED
        BY <1>1, <1>2, <4>1, <4>2 DEF ReadOK, PipesOK
    <3> QED
      BY <3>1, <3>2
  <2>3. ASSUME NEW u \in Tasks, pc'[u] \in {"rx_get", "rx_export"}, Match(pid[u])'
        PROVE  lastBuf'[SlotOf(pid'[u])] = NoBuf
    <3>1. pc[u] = pc'[u] /\ pid'[u] = pid[u] /\ u # t
      BY <1>2, <2>3 DEF TasksOK
    <3>2. Match(pid[u]) /\ pid[u] \in PipeIds
      BY <2>1, <2>3, <3>1 DEF Match
    <3>3. lastBuf[SlotOf(pid[u])] = NoBuf /\ SlotOf(pid[u]) \in Slots
      BY <2>3, <3>1, <3>2, SlotInRange DEF ReadOK, PipeIds
    <3> QED
      BY <1>1, <1>2, <3>1, <3>3 DEF PipesOK
  <2> QED
    BY <2>2, <2>3 DEF ReadOK
<1>8. LengthOK'
  BY <1>3 DEF LengthOK, queueVars
<1> QED
  BY <1>4, <1>5, <1>6, <1>7, <1>8

\* The queue made for a pipe is no deeper than OSAL allows.
LEMMA CreateQueueCalls ==
  ASSUME IInv, CallInv, NEW t \in Tasks, CreateQueue(t)
  PROVE  CallInv'
<1> USE DEF IInv, TypeOK, CallInv
<1>1. pc[t] = "create" /\ \E l \in {"created", "create_failed"} : pc' = [pc EXCEPT ![t] = l]
  BY DEF CreateQueue, GoTo
<1>2. UNCHANGED <<pipeVars, routeVars, bufVars, queue, opApp, pid, msg, own, got,
                 todo, held, creator, esVars>>
  BY DEF CreateQueue
<1>3. CallsOK'
  <2>1. CallOK(t)
    BY DEF CallsOK
  <2>2. CallOK(t)'
    BY <1>1, <1>2, <2>1 DEF TasksOK, CallOK, Writing, Allocating, Ended, Receiving, Creating, Deleting, Cleaning
  <2> QED
    BY <1>1, <1>2, <2>2, CallsFrame DEF TasksOK
<1>4. AppsOK'
  BY <1>1, <1>2, AppsFrame DEF TasksOK, Ended, esVars
<1>5. FreshOK'
  BY <1>1, <1>2, FreshFrame DEF TasksOK, PipesOK, Creating, Match, Pending, pipeVars
<1>6. ReadOK'
  BY <1>1, <1>2, ReadFrame DEF TasksOK, Creating, Match, pipeVars
<1>7. LengthOK'
  <2>1. pid[t] \in PipeIds
    BY <1>1 DEF SlotClaims, Claims, Creating
  <2>2. qcap' = qcap \/ \E d \in 1 .. MaxDepth : qcap' = [qcap EXCEPT ![pid[t]] = d]
    BY DepthAssumption DEF CreateQueue
  <2>3. \A p \in PipeIds : qcap'[p] = qcap[p] \/ qcap'[p] <= MaxDepth
    BY <2>1, <2>2, DepthAssumption DEF QueuesOK
  <2> QED
    BY <1>2, <2>3 DEF LengthOK
<1> QED
  BY <1>3, <1>4, <1>5, <1>6, <1>7

\* The pipe is made: it matches its ID from now on, and its queue is empty.
LEMMA CreateFinishCalls ==
  ASSUME IInv, CallInv, NEW t \in Tasks, CreateFinish(t)
  PROVE  CallInv'
<1> USE DEF IInv, TypeOK, CallInv
<1> DEFINE p == pid[t]
<1>1. /\ pc[t] = "created" /\ p \in PipeIds /\ SlotOf(p) \in Slots
      /\ pipeId[SlotOf(p)] = RESERVED /\ Claims(t)
  BY SlotInRange DEF CreateFinish, SlotClaims, Claims, Creating, PipeIds
<1>2. /\ pc' = [pc EXCEPT ![t] = "idle"] /\ pid' = [pid EXCEPT ![t] = FREE]
      /\ pipeId' = [pipeId EXCEPT ![SlotOf(p)] = p] /\ creator' = [creator EXCEPT ![p] = t]
      /\ opApp' = [opApp EXCEPT ![t] = NoApp]
      /\ UNCHANGED <<curDepth, lastBuf, lastPipe, bufVars, queueVars, own, got, todo, held, esVars>>
  BY DEF CreateFinish, GoTo
<1>3. Fresh(p)
  BY <1>1 DEF Fresh, Creating
<1>4. \A u \in Tasks : u # t /\ Claims(u) => SlotOf(pid[u]) # SlotOf(p)
  BY <1>1 DEF SlotClaims
<1> HIDE DEF p
<1>5. CallsOK'
  <2>1. CallOK(t)
    BY DEF CallsOK
  <2>2. CallOK(t)'
    BY <1>1, <1>2, <2>1 DEF TasksOK, CallOK, Writing, Allocating, Ended, Receiving, Creating, Deleting, Cleaning
  <2>3. \A u \in Tasks : u # t => creator'[pid[u]] = creator[pid[u]] \/ pc[u] \notin Receiving
    BY <1>1, <1>2, <1>3 DEF FreshOK, Receiving, Creating
  <2> QED
    BY <1>1, <1>2, <2>2, <2>3, CallsFrame DEF TasksOK
<1>6. AppsOK'
  BY <1>1, <1>2, AppsFrame DEF TasksOK, Ended, esVars
<1>7. ASSUME NEW q \in PipeIds, Fresh(q)' PROVE Fresh(q) /\ q # p
  <2>1. p <= lastPipe
    BY DEF FreshOK, p
  <2>2. q > lastPipe \/ \E u \in Tasks : u # t /\ pc[u] \in Creating /\ pid[u] = q
    BY <1>2, <1>7 DEF Fresh, TasksOK, Creating
  <2>3. ASSUME NEW u \in Tasks, u # t, pc[u] \in Creating PROVE pid[u] # p
    BY <1>4, <2>3 DEF Claims
  <2> QED
    BY <1>1, <2>1, <2>2, <2>3 DEF Fresh, PipesOK, PipeIds
<1>8. FreshOK'
  <2>1. ASSUME NEW u \in Tasks PROVE pid'[u] <= lastPipe'
    BY <1>2 DEF FreshOK, TasksOK, PipesOK, FREE
  <2>2. ASSUME NEW q \in PipeIds, Fresh(q)'
        PROVE  /\ ~Match(q)' /\ queue'[q] = <<>>
               /\ \A u \in Tasks : ~Pending(u, q)' /\ (pc'[u] \notin Creating => pid'[u] # q)
    <3>1. Fresh(q) /\ q # p
      BY <1>7, <2>2
    <3>2. ~Match(q)'
      BY <1>1, <1>2, <3>1 DEF FreshOK, Match, PipesOK
    <3> QED
      BY <1>1, <1>2, <3>1, <3>2 DEF FreshOK, Pending, queueVars, TasksOK, PipeIds, FREE
  <2> QED
    BY <2>1, <2>2 DEF FreshOK
<1>9. ReadOK'
  <2>1. ASSUME NEW u \in Tasks, pc'[u] \in Creating
        PROVE  lastBuf'[SlotOf(pid'[u])] = NoBuf /\ curDepth'[SlotOf(pid'[u])] = 0
    BY <1>2, <2>1 DEF ReadOK, TasksOK, Creating
  <2>2. ASSUME NEW u \in Tasks, pc'[u] \in {"rx_get", "rx_export"}, Match(pid[u])'
        PROVE  lastBuf'[SlotOf(pid'[u])] = NoBuf
    <3>1. pc[u] = pc'[u] /\ pid'[u] = pid[u] /\ u # t
      BY <1>2, <2>2 DEF TasksOK
    <3>2. pid[u] # p /\ pid[u] \in PipeIds
      BY <1>1, <1>3, <2>2, <3>1 DEF FreshOK, Creating, Match
    <3>3. Match(pid[u])
      BY <1>1, <1>2, <2>2, <3>1, <3>2 DEF Match, PipesOK
    <3> QED
      BY <1>2, <2>2, <3>1, <3>3 DEF ReadOK
  <2> QED
    BY <2>1, <2>2 DEF ReadOK
<1>10. LengthOK'
  BY <1>2 DEF LengthOK, queueVars
<1> QED
  BY <1>5, <1>6, <1>8, <1>9, <1>10

\* The pipe is not made: its ID is given to no one else.
LEMMA CreateAbortCalls ==
  ASSUME IInv, CallInv, NEW t \in Tasks, CreateAbort(t)
  PROVE  CallInv'
<1> USE DEF IInv, TypeOK, CallInv
<1>1. pc[t] = "create_failed" /\ pid[t] \in PipeIds /\ SlotOf(pid[t]) \in Slots
  BY SlotInRange DEF CreateAbort, SlotClaims, Claims, Creating, PipeIds
<1>2. /\ pc' = [pc EXCEPT ![t] = "idle"] /\ pid' = [pid EXCEPT ![t] = FREE]
      /\ pipeId' = [pipeId EXCEPT ![SlotOf(pid[t])] = FREE]
      /\ opApp' = [opApp EXCEPT ![t] = NoApp]
      /\ UNCHANGED <<curDepth, lastBuf, lastPipe, bufVars, queueVars, own, got, todo, held, creator, esVars>>
  BY DEF CreateAbort, GoTo
<1>3. \A p \in PipeIds : Match(p)' => Match(p)
  BY <1>1, <1>2 DEF Match, PipesOK, PipeIds, FREE
<1>4. CallsOK'
  <2>1. CallOK(t)
    BY DEF CallsOK
  <2>2. CallOK(t)'
    BY <1>1, <1>2, <2>1 DEF TasksOK, CallOK, Writing, Allocating, Ended, Receiving, Creating, Deleting, Cleaning
  <2> QED
    BY <1>2, <2>2, CallsFrame DEF TasksOK
<1>5. AppsOK'
  BY <1>1, <1>2, AppsFrame DEF TasksOK, Ended, esVars
<1>6. FreshOK'
  BY <1>2, <1>3, FreshFrame DEF TasksOK, PipesOK, Creating, Pending, queueVars
<1>7. ReadOK'
  BY <1>2, <1>3, ReadFrame DEF TasksOK, Creating
<1>8. LengthOK'
  BY <1>2 DEF LengthOK, queueVars
<1> QED
  BY <1>4, <1>5, <1>6, <1>7, <1>8

\* The pipe no longer matches its ID, and its reader no longer keeps its last buffer.
LEMMA TearDownCalls ==
  ASSUME IInv, CallInv, NEW t \in Tasks, NEW p \in PipeIds, Match(p),
         pc[t] \in {"idle", "clean_pipes"}, t = ES <=> pc[t] = "clean_pipes",
         TearDown(t, p), UNCHANGED <<appState, victim>>
  PROVE  CallInv'
<1> USE DEF IInv, TypeOK, CallInv
<1>1. SlotOf(p) \in Slots /\ pipeId[SlotOf(p)] = p
  BY SlotInRange DEF Match, PipeIds
<1>2. /\ pc' = [pc EXCEPT ![t] = "drain"] /\ pid' = [pid EXCEPT ![t] = p]
      /\ pipeId' = [pipeId EXCEPT ![SlotOf(p)] = RESERVED]
      /\ got' = [got EXCEPT ![t] = lastBuf[SlotOf(p)]]
      /\ held' = [u \in Tasks |-> IF creator[p] = u THEN NoBuf ELSE held[u]]
      /\ UNCHANGED <<curDepth, lastBuf, lastPipe, bufVars, queueVars, opApp, own, todo, creator>>
  BY DEF TearDown, GoTo
<1>3. \A q \in PipeIds : Match(q)' => Match(q)
  BY <1>1, <1>2 DEF Match, PipesOK, PipeIds, RESERVED
<1>4. CallsOK'
  <2>1. CallOK(t)
    BY DEF CallsOK
  <2>2. pc'[t] = "drain"
    BY <1>2 DEF TasksOK
  <2>3. CallOK(t)'
    BY <1>2, <2>1, <2>2 DEF CallOK, Writing, Allocating, Ended, Receiving, Creating, Deleting, Cleaning
  <2> QED
    BY <1>2, <2>3, CallsFrame DEF TasksOK
<1>5. AppsOK'
  BY <1>2, AppsFrame DEF TasksOK, Ended
<1>6. FreshOK'
  BY <1>2, <1>3, FreshFrame DEF TasksOK, PipesOK, Creating, Pending, queueVars
<1>7. ReadOK'
  BY <1>2, <1>3, ReadFrame DEF TasksOK, Creating
<1>8. LengthOK'
  BY <1>2 DEF LengthOK, queueVars
<1> QED
  BY <1>4, <1>5, <1>6, <1>7, <1>8

\* The owner of a pipe deletes it.
LEMMA DeleteBeginCalls ==
  ASSUME IInv, CallInv, NEW t \in Tasks, NEW p \in PipeIds, DeleteBegin(t, p)
  PROVE  CallInv'
BY TearDownCalls DEF DeleteBegin, Begins, esVars

\* A task that empties a queue gives up the message it took.
LEMMA DrainReleaseCalls ==
  ASSUME IInv, CallInv, NEW t \in Tasks, DrainRelease(t)
  PROVE  CallInv'
<1> USE DEF IInv, TypeOK, CallInv
<1>1. /\ pc[t] = "drain" /\ got' = [got EXCEPT ![t] = NoBuf]
      /\ UNCHANGED <<pipeVars, queueVars, pc, opApp, pid, own, todo, held, creator, esVars>>
  BY DEF DrainRelease
<1>2. CallsOK'
  <2>1. CallOK(t)
    BY DEF CallsOK
  <2>2. CallOK(t)'
    BY <1>1, <2>1 DEF TasksOK, CallOK
  <2> QED
    BY <1>1, <2>2, CallsFrame DEF TasksOK
<1>3. AppsOK'
  BY <1>1, AppsFrame DEF Ended, esVars
<1>4. FreshOK'
  BY <1>1, FreshFrame DEF TasksOK, PipesOK, Creating, Match, Pending, pipeVars, queueVars
<1>5. ReadOK'
  BY <1>1, ReadFrame DEF Match, Creating, pipeVars
<1>6. LengthOK'
  BY <1>1 DEF LengthOK, queueVars
<1> QED
  BY <1>2, <1>3, <1>4, <1>5, <1>6

\* A queue only gets shorter when it is read, and none that is not known is read.
LEMMA QueueRead ==
  ASSUME QueuesOK, LengthOK, NEW p \in PipeIds, queue[p] # <<>>, qcap' = qcap,
         queue' = [queue EXCEPT ![p] = Tail(queue[p])]
  PROVE  LengthOK'
<1>1. Len(Tail(queue[p])) = Len(queue[p]) - 1 /\ Len(queue[p]) \in Nat
  BY DEF QueuesOK
<1>2. \A q \in PipeIds : queue'[q] = queue[q] \/ (q = p /\ queue'[q] = Tail(queue[p]))
  BY DEF QueuesOK
<1> QED
  BY <1>1, <1>2, DepthAssumption DEF LengthOK

\* The same of what nobody knows.
LEMMA FreshRead ==
  ASSUME IInv, FreshOK, NEW p \in PipeIds, ~Fresh(p), UNCHANGED <<lastPipe, pipeId, todo, pid>>,
         \A q \in PipeIds : q # p => queue'[q] = queue[q],
         \A u \in Tasks : pc'[u] \in Creating <=> pc[u] \in Creating
  PROVE  FreshOK'
BY DEF FreshOK, Fresh, Match, Pending

\* A task that empties a queue takes a message, or finds no more.
LEMMA DrainGetCalls ==
  ASSUME IInv, CallInv, NEW t \in Tasks, DrainGet(t)
  PROVE  CallInv'
<1> USE DEF IInv, TypeOK, CallInv
<1> DEFINE p == pid[t]
<1>1. /\ pc[t] = "drain" /\ p \in PipeIds /\ pipeId[SlotOf(p)] = RESERVED /\ ~Fresh(p)
      /\ UNCHANGED <<pipeVars, qcap, opApp, pid, own, todo, held, creator, esVars>>
  <2>1. pc[t] = "drain" /\ p \in PipeIds /\ pipeId[SlotOf(p)] = RESERVED
    BY DEF DrainGet, SlotClaims, Claims, Deleting
  <2> QED
    BY <2>1 DEF DrainGet, FreshOK, Creating
<1>2. \/ /\ queue[p] # <<>> /\ got' = [got EXCEPT ![t] = Head(queue[p])]
         /\ queue' = [queue EXCEPT ![p] = Tail(queue[p])] /\ pc' = pc
      \/ queue' = queue /\ pc' = [pc EXCEPT ![t] = "queue_delete"] /\ got' = got /\ got[t] = NoBuf
  BY DEF DrainGet, GoTo
<1> HIDE DEF p
<1>3. CallsOK'
  <2>1. CallOK(t)
    BY DEF CallsOK
  <2>2. CallOK(t)'
    BY <1>1, <1>2, <2>1 DEF TasksOK, CallOK, Writing, Allocating, Ended, Receiving, Creating, Deleting, Cleaning
  <2> QED
    BY <1>1, <1>2, <2>2, CallsFrame DEF TasksOK
<1>4. AppsOK'
  BY <1>1, <1>2, AppsFrame DEF TasksOK, Ended, esVars
<1>5. FreshOK'
  BY <1>1, <1>2, FreshRead DEF TasksOK, QueuesOK, Creating, pipeVars
<1>6. ReadOK'
  BY <1>1, <1>2, ReadFrame DEF TasksOK, Match, Creating, pipeVars
<1>7. LengthOK'
  BY <1>1, <1>2, QueueRead DEF LengthOK
<1> QED
  BY <1>3, <1>4, <1>5, <1>6, <1>7

\* A queue that is deleted takes no more messages.
LEMMA QueueDeleteCalls ==
  ASSUME IInv, CallInv, NEW t \in Tasks, QueueDelete(t)
  PROVE  CallInv'
<1> USE DEF IInv, TypeOK, CallInv
<1>1. /\ pc[t] = "queue_delete" /\ pc' = [pc EXCEPT ![t] = "delete_finish"]
      /\ qcap' = [qcap EXCEPT ![pid[t]] = 0] /\ queue' = [queue EXCEPT ![pid[t]] = <<>>]
      /\ UNCHANGED <<pipeVars, opApp, pid, own, got, todo, held, creator, esVars>>
  BY DEF QueueDelete, GoTo
<1>2. CallsOK'
  <2>1. CallOK(t)
    BY DEF CallsOK
  <2>2. CallOK(t)'
    BY <1>1, <2>1 DEF TasksOK, CallOK, Writing, Allocating, Ended, Receiving, Creating, Deleting, Cleaning
  <2> QED
    BY <1>1, <2>2, CallsFrame DEF TasksOK
<1>3. AppsOK'
  BY <1>1, AppsFrame DEF TasksOK, Ended, esVars
<1>4. FreshOK'
  <2>1. pid[t] \in PipeIds /\ ~Fresh(pid[t])
    BY <1>1 DEF SlotClaims, Claims, Deleting, FreshOK, Creating
  <2> QED
    BY <1>1, <2>1, FreshRead DEF TasksOK, QueuesOK, Creating, pipeVars
<1>5. ReadOK'
  BY <1>1, ReadFrame DEF TasksOK, Match, Creating, pipeVars
<1>6. LengthOK'
  BY <1>1, DepthAssumption DEF LengthOK, QueuesOK
<1> QED
  BY <1>2, <1>3, <1>4, <1>5, <1>6

\* The slot is free again, and the ID of its pipe is given to no one else.
LEMMA DeleteFinishCalls ==
  ASSUME IInv, CallInv, NEW t \in Tasks, DeleteFinish(t)
  PROVE  CallInv'
<1> USE DEF IInv, TypeOK, CallInv
<1>1. pc[t] = "delete_finish" /\ pid[t] \in PipeIds /\ SlotOf(pid[t]) \in Slots
  BY SlotInRange DEF DeleteFinish, SlotClaims, Claims, Deleting, PipeIds
<1>2. /\ pc' = [pc EXCEPT ![t] = IF t = ES THEN "clean_pipes" ELSE "idle"]
      /\ pid' = [pid EXCEPT ![t] = FREE]
      /\ pipeId' = [pipeId EXCEPT ![SlotOf(pid[t])] = FREE]
      /\ UNCHANGED <<curDepth, lastBuf, lastPipe, bufVars, queueVars, opApp, own, got, todo, held, creator, esVars>>
  BY DEF DeleteFinish, GoTo
<1>3. \A p \in PipeIds : Match(p)' => Match(p)
  BY <1>1, <1>2 DEF Match, PipesOK, PipeIds, FREE
<1>4. CallsOK'
  <2>1. CallOK(t)
    BY DEF CallsOK
  <2>2. CallOK(t)'
    BY <1>1, <1>2, <2>1 DEF TasksOK, CallOK, Writing, Allocating, Ended, Receiving, Creating, Deleting, Cleaning
  <2> QED
    BY <1>2, <2>2, CallsFrame DEF TasksOK
<1>5. AppsOK'
  BY <1>1, <1>2, AppsFrame DEF TasksOK, Ended, esVars
<1>6. FreshOK'
  BY <1>1, <1>2, <1>3, FreshFrame DEF TasksOK, PipesOK, Creating, Pending, queueVars
<1>7. ReadOK'
  BY <1>1, <1>2, <1>3, ReadFrame DEF TasksOK, Creating
<1>8. LengthOK'
  BY <1>2 DEF LengthOK, queueVars
<1> QED
  BY <1>4, <1>5, <1>6, <1>7, <1>8

\* Subscriptions, options and route commands concern no call in progress.
LEMMA CallsUntouched ==
  ASSUME CallInv, UNCHANGED <<pipeId, curDepth, lastBuf, lastPipe, queueVars, taskVars, creator, appState, victim>>
  PROVE  CallInv'
<1>1. UNCHANGED <<pc, opApp, pid, msg, own, got, todo, held, qcap, queue>>
  BY DEF taskVars, queueVars
<1>2. CallsOK'
  BY <1>1 DEF CallInv, CallsOK, CallOK
<1>3. AppsOK'
  BY <1>1 DEF CallInv, AppsOK
<1>4. FreshOK'
  BY <1>1 DEF CallInv, FreshOK, Fresh, Match, Pending
<1>5. ReadOK'
  BY <1>1 DEF CallInv, ReadOK, Match
<1>6. LengthOK'
  BY <1>1 DEF CallInv, LengthOK
<1> QED
  BY <1>2, <1>3, <1>4, <1>5, <1>6 DEF CallInv

\* Subscriptions, options and route commands concern no call in progress.
LEMMA RoutesCalls ==
  ASSUME IInv, CallInv,
         \/ \E t \in Tasks, m \in MsgIds, p \in PipeIds, lim \in MsgLims : Subscribe(t, m, p, lim)
         \/ \E t \in Tasks, m \in MsgIds, p \in PipeIds : Unsubscribe(t, m, p)
         \/ \E t \in Tasks, p \in PipeIds, on \in BOOLEAN : SetPipeOpts(t, p, on)
         \/ \E m \in MsgIds, p \in PipeIds, on \in BOOLEAN : RouteCmd(m, p, on)
  PROVE  CallInv'
<1>1. UNCHANGED <<pipeId, curDepth, lastBuf, lastPipe, queueVars, taskVars, creator, appState, victim>>
  BY DEF Subscribe, Unsubscribe, SetPipeOpts, RouteCmd, pipeVars, esVars
<1> QED
  BY <1>1, CallsUntouched

\* A task that still acts has its application ID to allocate with.
LEMMA AllocateBeginCalls ==
  ASSUME IInv, CallInv, NEW t \in Tasks, AllocateBegin(t)
  PROVE  CallInv'
<1> USE DEF IInv, TypeOK, CallInv
<1>1. /\ pc[t] = "idle" /\ t # ES /\ own[t] = NoBuf
      /\ \E l \in Allocating : pc' = [pc EXCEPT ![t] = l]
      /\ opApp' = [opApp EXCEPT ![t] = AppIdOf(t)]
      /\ UNCHANGED <<pipeVars, queueVars, pid, own, got, todo, held, creator, esVars>>
  BY DEF AllocateBegin, Begins, GoTo, Allocating
<1>2. CallsOK'
  <2>1. CallOK(t)
    BY DEF CallsOK
  <2>2. opApp'[t] = AppOf[t]
    BY <1>1, AppIdFound DEF TasksOK, Ended
  <2>3. CallOK(t)'
    BY <1>1, <2>1, <2>2 DEF TasksOK, CallOK, Writing, Allocating, Ended, Receiving, Creating, Deleting, Cleaning
  <2> QED
    BY <1>1, <2>3, CallsFrame DEF TasksOK
<1>3. AppsOK'
  BY <1>1, AppsFrame DEF TasksOK, Ended, esVars
<1>4. FreshOK'
  BY <1>1, FreshFrame DEF TasksOK, PipesOK, Creating, Match, Pending, Allocating, pipeVars, queueVars
<1>5. ReadOK'
  BY <1>1, ReadFrame DEF TasksOK, Match, Creating, Allocating, pipeVars
<1>6. LengthOK'
  BY <1>1 DEF LengthOK, queueVars
<1> QED
  BY <1>2, <1>3, <1>4, <1>5, <1>6

\* A task allocates a buffer, or finds none.
LEMMA AllocateCalls ==
  ASSUME IInv, CallInv, NEW t \in Tasks, Allocate(t)
  PROVE  CallInv'
<1> USE DEF IInv, TypeOK, CallInv
<1>1. /\ pc[t] \in Allocating /\ \E l \in {"idle", "tx_find"} : pc' = [pc EXCEPT ![t] = l]
      /\ opApp' = [opApp EXCEPT ![t] = NoApp]
      /\ \A u \in Tasks : u # t => own'[u] = own[u]
      /\ UNCHANGED <<pipeVars, queueVars, pid, got, todo, held, creator, esVars>>
  BY DEF Allocate, GoTo, Allocating, TasksOK
<1>2. CallsOK'
  <2>1. CallOK(t)
    BY DEF CallsOK
  <2>2. CallOK(t)'
    BY <1>1, <2>1 DEF TasksOK, CallOK, Writing, Allocating, Ended, Receiving, Creating, Deleting, Cleaning
  <2> QED
    BY <1>1, <2>2, CallsFrame DEF TasksOK
<1>3. AppsOK'
  BY <1>1, AppsFrame DEF TasksOK, Ended, Allocating, esVars
<1>4. FreshOK'
  BY <1>1, FreshFrame DEF TasksOK, PipesOK, Creating, Match, Pending, Allocating, pipeVars, queueVars
<1>5. ReadOK'
  BY <1>1, ReadFrame DEF TasksOK, Match, Creating, Allocating, pipeVars
<1>6. LengthOK'
  BY <1>1 DEF LengthOK, queueVars
<1> QED
  BY <1>2, <1>3, <1>4, <1>5, <1>6

\* A task gives its buffer back.
LEMMA ReleaseBufferCalls ==
  ASSUME IInv, CallInv, NEW t \in Tasks, ReleaseBuffer(t)
  PROVE  CallInv'
<1> USE DEF IInv, TypeOK, CallInv
<1>1. /\ pc[t] = "idle" /\ t # ES /\ own' = [own EXCEPT ![t] = NoBuf]
      /\ UNCHANGED <<pipeVars, queueVars, pc, opApp, pid, got, todo, held, creator, esVars>>
  BY DEF ReleaseBuffer, Begins
<1>2. CallsOK'
  <2>1. CallOK(t)
    BY DEF CallsOK
  <2>2. CallOK(t)'
    BY <1>1, <2>1 DEF TasksOK, CallOK
  <2> QED
    BY <1>1, <2>2, CallsFrame DEF TasksOK
<1>3. AppsOK'
  BY <1>1, AppsFrame DEF Ended, esVars
<1>4. FreshOK'
  BY <1>1, FreshFrame DEF TasksOK, PipesOK, Creating, Match, Pending, pipeVars, queueVars
<1>5. ReadOK'
  BY <1>1, ReadFrame DEF Match, Creating, pipeVars
<1>6. LengthOK'
  BY <1>1 DEF LengthOK, queueVars
<1> QED
  BY <1>2, <1>3, <1>4, <1>5, <1>6

\* A task hands its buffer over to be sent.
LEMMA TransmitBufferCalls ==
  ASSUME IInv, CallInv, NEW t \in Tasks, NEW m \in MsgIds, TransmitBuffer(t, m)
  PROVE  CallInv'
<1> USE DEF IInv, TypeOK, CallInv
<1>1. /\ pc[t] = "idle" /\ t # ES /\ pc' = [pc EXCEPT ![t] = "tx_find"]
      /\ UNCHANGED <<pipeVars, queueVars, opApp, pid, own, got, todo, held, creator, esVars>>
  BY DEF TransmitBuffer, Begins, GoTo
<1>2. CallsOK'
  <2>1. CallOK(t)
    BY DEF CallsOK
  <2>2. CallOK(t)'
    BY <1>1, <2>1 DEF TasksOK, CallOK, Writing, Allocating, Ended, Receiving, Creating, Deleting, Cleaning
  <2> QED
    BY <1>1, <2>2, CallsFrame DEF TasksOK
<1>3. AppsOK'
  BY <1>1, AppsFrame DEF TasksOK, Ended, esVars
<1>4. FreshOK'
  BY <1>1, FreshFrame DEF TasksOK, PipesOK, Creating, Match, Pending, pipeVars, queueVars
<1>5. ReadOK'
  BY <1>1, ReadFrame DEF TasksOK, Match, Creating, pipeVars
<1>6. LengthOK'
  BY <1>1 DEF LengthOK, queueVars
<1> QED
  BY <1>2, <1>3, <1>4, <1>5, <1>6

\* The same for a step that changes the slot of a pipe that exists.
LEMMA ReadLive ==
  ASSUME IInv, ReadOK, NEW t \in Tasks,
         \A u \in Tasks : u # t => UNCHANGED <<pc[u], pid[u]>>,
         pc'[t] \notin Creating,
         \A s \in Slots : pipeId[s] = RESERVED => lastBuf'[s] = lastBuf[s] /\ curDepth'[s] = curDepth[s],
         \A u \in Tasks : pc'[u] \in {"rx_get", "rx_export"} /\ Match(pid[u])' =>
                            lastBuf'[SlotOf(pid'[u])] = NoBuf
  PROVE  ReadOK'
<1>1. ASSUME NEW u \in Tasks, pc'[u] \in Creating
      PROVE  lastBuf'[SlotOf(pid'[u])] = NoBuf /\ curDepth'[SlotOf(pid'[u])] = 0
  <2>1. u # t /\ pc[u] \in Creating /\ pid'[u] = pid[u]
    BY <1>1
  <2>2. SlotOf(pid[u]) \in Slots /\ pipeId[SlotOf(pid[u])] = RESERVED
    BY <2>1, SlotInRange DEF IInv, SlotClaims, Claims, PipeIds
  <2> QED
    BY <2>1, <2>2 DEF ReadOK
<1> QED
  BY <1>1 DEF ReadOK

\* A count that goes down is that of a pipe that exists.
LEMMA DepthDownLive ==
  ASSUME PipesOK, NEW p \in PipeIds
  PROVE  \A s \in Slots : pipeId[s] = RESERVED => DepthDown(p)[s] = curDepth[s]
BY DEF DepthDown, PipesOK, Match, RESERVED, PipeIds

\* What FindDestinations writes to: pipes that exist, each of them once.
LEMMA WritesFound ==
  ASSUME IInv, NEW t \in Tasks, FindDestinations(t)
  PROVE  /\ todo'[t] \in SUBSET (Nat \X PipeIds)
         /\ \A v \in todo'[t] : Match(v[2])
         /\ \A v, w \in todo'[t] : v[2] = w[2] => v = w
         /\ \A s \in Slots : pipeId[s] = RESERVED => curDepth'[s] = curDepth[s]
<1> USE DEF IInv, TypeOK
<1> DEFINE m == msg[t]
           write == {i \in Targets(m, AppIdOf(t)) : dest[m][i].cnt < dest[m][i].lim}
           slots == {SlotOf(dest[m][i].pipe) : i \in write}
<1>1. m \in MsgIds /\ write \subseteq DOMAIN dest[m]
  BY DEF FindDestinations, SendingHasBuffer, Sending, Targets
<1>2. todo'[t] = {<<i, dest[m][i].pipe>> : i \in write}
  BY DEF FindDestinations, TasksOK
<1>3. curDepth' = [s \in Slots |-> IF s \in slots THEN curDepth[s] + 1 ELSE curDepth[s]]
  BY DEF FindDestinations
<1> HIDE DEF m, write
<1>4. \A i \in DOMAIN dest[m] : Match(dest[m][i].pipe)
  BY <1>1 DEF RoutesLive
<1>5. \A i, j \in DOMAIN dest[m] : dest[m][i].pipe = dest[m][j].pipe => i = j
  BY <1>1 DEF RoutesLive
<1>6. \A s \in slots : pipeId[s] # RESERVED
  BY <1>1, <1>4 DEF Match, RESERVED, PipeIds
<1>7. todo'[t] \in SUBSET (Nat \X PipeIds)
  <2>1. \A i \in DOMAIN dest[m] : i \in Nat /\ dest[m][i].pipe \in PipeIds
    BY <1>1, <1>4 DEF RoutesOK, Match
  <2> QED
    BY <1>1, <1>2, <2>1
<1>8. \A v \in todo'[t] : Match(v[2])
  BY <1>1, <1>2, <1>4
<1>9. \A v, w \in todo'[t] : v[2] = w[2] => v = w
  BY <1>1, <1>2, <1>5
<1> HIDE DEF slots
<1> QED
  BY <1>3, <1>6, <1>7, <1>8, <1>9

\* Every write that is counted goes to a pipe that exists.
LEMMA FindDestinationsCalls ==
  ASSUME IInv, CallInv, NEW t \in Tasks, FindDestinations(t)
  PROVE  CallInv'
<1> USE DEF IInv, TypeOK, CallInv
<1>1. /\ pc[t] = "tx_find" /\ pc' = [pc EXCEPT ![t] = "tx_put"]
      /\ \A u \in Tasks : u # t => todo'[u] = todo[u]
      /\ UNCHANGED <<pipeId, pipeApp, ignoreMine, lastBuf, lastPipe, queueVars, opApp, pid, own, got, held, creator, esVars>>
  BY DEF FindDestinations, GoTo, TasksOK
<1>2. /\ \A v \in todo'[t] : Match(v[2])
      /\ \A v, w \in todo'[t] : v[2] = w[2] => v = w
      /\ \A s \in Slots : pipeId[s] = RESERVED => curDepth'[s] = curDepth[s]
  BY WritesFound
<1>3. CallsOK'
  <2>1. CallOK(t)
    BY DEF CallsOK
  <2>2. CallOK(t)'
    BY <1>1, <1>2, <2>1 DEF TasksOK, CallOK, Writing, Allocating, Ended, Receiving, Creating, Deleting, Cleaning
  <2> QED
    BY <1>1, <2>2, CallsFrame DEF TasksOK
<1>4. AppsOK'
  BY <1>1, AppsFrame DEF TasksOK, Ended, esVars
<1>5. FreshOK'
  <2>1. \A u \in Tasks, p \in PipeIds : Pending(u, p)' => Pending(u, p) \/ Match(p)
    BY <1>1, <1>2 DEF Pending
  <2> QED
    BY <1>1, <2>1, FreshFrame DEF TasksOK, PipesOK, Creating, Match, queueVars
<1>6. ReadOK'
  BY <1>1, <1>2, ReadLive DEF TasksOK, ReadOK, Match, Creating
<1>7. LengthOK'
  BY <1>1 DEF LengthOK, queueVars
<1> QED
  BY <1>3, <1>4, <1>5, <1>6, <1>7

\* A write that succeeds fits in its queue; one that fails is of a pipe that has been made.
LEMMA QueuePutCalls ==
  ASSUME IInv, CallInv, NEW t \in Tasks, QueuePut(t)
  PROVE  CallInv'
<1> USE DEF IInv, TypeOK, CallInv
<1> DEFINE w == NextWrite(t)
           p == w[2]
<1>1. w \in todo[t] /\ p \in PipeIds /\ pc[t] = "tx_put" /\ Pending(t, p) /\ ~Fresh(p)
  <2>1. w \in todo[t] /\ p \in PipeIds /\ pc[t] = "tx_put"
    BY NextWriteFound DEF QueuePut
  <2>2. Pending(t, p)
    BY <2>1 DEF Pending
  <2> QED
    BY <2>1, <2>2 DEF FreshOK
<1>2. /\ todo' = [todo EXCEPT ![t] = @ \ {w}]
      /\ \/ /\ queue' = [queue EXCEPT ![p] = Append(@, own[t])]
            /\ Len(queue[p]) < qcap[p]
            /\ UNCHANGED <<pc, pid>>
         \/ /\ pc' = [pc EXCEPT ![t] = "tx_undo"] /\ pid' = [pid EXCEPT ![t] = p]
            /\ UNCHANGED queue
      /\ UNCHANGED <<pipeVars, qcap, opApp, own, got, held, creator, esVars>>
  BY DEF QueuePut, GoTo
<1> HIDE DEF w, p
<1>3. CallsOK'
  <2>1. CallOK(t)
    BY DEF CallsOK
  <2>2. CallOK(t)'
    BY <1>1, <1>2, <2>1 DEF TasksOK, CallOK, Writing, Allocating, Ended, Receiving, Creating, Deleting, Cleaning
  <2> QED
    BY <1>1, <1>2, <2>2, CallsFrame DEF TasksOK
<1>4. AppsOK'
  BY <1>1, <1>2, AppsFrame DEF TasksOK, Ended, esVars
<1>5. FreshOK'
  <2>1. \A u \in Tasks, q \in PipeIds : Pending(u, q)' => Pending(u, q)
    BY <1>2 DEF Pending, TasksOK
  <2>2. \A q \in PipeIds : q # p => queue'[q] = queue[q]
    BY <1>2 DEF QueuesOK
  <2>3. \A q \in PipeIds : Fresh(q)' => Fresh(q)
    BY <1>1, <1>2 DEF Fresh, TasksOK, Creating, pipeVars
  <2>4. \A u \in Tasks : pid'[u] = pid[u] \/ pid'[u] = p
    BY <1>2 DEF TasksOK
  <2>5. \A u \in Tasks : pc'[u] \in Creating <=> pc[u] \in Creating
    BY <1>1, <1>2 DEF TasksOK, Creating
  <2>6. p <= lastPipe
    BY <1>1 DEF Fresh, PipeIds, PipesOK
  <2> QED
    BY <1>1, <1>2, <2>1, <2>2, <2>3, <2>4, <2>5, <2>6 DEF FreshOK, Match, pipeVars
<1>6. ReadOK'
  BY <1>1, <1>2, ReadFrame DEF TasksOK, Match, Creating, pipeVars
<1>7. LengthOK'
  <2>1. /\ Len(queue[p]) \in Nat /\ qcap[p] \in Nat /\ queue[p] \in Seq(Bufs)
        /\ Len(Append(queue[p], own[t])) = Len(queue[p]) + 1
    BY <1>1 DEF QueuesOK
  <2>2. \A q \in PipeIds : queue'[q] = queue[q]
                           \/ (q = p /\ queue'[q] = Append(queue[p], own[t]) /\ Len(queue[p]) < qcap[p])
    BY <1>2 DEF QueuesOK
  <2> QED
    BY <1>1, <1>2, <2>1, <2>2, DepthAssumption DEF LengthOK
<1> QED
  BY <1>3, <1>4, <1>5, <1>6, <1>7

\* A failed write is taken back.
LEMMA UndoPutCalls ==
  ASSUME IInv, CallInv, NEW t \in Tasks, UndoPut(t)
  PROVE  CallInv'
<1> USE DEF IInv, TypeOK, CallInv
<1>1. /\ pc[t] = "tx_undo" /\ pc' = [pc EXCEPT ![t] = "tx_put"] /\ pid' = [pid EXCEPT ![t] = FREE]
      /\ pid[t] \in PipeIds /\ curDepth' = DepthDown(pid[t])
      /\ UNCHANGED <<pipeId, lastBuf, lastPipe, queueVars, opApp, own, got, todo, held, creator, esVars>>
  BY DEF UndoPut, GoTo, RunningHasPipe
<1>2. CallsOK'
  <2>1. CallOK(t)
    BY DEF CallsOK
  <2>2. CallOK(t)'
    BY <1>1, <2>1 DEF TasksOK, CallOK, Writing, Allocating, Ended, Receiving, Creating, Deleting, Cleaning
  <2> QED
    BY <1>1, <2>2, CallsFrame DEF TasksOK
<1>3. AppsOK'
  BY <1>1, AppsFrame DEF TasksOK, Ended, esVars
<1>4. FreshOK'
  BY <1>1, FreshFrame DEF TasksOK, PipesOK, Creating, Match, Pending, queueVars
<1>5. ReadOK'
  <2>1. \A s \in Slots : pipeId[s] = RESERVED => curDepth'[s] = curDepth[s]
    BY <1>1, DepthDownLive
  <2>2. \A u \in Tasks : pc'[u] \in {"rx_get", "rx_export"} => u # t
    BY <1>1 DEF TasksOK
  <2>3. \A u \in Tasks : u # t => UNCHANGED <<pc[u], pid[u]>>
    BY <1>1 DEF TasksOK
  <2>4. \A u \in Tasks : pc'[u] \in {"rx_get", "rx_export"} /\ Match(pid[u])' =>
                            lastBuf'[SlotOf(pid'[u])] = NoBuf
    BY <1>1, <2>2, <2>3 DEF ReadOK, Match
  <2> QED
    BY <1>1, <2>1, <2>3, <2>4, ReadLive DEF TasksOK, Creating
<1>6. LengthOK'
  BY <1>1 DEF LengthOK, queueVars
<1> QED
  BY <1>2, <1>3, <1>4, <1>5, <1>6

\* All writes are made: the sender gives its buffer up.
LEMMA TransmitDoneCalls ==
  ASSUME IInv, CallInv, NEW t \in Tasks, TransmitDone(t)
  PROVE  CallInv'
<1> USE DEF IInv, TypeOK, CallInv
<1>1. /\ pc[t] = "tx_put" /\ pc' = [pc EXCEPT ![t] = "idle"] /\ todo[t] = {}
      /\ own' = [own EXCEPT ![t] = NoBuf]
      /\ UNCHANGED <<pipeVars, queueVars, opApp, pid, got, todo, held, creator, esVars>>
  BY DEF TransmitDone, GoTo
<1>2. CallsOK'
  <2>1. CallOK(t)
    BY DEF CallsOK
  <2>2. CallOK(t)'
    BY <1>1, <2>1 DEF TasksOK, CallOK, Writing, Allocating, Ended, Receiving, Creating, Deleting, Cleaning
  <2> QED
    BY <1>1, <2>2, CallsFrame DEF TasksOK
<1>3. AppsOK'
  BY <1>1, AppsFrame DEF TasksOK, Ended, esVars
<1>4. FreshOK'
  BY <1>1, FreshFrame DEF TasksOK, PipesOK, Creating, Match, Pending, pipeVars, queueVars
<1>5. ReadOK'
  BY <1>1, ReadFrame DEF TasksOK, Match, Creating, pipeVars
<1>6. LengthOK'
  BY <1>1 DEF LengthOK, queueVars
<1> QED
  BY <1>2, <1>3, <1>4, <1>5, <1>6

\* A pipe has one reader, its creator, and one slot.
LEMMA OneReader ==
  ASSUME CallsOK, NEW t \in Tasks, NEW u \in Tasks, u # t, NEW p \in PipeIds, Match(p), creator[p] = t,
         pc[u] \in {"rx_get", "rx_export"}, Match(pid[u])
  PROVE  SlotOf(pid[u]) # SlotOf(p)
<1>1. creator[pid[u]] = u
  BY DEF CallsOK, CallOK, Receiving
<1> QED
  BY <1>1 DEF Match

\* The pipe to be read no longer keeps its last buffer.
LEMMA SetPipeIdCalls ==
  ASSUME IInv, CallInv, NEW t \in Tasks, NEW p \in PipeIds, Match(p), creator[p] = t,
         pc[t] \in {"idle", "rx_verify"}, t # ES, SetPipeId(t, p), UNCHANGED esVars
  PROVE  CallInv'
<1> USE DEF IInv, TypeOK, CallInv
<1>1. SlotOf(p) \in Slots /\ pipeId[SlotOf(p)] = p /\ p # RESERVED
  BY SlotInRange DEF Match, PipeIds, RESERVED
<1>2. /\ pc' = [pc EXCEPT ![t] = "rx_get"] /\ pid' = [pid EXCEPT ![t] = p]
      /\ held' = [held EXCEPT ![t] = NoBuf]
      /\ UNCHANGED <<pipeId, curDepth, lastPipe, queueVars, opApp, own, got, todo, creator>>
  BY DEF SetPipeId, GoTo
<1>3. \/ lastBuf' = [lastBuf EXCEPT ![SlotOf(p)] = NoBuf]
      \/ lastBuf' = lastBuf /\ lastBuf[SlotOf(p)] = NoBuf
  BY DEF SetPipeId
<1>4. CallsOK'
  <2>1. CallOK(t)
    BY DEF CallsOK
  <2>2. pc'[t] = "rx_get" /\ creator'[pid'[t]] = t
    BY <1>2 DEF TasksOK
  <2>3. CallOK(t)'
    BY <1>2, <2>1, <2>2 DEF CallOK, Writing, Allocating, Ended, Receiving, Creating, Deleting, Cleaning
  <2> QED
    BY <1>2, <2>3, CallsFrame DEF TasksOK
<1>5. AppsOK'
  BY <1>2, AppsFrame DEF TasksOK, Ended, esVars
<1>6. FreshOK'
  BY <1>2, FreshFrame DEF TasksOK, PipesOK, Creating, Match, Pending, queueVars
<1>7. ReadOK'
  <2>1. \A s \in Slots : pipeId[s] = RESERVED => lastBuf'[s] = lastBuf[s] /\ curDepth'[s] = curDepth[s]
    BY <1>1, <1>2, <1>3 DEF PipesOK
  <2>2. ASSUME NEW u \in Tasks, pc'[u] \in {"rx_get", "rx_export"}, Match(pid[u])'
        PROVE  lastBuf'[SlotOf(pid'[u])] = NoBuf
    <3>1. CASE u = t
      BY <1>1, <1>2, <1>3, <3>1 DEF TasksOK, PipesOK
    <3>2. CASE u # t
      <4>1. pc[u] = pc'[u] /\ pid'[u] = pid[u] /\ Match(pid[u]) /\ pid[u] \in PipeIds
        BY <1>2, <2>2, <3>2 DEF TasksOK, Match
      <4>2. lastBuf[SlotOf(pid[u])] = NoBuf /\ SlotOf(pid[u]) \in Slots
        BY <2>2, <4>1, SlotInRange DEF ReadOK, PipeIds
      <4>3. SlotOf(pid[u]) # SlotOf(p)
        BY <2>2, <3>2, <4>1, OneReader
      <4> QED
        BY <1>3, <4>1, <4>2, <4>3 DEF PipesOK
    <3> QED
      BY <3>1, <3>2
  <2>3. \A u \in Tasks : u # t => UNCHANGED <<pc[u], pid[u]>>
    BY <1>2 DEF TasksOK
  <2>4. pc'[t] \notin Creating
    BY <1>2 DEF TasksOK, Creating
  <2> QED
    BY <2>1, <2>2, <2>3, <2>4, ReadLive
<1>8. LengthOK'
  BY <1>2 DEF LengthOK, queueVars
<1> QED
  BY <1>4, <1>5, <1>6, <1>7, <1>8

\* A task reads a pipe of its own.
LEMMA ReceiveBeginCalls ==
  ASSUME IInv, CallInv, NEW t \in Tasks, NEW p \in PipeIds, ReceiveBegin(t, p)
  PROVE  CallInv'
BY SetPipeIdCalls DEF ReceiveBegin, SetPipeId, Begins

\* The oldest message is taken off the queue of a pipe.
LEMMA QueueGetCalls ==
  ASSUME IInv, CallInv, NEW t \in Tasks, QueueGet(t)
  PROVE  CallInv'
<1> USE DEF IInv, TypeOK, CallInv
<1> DEFINE p == pid[t]
<1>1. /\ pc[t] = "rx_get" /\ pc' = [pc EXCEPT ![t] = "rx_export"]
      /\ got' = [got EXCEPT ![t] = Head(queue[p])]
      /\ queue' = [queue EXCEPT ![p] = Tail(queue[p])] /\ queue[p] # <<>> /\ p \in PipeIds
      /\ UNCHANGED <<pipeVars, qcap, opApp, pid, own, todo, held, creator, esVars>>
  BY DEF QueueGet, GoTo, RunningHasPipe, Receiving
<1>2. ~Fresh(p)
  BY <1>1 DEF FreshOK
<1>3. Head(queue[p]) # NoBuf
  BY <1>1, HeadTailType, NullAssumption
<1> HIDE DEF p
<1>4. CallsOK'
  <2>1. CallOK(t)
    BY DEF CallsOK
  <2>2. CallOK(t)'
    BY <1>1, <1>3, <2>1 DEF TasksOK, CallOK, Writing, Allocating, Ended, Receiving, Creating, Deleting, Cleaning
  <2> QED
    BY <1>1, <2>2, CallsFrame DEF TasksOK
<1>5. AppsOK'
  BY <1>1, AppsFrame DEF TasksOK, Ended, esVars
<1>6. FreshOK'
  BY <1>1, <1>2, FreshRead DEF TasksOK, QueuesOK, Creating, pipeVars
<1>7. ReadOK'
  <2>1. \A u \in Tasks : u # t => UNCHANGED <<pc[u], pid[u]>>
    BY <1>1 DEF TasksOK
  <2>2. pc'[t] \notin Creating
    BY <1>1 DEF TasksOK, Creating
  <2>3. \A u \in Tasks : pc'[u] \in {"rx_get", "rx_export"} => pc[u] \in {"rx_get", "rx_export"}
    BY <1>1 DEF TasksOK
  <2>4. \A u \in Tasks : Match(pid[u])' => Match(pid[u])
    BY <1>1 DEF Match, pipeVars
  <2> QED
    BY <1>1, <2>1, <2>2, <2>3, <2>4, ReadLive DEF ReadOK, pipeVars
<1>8. LengthOK'
  BY <1>1, QueueRead
<1> QED
  BY <1>4, <1>5, <1>6, <1>7, <1>8

\* A read that ends, with a message or with none.
LEMMA ReceiveEndCalls ==
  ASSUME IInv, CallInv, NEW t \in Tasks,
         \/ ReceiveNothing(t) \/ ReceiveAccept(t)
         \/ ReceiveReject(t) /\ ~Match(pid[t])
  PROVE  CallInv'
<1> USE DEF IInv, TypeOK, CallInv
<1>1. /\ pc[t] \in {"rx_get", "rx_verify"} /\ pc' = [pc EXCEPT ![t] = "idle"]
      /\ pid' = [pid EXCEPT ![t] = FREE]
      /\ held' = held \/ held' = [held EXCEPT ![t] = NoBuf]
      /\ UNCHANGED <<pipeVars, queueVars, opApp, own, got, todo, creator, esVars>>
  BY DEF ReceiveNothing, ReceiveAccept, ReceiveReject, GoTo
<1>2. CallsOK'
  <2>1. CallOK(t)
    BY DEF CallsOK
  <2>2. CallOK(t)'
    BY <1>1, <2>1 DEF TasksOK, CallOK, Writing, Allocating, Ended, Receiving, Creating, Deleting, Cleaning
  <2> QED
    BY <1>1, <2>2, CallsFrame DEF TasksOK
<1>3. AppsOK'
  BY <1>1, AppsFrame DEF TasksOK, Ended, esVars
<1>4. FreshOK'
  BY <1>1, FreshFrame DEF TasksOK, PipesOK, Creating, Match, Pending, pipeVars, queueVars
<1>5. ReadOK'
  BY <1>1, ReadFrame DEF TasksOK, Match, Creating, pipeVars
<1>6. LengthOK'
  BY <1>1 DEF LengthOK, queueVars
<1> QED
  BY <1>2, <1>3, <1>4, <1>5, <1>6

\* A message is dropped and the next one read.
LEMMA ReceiveRejectCalls ==
  ASSUME IInv, CallInv, NEW t \in Tasks, ReceiveReject(t)
  PROVE  CallInv'
<1>1. CASE Match(pid[t])
  <2>1. pc[t] = "rx_verify" /\ SetPipeId(t, pid[t]) /\ UNCHANGED esVars /\ pid[t] \in PipeIds
    BY <1>1 DEF ReceiveReject, SetPipeId, Match
  <2>2. creator[pid[t]] = t /\ t # ES
    BY <2>1 DEF CallInv, CallsOK, CallOK, Receiving, Deleting, Cleaning
  <2> QED
    BY <1>1, <2>1, <2>2, SetPipeIdCalls
<1>2. CASE ~Match(pid[t])
  BY <1>2, ReceiveEndCalls
<1> QED
  BY <1>1, <1>2

\* The message read becomes the last buffer of its pipe, if the pipe still exists.
LEMMA ExportReferenceCalls ==
  ASSUME IInv, CallInv, NEW t \in Tasks, ExportReference(t)
  PROVE  CallInv'
<1> USE DEF IInv, TypeOK, CallInv
<1> DEFINE p == pid[t]
           b == got[t]
<1>1. /\ pc[t] = "rx_export" /\ p \in PipeIds /\ SlotOf(p) \in Slots
      /\ got' = [got EXCEPT ![t] = NoBuf]
      /\ UNCHANGED <<pipeId, lastPipe, queueVars, opApp, own, todo, creator, esVars>>
  BY SlotInRange DEF ExportReference, RunningHasPipe, Receiving, PipeIds
<1>2. \/ /\ Match(p) /\ lastBuf' = [lastBuf EXCEPT ![SlotOf(p)] = b] /\ curDepth' = DepthDown(p)
         /\ held' = [held EXCEPT ![t] = b] /\ pc' = [pc EXCEPT ![t] = "rx_verify"] /\ pid' = pid
      \/ /\ pid' = [pid EXCEPT ![t] = FREE] /\ pc' = [pc EXCEPT ![t] = "idle"]
         /\ UNCHANGED <<lastBuf, curDepth, held>>
  BY DEF ExportReference, GoTo
<1>3. creator[p] = t
  BY <1>1 DEF CallsOK, CallOK, Receiving
<1> HIDE DEF p, b
<1>4. CallsOK'
  <2>1. CallOK(t)
    BY DEF CallsOK
  <2>2. CallOK(t)'
    BY <1>1, <1>2, <2>1 DEF TasksOK, CallOK, Writing, Allocating, Ended, Receiving, Creating, Deleting, Cleaning
  <2> QED
    BY <1>1, <1>2, <2>2, CallsFrame DEF TasksOK
<1>5. AppsOK'
  BY <1>1, <1>2, AppsFrame DEF TasksOK, Ended, esVars
<1>6. FreshOK'
  BY <1>1, <1>2, FreshFrame DEF TasksOK, PipesOK, Creating, Match, Pending, queueVars
<1>7. ReadOK'
  <2>1. \A u \in Tasks : u # t => UNCHANGED <<pc[u], pid[u]>>
    BY <1>2 DEF TasksOK
  <2>2. pc'[t] \notin Creating /\ pc'[t] \notin {"rx_get", "rx_export"}
    BY <1>2 DEF TasksOK, Creating
  <2>3. \A s \in Slots : pipeId[s] = RESERVED => lastBuf'[s] = lastBuf[s] /\ curDepth'[s] = curDepth[s]
    BY <1>1, <1>2, DepthDownLive DEF PipesOK, Match, RESERVED, PipeIds
  <2>4. ASSUME NEW u \in Tasks, pc'[u] \in {"rx_get", "rx_export"}, Match(pid[u])'
        PROVE  lastBuf'[SlotOf(pid'[u])] = NoBuf
    <3>1. u # t /\ pc[u] = pc'[u] /\ pid'[u] = pid[u] /\ Match(pid[u]) /\ pid[u] \in PipeIds
      BY <1>1, <2>1, <2>2, <2>4 DEF Match
    <3>2. lastBuf[SlotOf(pid[u])] = NoBuf /\ SlotOf(pid[u]) \in Slots
      BY <2>4, <3>1, SlotInRange DEF ReadOK, PipeIds
    <3>3. Match(p) => SlotOf(pid[u]) # SlotOf(p)
      BY <1>1, <1>3, <2>4, <3>1, OneReader
    <3> QED
      BY <1>2, <3>1, <3>2, <3>3 DEF PipesOK
  <2> QED
    BY <2>1, <2>2, <2>3, <2>4, ReadLive
<1>8. LengthOK'
  BY <1>1 DEF LengthOK, queueVars
<1> QED
  BY <1>4, <1>5, <1>6, <1>7, <1>8

\* A task that exits keeps nothing in its hands.
LEMMA ExitCalls ==
  ASSUME IInv, CallInv, NEW t \in Tasks, Exit(t)
  PROVE  CallInv'
<1> USE DEF IInv, TypeOK, CallInv
<1>1. /\ pc[t] = "idle" /\ t # ES /\ pc' = [pc EXCEPT ![t] = "exited"]
      /\ own' = [own EXCEPT ![t] = NoBuf] /\ held' = [held EXCEPT ![t] = NoBuf]
      /\ appState[AppOf[t]] \in {"running", "exiting"}
      /\ appState' = [appState EXCEPT ![AppOf[t]] = "exiting"]
      /\ UNCHANGED <<pipeVars, queueVars, opApp, pid, got, todo, creator, victim>>
  BY DEF Exit, Begins, GoTo
<1>2. CallsOK'
  <2>1. CallOK(t)
    BY DEF CallsOK
  <2>2. CallOK(t)'
    BY <1>1, <2>1 DEF TasksOK, CallOK, Writing, Allocating, Ended, Receiving, Creating, Deleting, Cleaning
  <2> QED
    BY <1>1, <2>2, CallsFrame DEF TasksOK
<1>3. AppsOK'
  <2>1. \A a \in Apps : appState'[a] = appState[a] \/ (a = AppOf[t] /\ appState'[a] = "exiting")
    BY <1>1 DEF CleanUpOK
  <2>2. \A u \in Tasks : pc'[u] = pc[u] \/ u = t
    BY <1>1 DEF TasksOK
  <2>3. \A u \in Tasks : appState'[AppOf[u]] \in {"cleaning", "gone"} => pc'[u] \in Ended
    BY <1>1, <2>1, <2>2, TaskAssumption DEF AppsOK
  <2> QED
    BY <1>1, <2>1, <2>2, <2>3, TaskAssumption DEF AppsOK
<1>4. FreshOK'
  BY <1>1, FreshFrame DEF TasksOK, PipesOK, Creating, Match, Pending, pipeVars, queueVars
<1>5. ReadOK'
  BY <1>1, ReadFrame DEF TasksOK, Match, Creating, pipeVars
<1>6. LengthOK'
  BY <1>1 DEF LengthOK, queueVars
<1> QED
  BY <1>2, <1>3, <1>4, <1>5, <1>6

\* ES is a task of no application that is cleaned up.
LEMMA VictimIsNotES ==
  ASSUME AppsOK
  PROVE  /\ appState[AppOf[ES]] \notin {"cleaning", "gone"}
         /\ pc[ES] # "idle" => victim # AppOf[ES] /\ \A t \in Tasks : AppOf[t] = victim => pc[t] \in Ended
BY TaskAssumption, DoomedAssumption DEF AppsOK

\* ES goes on with the clean-up.
LEMMA CleaningCalls ==
  ASSUME IInv, CallInv, pc[ES] \in {"idle"} \cup Cleaning,
         \E l \in Cleaning : pc' = [pc EXCEPT ![ES] = l],
         UNCHANGED <<pipeVars, queueVars, opApp, pid, own, got, todo, held, creator>>,
         AppsOK'
  PROVE  CallInv'
<1> USE TaskAssumption DEF IInv, TypeOK, CallInv
<1>2. CallsOK'
  <2>1. CallOK(ES)
    BY DEF CallsOK
  <2>2. CallOK(ES)'
    BY <2>1 DEF TasksOK, CallOK, Writing, Allocating, Ended, Receiving, Creating, Deleting, Cleaning
  <2> QED
    BY <2>2, CallsFrame DEF TasksOK
<1>4. FreshOK'
  BY FreshFrame DEF TasksOK, PipesOK, Creating, Cleaning, Match, Pending, pipeVars, queueVars
<1>5. ReadOK'
  BY ReadFrame DEF TasksOK, Match, Creating, Cleaning, pipeVars
<1>6. LengthOK'
  BY DEF LengthOK, queueVars
<1> QED
  BY <1>2, <1>4, <1>5, <1>6

\* An application that is cleaned up has no task left that acts.
LEMMA CleanUpBeginCalls ==
  ASSUME IInv, CallInv, Orderly, NEW a \in Apps, CleanUpBegin(a)
  PROVE  CallInv'
<1> USE TaskAssumption DEF IInv, TypeOK, CallInv
<1>1. /\ pc[ES] = "idle" /\ a \in Doomed /\ pc' = [pc EXCEPT ![ES] = "clean_list"]
      /\ \A t \in Tasks : AppOf[t] = a => pc[t] = "exited"
      /\ appState' = [appState EXCEPT ![a] = "cleaning"] /\ victim' = a
      /\ UNCHANGED <<pipeVars, queueVars, opApp, pid, own, got, todo, held, creator>>
  BY DEF CleanUpBegin, GoTo, Orderly
<1>2. AppsOK'
  <2>1. \A c \in Apps : appState'[c] = appState[c] \/ (c = a /\ appState'[c] = "cleaning")
    BY <1>1 DEF CleanUpOK
  <2>2. \A u \in Tasks : u # ES => pc'[u] = pc[u]
    BY <1>1 DEF TasksOK
  <2>3. ASSUME NEW u \in Tasks, appState'[AppOf[u]] \in {"cleaning", "gone"}
        PROVE  pc'[u] \in Ended
    <3>1. CASE AppOf[u] = a
      BY <1>1, <2>2, <3>1, DoomedAssumption DEF Ended
    <3>2. CASE AppOf[u] # a
      BY <1>1, <2>1, <2>2, <2>3, <3>2, VictimIsNotES DEF AppsOK
    <3> QED
      BY <3>1, <3>2
  <2>4. \A c \in Apps : appState'[c] \in {"cleaning", "gone"} => c \in Doomed
    BY <1>1, <2>1 DEF AppsOK
  <2>5. victim' \in Apps /\ appState'[victim'] = "cleaning"
    BY <1>1 DEF CleanUpOK
  <2> QED
    BY <2>3, <2>4, <2>5 DEF AppsOK
<1> QED
  BY <1>1, <1>2, CleaningCalls DEF Cleaning

\* ES takes note of the pipes to delete.
LEMMA CleanUpListCalls ==
  ASSUME IInv, CallInv, CleanUpList \/ CleanUpZeroCopy
  PROVE  CallInv'
<1> USE TaskAssumption DEF IInv, TypeOK, CallInv
<1>1. /\ pc[ES] \in {"clean_list", "clean_pipes"}
      /\ \E l \in {"clean_pipes", "clean_tasks"} : pc' = [pc EXCEPT ![ES] = l]
      /\ UNCHANGED <<pipeVars, queueVars, opApp, pid, own, got, todo, held, creator, appState, victim>>
  BY DEF CleanUpList, CleanUpZeroCopy, GoTo, esVars
<1>2. AppsOK'
  BY <1>1, AppsFrame DEF TasksOK, Ended
<1> QED
  BY <1>1, <1>2, CleaningCalls DEF Cleaning

\* ES deletes a pipe of the application, or passes on.
LEMMA CleanUpPipeCalls ==
  ASSUME IInv, CallInv, NEW p \in delList, CleanUpPipe(p)
  PROVE  CallInv'
<1>1. CASE Match(p) /\ pipeApp[SlotOf(p)] = victim
  <2>1. pc[ES] = "clean_pipes" /\ p \in PipeIds /\ TearDown(ES, p) /\ UNCHANGED <<appState, victim>>
    BY <1>1 DEF CleanUpPipe, Match
  <2> QED
    BY <1>1, <2>1, TearDownCalls, TaskAssumption
<1>2. CASE ~(Match(p) /\ pipeApp[SlotOf(p)] = victim)
  BY <1>2, CallsUntouched DEF CleanUpPipe, pipeVars
<1> QED
  BY <1>1, <1>2

\* The tasks ES deletes have all exited.
LEMMA CleanUpTasksCalls ==
  ASSUME IInv, CallInv, CleanUpTasks
  PROVE  CallInv'
<1> USE TaskAssumption DEF IInv, TypeOK, CallInv
<1> DEFINE dead == {t \in Tasks : AppOf[t] = victim}
<1>1. /\ pc[ES] = "clean_tasks" /\ ES \notin dead
      /\ victim \in Apps /\ appState[victim] = "cleaning"
      /\ \A t \in dead : pc[t] \in Ended
  BY VictimIsNotES DEF CleanUpTasks, AppsOK
<1>2. /\ \A t \in Tasks : t # ES => pc'[t] = IF t \in dead THEN "dead" ELSE pc[t]
      /\ pc'[ES] = "idle"
      /\ \A t \in Tasks : /\ own'[t] = IF t \in dead THEN NoBuf ELSE own[t]
                          /\ got'[t] = IF t \in dead THEN NoBuf ELSE got[t]
                          /\ held'[t] = IF t \in dead THEN NoBuf ELSE held[t]
                          /\ todo'[t] = IF t \in dead THEN {} ELSE todo[t]
                          /\ pid'[t] = IF t \in dead THEN FREE ELSE pid[t]
                          /\ opApp'[t] = IF t \in dead THEN NoApp ELSE opApp[t]
  BY DEF CleanUpTasks
<1>3. /\ appState' = [appState EXCEPT ![victim] = "gone"] /\ victim' = NoApp
      /\ UNCHANGED <<pipeVars, queueVars, creator>>
  BY DEF CleanUpTasks
<1> HIDE DEF dead
<1>4. CallsOK'
  <2> SUFFICES ASSUME NEW t \in Tasks PROVE CallOK(t)'
    BY DEF CallsOK
  <2>1. CallOK(t)
    BY DEF CallsOK
  <2>2. CASE t \in dead
    <3>1. t # ES /\ pc'[t] = "dead" /\ own'[t] = NoBuf /\ got'[t] = NoBuf /\ held'[t] = NoBuf /\ todo'[t] = {}
      BY <1>1, <1>2, <2>2
    <3> QED
      BY <3>1 DEF CallOK, Writing, Allocating, Ended, Receiving, Creating, Deleting, Cleaning
  <2>3. CASE t \notin dead
    BY <1>1, <1>2, <1>3, <2>1, <2>3 DEF CallOK, Writing, Allocating, Ended, Receiving, Creating, Deleting, Cleaning
  <2> QED
    BY <2>2, <2>3
<1>5. AppsOK'
  <2>1. \A a \in Apps : appState'[a] = IF a = victim THEN "gone" ELSE appState[a]
    BY <1>3 DEF CleanUpOK
  <2>2. \A t \in Tasks : t \in dead <=> AppOf[t] = victim
    BY DEF dead
  <2>3. ASSUME NEW t \in Tasks, appState'[AppOf[t]] \in {"cleaning", "gone"} PROVE pc'[t] \in Ended
    BY <1>1, <1>2, <2>1, <2>2, <2>3, VictimIsNotES DEF AppsOK, Ended
  <2> QED
    BY <1>1, <1>2, <2>1, <2>3 DEF AppsOK
<1>6. FreshOK'
  <2>1. \A t \in Tasks : pc'[t] \in Creating <=> pc[t] \in Creating
    BY <1>1, <1>2 DEF Creating, Ended
  <2>2. \A t \in Tasks : pid'[t] = pid[t] \/ (pid'[t] = FREE /\ t \in dead)
    BY <1>2
  <2>3. \A t \in dead : pc[t] \notin Creating
    BY <1>1 DEF Creating, Ended
  <2>4. \A p \in PipeIds : Fresh(p)' => Fresh(p)
    BY <1>3, <2>1, <2>2, <2>3 DEF Fresh, PipeIds, FREE, pipeVars
  <2>5. \A t \in Tasks, p \in PipeIds : Pending(t, p)' => Pending(t, p)
    BY <1>2 DEF Pending
  <2>6. ASSUME NEW t \in Tasks PROVE pid'[t] <= lastPipe'
    <3>1. pid[t] <= lastPipe /\ FREE <= lastPipe /\ lastPipe' = lastPipe
      BY <1>3 DEF FreshOK, pipeVars, PipesOK, FREE
    <3> QED
      BY <2>2, <3>1
  <2>7. ASSUME NEW p \in PipeIds, Fresh(p)'
        PROVE  /\ ~Match(p)' /\ queue'[p] = <<>>
               /\ \A t \in Tasks : ~Pending(t, p)' /\ (pc'[t] \notin Creating => pid'[t] # p)
    <3>1. Fresh(p) /\ p # FREE
      BY <2>4, <2>7 DEF PipeIds, FREE
    <3>2. ~Match(p) /\ queue[p] = <<>>
      BY <3>1 DEF FreshOK
    <3>3. ~Match(p)' /\ queue'[p] = <<>>
      BY <1>3, <3>2 DEF Match, pipeVars, queueVars
    <3>4. \A t \in Tasks : ~Pending(t, p)'
      BY <2>5, <3>1 DEF FreshOK
    <3>5. \A t \in Tasks : pc'[t] \notin Creating => pid'[t] # p
      BY <2>1, <2>2, <3>1 DEF FreshOK
    <3> QED
      BY <3>3, <3>4, <3>5
  <2> QED
    BY <2>6, <2>7 DEF FreshOK
<1>7. ReadOK'
  <2>1. \A t \in Tasks : pc'[t] \in Creating \cup {"rx_get", "rx_export"} => pc'[t] = pc[t] /\ pid'[t] = pid[t]
    BY <1>1, <1>2 DEF Creating
  <2>2. \A t \in Tasks : Match(pid[t])' /\ pid'[t] = pid[t] => Match(pid[t])
    BY <1>3 DEF Match, pipeVars
  <2> QED
    BY <1>3, <2>1, <2>2 DEF ReadOK, pipeVars
<1>8. LengthOK'
  BY <1>3 DEF LengthOK, queueVars
<1> QED
  BY <1>4, <1>5, <1>6, <1>7, <1>8

\* At first no call is in progress.
LEMMA InitCalls == Init => CallInv
<1> SUFFICES ASSUME Init PROVE CallInv
  OBVIOUS
<1> USE DEF Init
<1>1. CallsOK
  BY DEF CallsOK, CallOK, Writing, Allocating, Ended, Receiving, Creating, Deleting, Cleaning
<1>2. AppsOK
  BY TaskAssumption DEF AppsOK
<1>3. FreshOK
  BY SlotInRange DEF FreshOK, Match, Pending, PipeIds, FREE
<1>4. ReadOK
  BY DEF ReadOK, Creating
<1>5. LengthOK
  BY DepthAssumption DEF LengthOK
<1> QED
  BY <1>1, <1>2, <1>3, <1>4, <1>5 DEF CallInv

\* Every step keeps what the calls in progress rely on.
LEMMA NextCalls == Orderly /\ IInv /\ CallInv /\ [Next]_vars => CallInv'
<1> SUFFICES ASSUME Orderly, IInv, CallInv, [Next]_vars PROVE CallInv'
  OBVIOUS
<1>1. ASSUME NEW t \in Tasks, CallBegins(t) PROVE CallInv'
  BY <1>1, CreateReserveCalls, AllocateBeginCalls, ReleaseBufferCalls, ExitCalls, DeleteBeginCalls,
     ReceiveBeginCalls, RoutesCalls, TransmitBufferCalls
     DEF CallBegins
<1>2. ASSUME NEW t \in Tasks, Proceed(t) PROVE CallInv'
  BY <1>2, CreateQueueCalls, CreateFinishCalls, CreateAbortCalls, DrainReleaseCalls, DrainGetCalls,
     QueueDeleteCalls, DeleteFinishCalls, AllocateCalls, FindDestinationsCalls, QueuePutCalls,
     UndoPutCalls, TransmitDoneCalls, QueueGetCalls, ExportReferenceCalls, ReceiveEndCalls,
     ReceiveRejectCalls
     DEF Proceed
<1>3. ASSUME NEW t \in Tasks, ReceiveNothing(t) PROVE CallInv'
  BY <1>3, ReceiveEndCalls
<1>4. CASE CleanUp
  BY <1>4, CleanUpBeginCalls, CleanUpListCalls, CleanUpPipeCalls, CleanUpTasksCalls
     DEF CleanUp
<1>5. ASSUME NEW m \in MsgIds, NEW p \in PipeIds, NEW on \in BOOLEAN, RouteCmd(m, p, on)
      PROVE  CallInv'
  BY <1>5, RoutesCalls
<1>6. CASE UNCHANGED vars
  BY <1>6, CallsUntouched DEF vars, pipeVars, esVars
<1> QED
  BY <1>1, <1>2, <1>3, <1>4, <1>5, <1>6 DEF Next

-----------------------------------------------------------------------------
(* What is on the queues, and what goes with them                          *)

\* A call that makes a queue, empties it or deletes it.
AtQueue == Creating \cup {"drain", "queue_delete"}

\* Two tasks that delete a pipe delete two pipes, and neither exists.
LEMMA DeleterAlone ==
  ASSUME IInv, NEW t \in Tasks, pc[t] \in {"drain", "queue_delete"}
  PROVE  /\ pid[t] \in PipeIds /\ Live(pid[t]) /\ ~Match(pid[t]) /\ Claims(t)
         /\ \A u \in Tasks : Claims(u) /\ pid[u] = pid[t] => u = t
<1>1. Claims(t)
  BY DEF Claims, Deleting
<1>2. pid[t] \in PipeIds /\ pipeId[SlotOf(pid[t])] = RESERVED
      /\ \A u \in Tasks : Claims(u) /\ pid[u] = pid[t] => u = t
  BY <1>1 DEF IInv, SlotClaims
<1> QED
  BY <1>1, <1>2 DEF Live, Match, PipeIds, RESERVED

\* Before a pipe is made it is not live.
LEMMA FreshNotLive ==
  ASSUME FreshOK, NEW p \in PipeIds, Fresh(p)
  PROVE  ~Live(p)
BY DEF FreshOK, Live, Creating

\* The tasks that still write to a pipe are senders.
LEMMA WritersSend ==
  ASSUME CallsOK, SendingOK, NEW p
  PROVE  /\ {u \in Tasks : Pending(u, p)} \subseteq Senders
         /\ IsFiniteSet(Senders) /\ Cardinality(Senders) \in Nat
         /\ IsFiniteSet({u \in Tasks : Pending(u, p)})
         /\ Cardinality({u \in Tasks : Pending(u, p)}) \in Nat
         /\ Cardinality({u \in Tasks : Pending(u, p)}) <= Cardinality(Senders)
<1> DEFINE W == {u \in Tasks : Pending(u, p)}
<1>1. W \subseteq Senders
  BY DEF CallsOK, CallOK, SendingOK, Pending, Writing, Sending
<1>2. IsFiniteSet(Senders) /\ IsFiniteSet(W)
  BY FiniteAssumption, FS_Subset DEF Senders
<1> QED
  BY <1>1, <1>2, FS_Subset, FS_CardinalityType

\* Fewer writes, and no more messages: no more can come too late.
LEMMA LateKept ==
  ASSUME IInv, CallInv, QueueInv, QueuesOK',
         \A u \in Tasks : pc'[u] = "queue_delete" => pc[u] = "queue_delete" /\ pid'[u] = pid[u],
         \A p \in PipeIds : Len(queue'[p]) <= Len(queue[p]),
         \A u \in Tasks, p \in PipeIds : Pending(u, p)' => Pending(u, p) \/ Match(p)
  PROVE  LateOK'
<1> SUFFICES ASSUME NEW t \in Tasks, pc'[t] = "queue_delete"
             PROVE  Len(queue'[pid'[t]]) + Cardinality({u \in Tasks : Pending(u, pid[t])'}) <= Cardinality(Senders)
  BY DEF LateOK, Senders
<1>1. pc[t] = "queue_delete" /\ pid'[t] = pid[t]
  OBVIOUS
<1> PICK p \in PipeIds : p = pid[t] /\ ~Match(p)
  BY <1>1, DeleterAlone
<1> DEFINE W == {u \in Tasks : Pending(u, p)}
           V == {u \in Tasks : Pending(u, p)'}
<1>2. V \subseteq W /\ IsFiniteSet(W) /\ Cardinality(W) \in Nat /\ Cardinality(Senders) \in Nat
  BY WritersSend DEF CallInv, QueueInv
<1>3. Cardinality(V) \in Nat /\ Cardinality(V) <= Cardinality(W)
  BY <1>2, FS_Subset, FS_CardinalityType
<1>4. Len(queue[p]) + Cardinality(W) <= Cardinality(Senders)
  BY <1>1 DEF QueueInv, LateOK
<1>5. Len(queue'[p]) \in Nat /\ Len(queue[p]) \in Nat /\ Len(queue'[p]) <= Len(queue[p])
  BY DEF QueuesOK, IInv, TypeOK
<1>6. V = {u \in Tasks : Pending(u, pid[t])'}
  BY <1>1 DEF Pending
<1> HIDE DEF W, V
<1>7. Len(queue'[p]) + Cardinality(V) <= Cardinality(Senders)
  BY <1>2, <1>3, <1>4, <1>5
<1> QED
  BY <1>1, <1>6, <1>7

\* A step that adds to no queue, and neither makes a pipe nor ends one.
LEMMA QueueParts ==
  ASSUME QueueInv, UNCHANGED <<pipeApp, creator, qcap, lost>>,
         \A p \in PipeIds : queue'[p] # <<>> => queue[p] # <<>>,
         \A p \in PipeIds : (Live(p)' <=> Live(p)) /\ (Fresh(p)' <=> Fresh(p)),
         \A u \in Tasks : pc[u] = "created" => pc'[u] = "created" /\ pid'[u] = pid[u],
         \A u \in Tasks : pc'[u] \in Sending \cup {"tx_allocate"} => pc[u] \in Sending \cup {"tx_allocate"}
  PROVE  LiveOK' /\ MakersOK' /\ GoneOK' /\ FewLost' /\ SendingOK'
<1>1. LiveOK'
  BY DEF QueueInv, LiveOK
<1>2. MakersOK'
  BY DEF QueueInv, MakersOK
<1>3. GoneOK'
  BY DEF QueueInv, GoneOK
<1>4. FewLost' /\ SendingOK'
  BY DEF QueueInv, FewLost, SendingOK, Senders
<1> QED
  BY <1>1, <1>2, <1>3, <1>4

\* A step that touches no queue.
LEMMA QueueFrame ==
  ASSUME IInv, IInv', CallInv, QueueInv, UNCHANGED queueVars,
         \A p \in PipeIds : Live(p)' <=> Live(p),
         \A p \in PipeIds : Live(p) => UNCHANGED <<pipeApp[SlotOf(p)], creator[p]>>,
         \A p \in PipeIds : Fresh(p)' => Fresh(p),
         \A u \in Tasks : pc[u] = "created" => UNCHANGED <<pc[u], pid[u]>>,
         \A u \in Tasks : pc'[u] = "queue_delete" => pc[u] = "queue_delete" /\ pid'[u] = pid[u],
         \A u \in Tasks : pc'[u] \in Sending \cup {"tx_allocate"} => u \in Senders,
         \A u \in Tasks, p \in PipeIds : Pending(u, p)' => Pending(u, p) \/ Match(p)
  PROVE  QueueInv'
<1> USE DEF IInv, TypeOK
<1>1. UNCHANGED <<qcap, queue, lost>>
  BY DEF queueVars
<1>2. \A p \in PipeIds : Len(queue'[p]) <= Len(queue[p])
  BY <1>1 DEF QueuesOK
<1>3. LateOK'
  BY <1>2, LateKept
<1>4. LiveOK'
  BY <1>1 DEF QueueInv, LiveOK
<1>5. MakersOK' /\ GoneOK' /\ SendingOK' /\ FewLost'
  BY <1>1 DEF QueueInv, MakersOK, GoneOK, SendingOK, FewLost, Senders
<1> QED
  BY <1>3, <1>4, <1>5 DEF QueueInv

\* The same of a task that neither makes a pipe nor deletes one.
LEMMA QuietQueues ==
  ASSUME IInv, IInv', CallInv, QueueInv, NEW t \in Tasks,
         UNCHANGED <<pipeId, pipeApp, lastPipe, creator, queueVars>>,
         \A u \in Tasks : u # t => UNCHANGED <<pc[u], pid[u]>>,
         pc[t] \in AtQueue \/ pc'[t] \in AtQueue => UNCHANGED <<pc[t], pid[t]>>,
         pc'[t] \in Sending \cup {"tx_allocate"} => t \in Senders,
         \A u \in Tasks, p \in PipeIds : Pending(u, p)' => Pending(u, p) \/ Match(p)
  PROVE  QueueInv'
<1>1. \A u \in Tasks : pc[u] \in AtQueue \/ pc'[u] \in AtQueue => UNCHANGED <<pc[u], pid[u]>>
  OBVIOUS
<1>2. \A p \in PipeIds : Live(p)' <=> Live(p)
  BY <1>1 DEF Live, Match, AtQueue
<1>3. \A p \in PipeIds : Fresh(p)' => Fresh(p)
  BY <1>1 DEF Fresh, AtQueue
<1>4. \A u \in Tasks : /\ pc[u] = "created" => UNCHANGED <<pc[u], pid[u]>>
                       /\ pc'[u] = "queue_delete" => pc[u] = "queue_delete" /\ pid'[u] = pid[u]
  BY <1>1 DEF AtQueue, Creating
<1>5. \A u \in Tasks : pc'[u] \in Sending \cup {"tx_allocate"} => u \in Senders
  BY DEF QueueInv, SendingOK
<1> QED
  BY <1>2, <1>3, <1>4, <1>5, QueueFrame

\* A slot that is reserved for a new pipe was nobody's.
LEMMA CreateReserveQueues ==
  ASSUME IInv, IInv', CallInv, QueueInv, NEW t \in Tasks, CreateReserve(t)
  PROVE  QueueInv'
<1> USE DEF IInv, TypeOK
<1> DEFINE n == FindNext
<1>1. /\ n \in PipeIds /\ SlotOf(n) \in Slots /\ pipeId[SlotOf(n)] = FREE /\ n > lastPipe
  BY NextIsNew DEF CreateReserve
<1>2. /\ pc[t] = "idle" /\ pc' = [pc EXCEPT ![t] = "create"] /\ pid' = [pid EXCEPT ![t] = n] /\ lastPipe' = n
      /\ pipeId' = [pipeId EXCEPT ![SlotOf(n)] = RESERVED] /\ pipeApp' = [pipeApp EXCEPT ![SlotOf(n)] = NoApp]
      /\ UNCHANGED <<queueVars, todo, creator>>
  BY DEF CreateReserve, Begins, GoTo
<1> HIDE DEF n
<1>3. /\ pc'[t] = "create" /\ pid'[t] = n
      /\ \A u \in Tasks : u # t => UNCHANGED <<pc[u], pid[u]>>
  BY <1>2 DEF TasksOK
<1>4. \A p \in PipeIds : Match(p)' <=> Match(p)
  BY <1>1, <1>2 DEF Match, PipesOK, PipeIds, FREE, RESERVED
<1>5. \A p \in PipeIds : Live(p)' <=> Live(p)
  BY <1>2, <1>3, <1>4 DEF Live
<1>6. ASSUME NEW p \in PipeIds, Live(p) PROVE UNCHANGED <<pipeApp[SlotOf(p)], creator[p]>>
  <2>1. pipeId[SlotOf(p)] # FREE
    BY <1>6 DEF Live, Match, SlotClaims, Claims, Deleting, PipeIds, FREE, RESERVED
  <2> QED
    BY <1>1, <1>2, <2>1 DEF PipesOK
<1>7. \A p \in PipeIds : Fresh(p)' => Fresh(p)
  BY <1>1, <1>2, <1>3 DEF Fresh, PipesOK, PipeIds
<1>8. \A u \in Tasks : /\ pc[u] = "created" => UNCHANGED <<pc[u], pid[u]>>
                       /\ pc'[u] = "queue_delete" => pc[u] = "queue_delete" /\ pid'[u] = pid[u]
                       /\ pc'[u] \in Sending \cup {"tx_allocate"} => u \in Senders
  BY <1>2, <1>3 DEF QueueInv, SendingOK, Sending
<1>9. \A u \in Tasks, p \in PipeIds : Pending(u, p)' => Pending(u, p)
  BY <1>2 DEF Pending
<1> QED
  BY <1>2, <1>5, <1>6, <1>7, <1>8, <1>9, QueueFrame

\* A queue is made for a pipe that will be.
LEMMA CreateQueueQueues ==
  ASSUME IInv, IInv', CallInv, QueueInv, NEW t \in Tasks, CreateQueue(t)
  PROVE  QueueInv'
<1> USE DEF IInv, TypeOK
<1>1. /\ pc[t] = "create" /\ pid[t] \in PipeIds
      /\ UNCHANGED <<pipeVars, queue, lost, pid, todo, creator>>
      /\ pc'[t] \in {"created", "create_failed"} /\ \A u \in Tasks : u # t => pc'[u] = pc[u]
      /\ \A p \in PipeIds : p # pid[t] => qcap'[p] = qcap[p]
      /\ pc'[t] = "create_failed" => UNCHANGED qcap
  BY DEF CreateQueue, GoTo, TasksOK, QueuesOK, SlotClaims, Claims, Creating
<1>2. \A p \in PipeIds : /\ Live(p)' <=> Live(p)
                         /\ Fresh(p)' <=> Fresh(p)
  BY <1>1 DEF Live, Fresh, Match, Creating, pipeVars
<1>3. LiveOK' /\ GoneOK' /\ FewLost' /\ SendingOK'
  BY <1>1, <1>2 DEF QueueInv, LiveOK, GoneOK, FewLost, SendingOK, Senders, Sending, pipeVars
<1>4. MakersOK'
  BY <1>1, <1>2 DEF QueueInv, MakersOK
<1>5. LateOK'
  <2>1. \A u \in Tasks : pc'[u] = "queue_delete" => pc[u] = "queue_delete" /\ pid'[u] = pid[u]
    BY <1>1
  <2>2. \A p \in PipeIds : Len(queue'[p]) <= Len(queue[p])
    BY <1>1 DEF QueuesOK
  <2>3. \A u \in Tasks, p \in PipeIds : Pending(u, p)' => Pending(u, p)
    BY <1>1 DEF Pending
  <2> QED
    BY <2>1, <2>2, <2>3, LateKept
<1> QED
  BY <1>3, <1>4, <1>5 DEF QueueInv

\* The pipe is there, and its creator's.
LEMMA CreateFinishQueues ==
  ASSUME IInv, IInv', CallInv, QueueInv, NEW t \in Tasks, CreateFinish(t)
  PROVE  QueueInv'
<1> USE DEF IInv, TypeOK
<1>1. Claims(t) /\ pid[t] \in PipeIds /\ pc[t] = "created" /\ opApp[t] = AppOf[t]
  BY DEF CreateFinish, SlotClaims, Claims, Creating, CallInv, CallsOK, CallOK
<1> PICK p \in PipeIds : p = pid[t]
  BY <1>1
<1>2. SlotOf(p) \in Slots /\ pipeId[SlotOf(p)] = RESERVED /\ Fresh(p) /\ ~Live(p)
  <2>1. SlotOf(p) \in Slots /\ pipeId[SlotOf(p)] = RESERVED /\ Fresh(p)
    BY <1>1, SlotInRange DEF SlotClaims, PipeIds, Fresh, Creating
  <2> QED
    BY <2>1, FreshNotLive DEF CallInv
<1>3. /\ pipeId' = [pipeId EXCEPT ![SlotOf(p)] = p] /\ pipeApp' = [pipeApp EXCEPT ![SlotOf(p)] = AppOf[t]]
      /\ creator' = [creator EXCEPT ![p] = t]
      /\ pc'[t] = "idle" /\ pid'[t] = FREE
      /\ \A u \in Tasks : u # t => UNCHANGED <<pc[u], pid[u]>>
      /\ UNCHANGED <<lastPipe, qcap, queue, lost, todo>>
  BY <1>1 DEF CreateFinish, GoTo, TasksOK, queueVars
<1>4. ASSUME NEW q \in PipeIds, Live(q) PROVE q # p /\ SlotOf(q) # SlotOf(p) /\ SlotOf(q) \in Slots
  <2>1. Match(q) => SlotOf(q) # SlotOf(p)
    BY <1>2 DEF Match, PipeIds, RESERVED
  <2>2. ASSUME NEW u \in Tasks, pc[u] \in {"drain", "queue_delete"}, pid[u] = q PROVE SlotOf(q) # SlotOf(p)
    BY <1>1, <2>2 DEF SlotClaims, Claims, Deleting
  <2> QED
    BY <1>2, <1>4, <2>1, <2>2, SlotInRange DEF Live, PipeIds
<1>5. \A q \in PipeIds : Match(q)' <=> Match(q) \/ q = p
  BY <1>2, <1>3, SlotInRange DEF Match, PipesOK, PipeIds, RESERVED
<1>6. \A q \in PipeIds : Live(q)' <=> Live(q) \/ q = p
  BY <1>1, <1>3, <1>5 DEF Live
<1>7. \A q \in PipeIds : Fresh(q)' => Fresh(q)
  BY <1>3 DEF Fresh, Creating
<1>8. LiveOK'
  <2>1. ASSUME NEW q \in PipeIds, queue'[q] # <<>> PROVE Live(q)'
    BY <1>3, <1>6, <2>1 DEF QueueInv, LiveOK
  <2>2. ASSUME NEW q \in PipeIds, Live(q)' PROVE pipeApp'[SlotOf(q)] = AppOf[creator'[q]]
    BY <1>2, <1>3, <1>4, <1>6, <2>2 DEF QueueInv, LiveOK, PipesOK, StatsOK
  <2> QED
    BY <2>1, <2>2 DEF LiveOK
<1>9. MakersOK'
  BY <1>1, <1>3, <1>6 DEF QueueInv, MakersOK
<1>10. GoneOK' /\ FewLost' /\ SendingOK'
  BY <1>2, <1>3, <1>6, <1>7 DEF QueueInv, GoneOK, FewLost, SendingOK, Senders, Sending
<1>11. LateOK'
  <2>1. \A u \in Tasks : pc'[u] = "queue_delete" => pc[u] = "queue_delete" /\ pid'[u] = pid[u]
    BY <1>3
  <2>2. \A q \in PipeIds : Len(queue'[q]) <= Len(queue[q])
    BY <1>3 DEF QueuesOK
  <2>3. \A u \in Tasks, q \in PipeIds : Pending(u, q)' => Pending(u, q)
    BY <1>3 DEF Pending
  <2> QED
    BY <2>1, <2>2, <2>3, LateKept
<1> QED
  BY <1>8, <1>9, <1>10, <1>11 DEF QueueInv

\* A slot that is given back was no pipe's any more.
LEMMA SettledQueues ==
  ASSUME IInv, IInv', CallInv, QueueInv, NEW t \in Tasks, CreateAbort(t) \/ DeleteFinish(t)
  PROVE  QueueInv'
<1> USE DEF IInv, TypeOK
<1>1. /\ pc[t] \in {"create_failed", "delete_finish"} /\ pipeId' = [pipeId EXCEPT ![SlotOf(pid[t])] = FREE]
      /\ pc'[t] \in {"idle", "clean_pipes"} /\ pid'[t] = FREE
      /\ \A u \in Tasks : u # t => UNCHANGED <<pc[u], pid[u]>>
      /\ UNCHANGED <<pipeApp, lastPipe, creator, todo, queueVars>>
  BY DEF CreateAbort, DeleteFinish, GoTo, TasksOK
<1>2. pid[t] \in PipeIds /\ SlotOf(pid[t]) \in Slots /\ pipeId[SlotOf(pid[t])] = RESERVED
  BY <1>1, SlotInRange DEF SlotClaims, Claims, Creating, Deleting, PipeIds
<1>3. \A p \in PipeIds : Match(p)' <=> Match(p)
  BY <1>1, <1>2 DEF Match, PipesOK, PipeIds, FREE, RESERVED
<1>4. \A p \in PipeIds : Live(p)' <=> Live(p)
  BY <1>1, <1>3 DEF Live
<1>5. \A p \in PipeIds : Fresh(p)' => Fresh(p)
  BY <1>1 DEF Fresh, Creating
<1>6. \A u \in Tasks : /\ pc[u] = "created" => UNCHANGED <<pc[u], pid[u]>>
                       /\ pc'[u] = "queue_delete" => pc[u] = "queue_delete" /\ pid'[u] = pid[u]
                       /\ pc'[u] \in Sending \cup {"tx_allocate"} => u \in Senders
  BY <1>1 DEF QueueInv, SendingOK, Sending
<1>7. \A u \in Tasks, p \in PipeIds : Pending(u, p)' => Pending(u, p)
  BY <1>1 DEF Pending
<1> QED
  BY <1>1, <1>4, <1>5, <1>6, <1>7, QueueFrame

\* A pipe that is taken down is live until its queue goes.
LEMMA TearDownQueues ==
  ASSUME IInv, IInv', CallInv, QueueInv, NEW t \in Tasks, NEW p \in PipeIds, Match(p), ~Claims(t), TearDown(t, p)
  PROVE  QueueInv'
<1> USE DEF IInv, TypeOK
<1>1. /\ pc[t] \notin Creating \cup Deleting /\ pc'[t] = "drain" /\ pid'[t] = p
      /\ pipeId' = [pipeId EXCEPT ![SlotOf(p)] = RESERVED] /\ SlotOf(p) \in Slots
      /\ \A u \in Tasks : u # t => UNCHANGED <<pc[u], pid[u]>>
      /\ UNCHANGED <<pipeApp, lastPipe, creator, todo, queueVars>>
  BY SlotInRange DEF TearDown, GoTo, TasksOK, Claims, PipeIds
<1>2. \A q \in PipeIds : Match(q)' <=> Match(q) /\ q # p
  BY <1>1 DEF Match, PipesOK, PipeIds, RESERVED
<1>3. \A q \in PipeIds : Live(q)' <=> Live(q)
  BY <1>1, <1>2 DEF Live, Deleting
<1>4. \A q \in PipeIds : Fresh(q)' => Fresh(q)
  BY <1>1 DEF Fresh, Creating
<1>5. \A u \in Tasks : /\ pc[u] = "created" => UNCHANGED <<pc[u], pid[u]>>
                       /\ pc'[u] = "queue_delete" => pc[u] = "queue_delete" /\ pid'[u] = pid[u]
                       /\ pc'[u] \in Sending \cup {"tx_allocate"} => u \in Senders
  BY <1>1 DEF QueueInv, SendingOK, Sending, Creating
<1>6. \A u \in Tasks, q \in PipeIds : Pending(u, q)' => Pending(u, q)
  BY <1>1 DEF Pending
<1> QED
  BY <1>1, <1>3, <1>4, <1>5, <1>6, QueueFrame

\* When the drain finds nothing more, no more can come than there are writes to be made.
LEMMA DrainGetQueues ==
  ASSUME IInv, IInv', CallInv, QueueInv, NEW t \in Tasks, DrainGet(t)
  PROVE  QueueInv'
<1> USE DEF IInv, TypeOK
<1>1. /\ pc[t] = "drain" /\ pid[t] \in PipeIds
      /\ UNCHANGED <<pipeVars, qcap, lost, pid, todo, creator>>
      /\ \A u \in Tasks : u # t => pc'[u] = pc[u]
      /\ \A p \in PipeIds : p # pid[t] => queue'[p] = queue[p]
      /\ \/ pc'[t] = "drain" /\ queue[pid[t]] # <<>> /\ queue'[pid[t]] = Tail(queue[pid[t]])
         \/ pc'[t] = "queue_delete" /\ queue[pid[t]] = <<>> /\ UNCHANGED queue
  <2>1. pc[t] = "drain" /\ pid[t] \in PipeIds /\ UNCHANGED <<pipeVars, qcap, lost, pid, todo, creator>>
    BY DeleterAlone DEF DrainGet
  <2>2. CASE queue[pid[t]] # <<>>
    <3>1. queue' = [queue EXCEPT ![pid[t]] = Tail(@)] /\ UNCHANGED pc
      BY <2>2 DEF DrainGet
    <3> QED
      BY <2>1, <2>2, <3>1 DEF QueuesOK
  <2>3. CASE queue[pid[t]] = <<>>
    <3>1. pc' = [pc EXCEPT ![t] = "queue_delete"] /\ UNCHANGED queue
      BY <2>3 DEF DrainGet, GoTo
    <3> QED
      BY <2>1, <2>3, <3>1 DEF TasksOK
  <2> QED
    BY <2>2, <2>3
<1>2. \A p \in PipeIds : /\ Live(p)' <=> Live(p)
                         /\ Fresh(p)' <=> Fresh(p)
  BY <1>1 DEF Live, Fresh, Match, Creating, pipeVars
<1>3. \A p \in PipeIds : /\ queue'[p] # <<>> => queue[p] # <<>>
                         /\ Len(queue'[p]) <= Len(queue[p])
  <2> TAKE p \in PipeIds
  <2>1. queue[p] \in Seq(Bufs) /\ Len(queue[p]) \in Nat
    BY DEF QueuesOK
  <2>2. CASE queue'[p] = queue[p]
    BY <2>1, <2>2
  <2>3. CASE queue[p] # <<>> /\ queue'[p] = Tail(queue[p])
    BY <2>1, <2>3
  <2> QED
    BY <1>1, <2>2, <2>3
<1>4. LiveOK' /\ MakersOK' /\ GoneOK' /\ FewLost' /\ SendingOK'
  <2>1. \A u \in Tasks : /\ pc[u] = "created" => pc'[u] = "created" /\ pid'[u] = pid[u]
                         /\ pc'[u] \in Sending \cup {"tx_allocate"} => pc[u] \in Sending \cup {"tx_allocate"}
    BY <1>1 DEF Sending
  <2>2. UNCHANGED <<pipeApp, creator, qcap, lost>>
    BY <1>1 DEF pipeVars
  <2> QED
    BY <1>2, <1>3, <2>1, <2>2, QueueParts
<1>5. \A u \in Tasks, p \in PipeIds : Pending(u, p)' <=> Pending(u, p)
  BY <1>1 DEF Pending
<1>6. LateOK'
  <2>1. CASE pc'[t] = "drain"
    <3>1. \A u \in Tasks : pc'[u] = "queue_delete" => pc[u] = "queue_delete" /\ pid'[u] = pid[u]
      BY <1>1, <2>1
    <3> QED
      BY <1>3, <1>5, <3>1, LateKept
  <2>2. CASE pc'[t] = "queue_delete"
    <3>1. UNCHANGED <<queue, pid, todo>> /\ queue[pid[t]] = <<>> /\ \A u \in Tasks : u # t => pc'[u] = pc[u]
      BY <1>1, <2>2
    <3> SUFFICES ASSUME NEW u \in Tasks, pc'[u] = "queue_delete"
                 PROVE  Len(queue[pid[u]]) + Cardinality({v \in Tasks : Pending(v, pid[u])}) <= Cardinality(Senders)
      BY <3>1 DEF LateOK, Pending, Senders
    <3>2. CASE u = t
      <4> DEFINE W == {v \in Tasks : Pending(v, pid[t])}
      <4>1. Len(queue[pid[t]]) = 0
        BY <3>1
      <4>2. Cardinality(W) \in Nat /\ Cardinality(W) <= Cardinality(Senders)
        BY WritersSend DEF CallInv, QueueInv
      <4> HIDE DEF W
      <4>3. Len(queue[pid[t]]) + Cardinality(W) <= Cardinality(Senders)
        BY <4>1, <4>2
      <4> QED
        BY <3>2, <4>3 DEF W
    <3>3. CASE u # t
      BY <3>1, <3>3 DEF QueueInv, LateOK
    <3> QED
      BY <3>2, <3>3
  <2> QED
    BY <1>1, <2>1, <2>2
<1> QED
  BY <1>4, <1>6 DEF QueueInv

\* What goes with a queue came too late to be drained.
LEMMA QueueDeleteQueues ==
  ASSUME IInv, IInv', CallInv, QueueInv, NEW t \in Tasks, QueueDelete(t)
  PROVE  QueueInv'
<1> USE DEF IInv, TypeOK
<1>1. /\ pc[t] = "queue_delete" /\ pc'[t] = "delete_finish" /\ pid[t] \in PipeIds
      /\ UNCHANGED <<pipeVars, pid, todo, creator>>
      /\ \A u \in Tasks : u # t => pc'[u] = pc[u]
  BY DeleterAlone DEF QueueDelete, GoTo, TasksOK
<1> PICK p \in PipeIds : p = pid[t]
  BY <1>1
<1>2. /\ qcap'[p] = 0 /\ queue'[p] = <<>> /\ lost'[p] = queue[p]
      /\ \A q \in PipeIds : q # p => UNCHANGED <<qcap[q], queue[q], lost[q]>>
  BY DEF QueueDelete, QueuesOK
<1>3. Live(p) /\ ~Match(p) /\ \A u \in Tasks : pc[u] \in {"drain", "queue_delete"} /\ pid[u] = p => u = t
  <2>1. Live(p) /\ ~Match(p) /\ \A u \in Tasks : Claims(u) /\ pid[u] = p => u = t
    BY <1>1, DeleterAlone
  <2> QED
    BY <2>1 DEF Claims, Deleting
<1>4. \A q \in PipeIds : Live(q)' <=> Live(q) /\ q # p
  BY <1>1, <1>3 DEF Live, Match, pipeVars
<1>5. \A q \in PipeIds : Fresh(q)' <=> Fresh(q)
  BY <1>1 DEF Fresh, Creating, pipeVars
<1>6. ~Fresh(p)
  BY <1>3, FreshNotLive DEF CallInv
<1>7. LiveOK' /\ MakersOK' /\ GoneOK' /\ SendingOK'
  BY <1>1, <1>2, <1>4, <1>5, <1>6 DEF QueueInv, LiveOK, MakersOK, GoneOK, SendingOK, Senders, Sending, pipeVars
<1>8. FewLost'
  <2>1. Len(queue[p]) + Cardinality({u \in Tasks : Pending(u, p)}) <= Cardinality(Senders)
    BY <1>1 DEF QueueInv, LateOK
  <2>2. Cardinality({u \in Tasks : Pending(u, p)}) \in Nat /\ Cardinality(Senders) \in Nat
    BY WritersSend DEF CallInv, QueueInv
  <2>3. Len(queue[p]) \in Nat
    BY DEF QueuesOK
  <2>4. Len(queue[p]) <= Cardinality(Senders)
    BY <2>1, <2>2, <2>3
  <2> QED
    BY <1>2, <2>4 DEF QueueInv, FewLost, Senders
<1>9. LateOK'
  <2>1. \A u \in Tasks : pc'[u] = "queue_delete" => pc[u] = "queue_delete" /\ pid'[u] = pid[u]
    BY <1>1
  <2>2. ASSUME NEW q \in PipeIds PROVE Len(queue'[q]) <= Len(queue[q])
    <3>1. Len(queue[q]) \in Nat
      BY DEF QueuesOK
    <3>2. CASE q = p
      <4>1. Len(queue'[q]) = 0
        BY <1>2, <3>2
      <4> QED
        BY <3>1, <4>1
    <3>3. CASE q # p
      BY <1>2, <3>1, <3>3
    <3> QED
      BY <3>2, <3>3
  <2>3. \A u \in Tasks, q \in PipeIds : Pending(u, q)' => Pending(u, q)
    BY <1>1 DEF Pending
  <2> QED
    BY <2>1, <2>2, <2>3, LateKept
<1> QED
  BY <1>7, <1>8, <1>9 DEF QueueInv

\* A write goes to a queue that exists, and is one fewer to be made.
LEMMA QueuePutQueues ==
  ASSUME IInv, IInv', CallInv, QueueInv, NEW t \in Tasks, QueuePut(t)
  PROVE  QueueInv'
<1> USE DEF IInv, TypeOK
<1>1. NextWrite(t) \in todo[t] /\ NextWrite(t)[2] \in PipeIds /\ pc[t] = "tx_put" /\ own[t] \in Bufs
  BY NextWriteFound DEF QueuePut, SendingHasBuffer, Sending
<1> PICK w \in todo[t] : w = NextWrite(t)
  BY <1>1
<1> PICK p \in PipeIds : p = w[2]
  BY <1>1
<1>2. /\ todo' = [todo EXCEPT ![t] = @ \ {w}]
      /\ UNCHANGED <<pipeVars, qcap, lost, creator>>
      /\ \/ Len(queue[p]) < qcap[p] /\ queue' = [queue EXCEPT ![p] = Append(@, own[t])] /\ UNCHANGED <<pc, pid>>
         \/ UNCHANGED queue /\ pc'[t] = "tx_undo" /\ \A u \in Tasks : u # t => UNCHANGED <<pc[u], pid[u]>>
  BY DEF QueuePut, GoTo, TasksOK
<1>3. Pending(t, p) /\ ~Fresh(p)
  <2>1. Pending(t, p)
    BY DEF Pending
  <2> QED
    BY <2>1 DEF CallInv, FreshOK
<1>4. \A u \in Tasks : /\ pc'[u] \in AtQueue \/ pc[u] \in AtQueue => UNCHANGED <<pc[u], pid[u]>>
                       /\ pc'[u] \in Sending \cup {"tx_allocate"} => pc[u] \in Sending \cup {"tx_allocate"}
  BY <1>1, <1>2 DEF AtQueue, Creating, Sending
<1>5. \A q \in PipeIds : /\ Live(q)' <=> Live(q)
                         /\ Fresh(q)' <=> Fresh(q)
  BY <1>2, <1>4 DEF Live, Fresh, Match, AtQueue, pipeVars
<1>6. \A u \in Tasks, q \in PipeIds : Pending(u, q)' <=> Pending(u, q) /\ ~ (u = t /\ q = p)
  <2>1. \A v \in todo[t] : v[2] = p => v = w
    BY DEF CallInv, CallsOK, CallOK
  <2> QED
    BY <1>2, <2>1 DEF Pending, TasksOK
<1>7. SendingOK' /\ GoneOK' /\ FewLost'
  BY <1>2, <1>4, <1>5 DEF QueueInv, SendingOK, GoneOK, FewLost, Senders
<1>8. MakersOK'
  BY <1>2, <1>4, <1>5 DEF QueueInv, MakersOK, AtQueue, Creating
<1>9. CASE UNCHANGED queue
  <2>1. LiveOK'
    BY <1>2, <1>5, <1>9 DEF QueueInv, LiveOK, pipeVars
  <2>2. LateOK'
    <3>1. \A u \in Tasks : pc'[u] = "queue_delete" => pc[u] = "queue_delete" /\ pid'[u] = pid[u]
      BY <1>4 DEF AtQueue
    <3>2. \A q \in PipeIds : Len(queue'[q]) <= Len(queue[q])
      BY <1>9 DEF QueuesOK
    <3> QED
      BY <1>6, <3>1, <3>2, LateKept
  <2> QED
    BY <1>7, <1>8, <2>1, <2>2 DEF QueueInv
<1>10. CASE Len(queue[p]) < qcap[p] /\ queue' = [queue EXCEPT ![p] = Append(@, own[t])] /\ UNCHANGED <<pc, pid>>
  <2>1. /\ Len(queue[p]) \in Nat /\ qcap[p] > 0 /\ Len(queue'[p]) = Len(queue[p]) + 1
        /\ \A q \in PipeIds : q # p => queue'[q] = queue[q]
    BY <1>1, <1>10 DEF QueuesOK
  <2>2. Live(p)
    <3>1. \A u \in Tasks : ~ (pc[u] = "created" /\ pid[u] = p)
      BY <1>3 DEF Fresh, Creating
    <3> QED
      BY <2>1, <3>1 DEF QueueInv, MakersOK
  <2>3. LiveOK'
    BY <1>2, <1>5, <2>1, <2>2 DEF QueueInv, LiveOK, pipeVars
  <2>4. LateOK'
    <3> SUFFICES ASSUME NEW u \in Tasks, pc[u] = "queue_delete"
                 PROVE  Len(queue'[pid[u]]) + Cardinality({v \in Tasks : \E x \in todo'[v] : x[2] = pid[u]}) <= Cardinality(Senders)
      BY <1>10 DEF LateOK, Pending, Senders
    <3> PICK q \in PipeIds : q = pid[u]
      BY DeleterAlone
    <3> DEFINE W == {v \in Tasks : Pending(v, q)}
               V == {v \in Tasks : Pending(v, q)'}
    <3>1. Len(queue[q]) + Cardinality(W) <= Cardinality(Senders)
      BY DEF QueueInv, LateOK
    <3>2. CASE q # p
      <4>1. V = W /\ queue'[q] = queue[q]
        BY <1>6, <2>1, <3>2
      <4> HIDE DEF V, W
      <4>2. Len(queue'[q]) + Cardinality(V) <= Cardinality(Senders)
        BY <3>1, <4>1
      <4> QED
        BY <4>2 DEF V, Pending
    <3>3. CASE q = p
      <4>1. V = W \ {t} /\ t \in W
        BY <1>3, <1>6, <3>3
      <4>2. IsFiniteSet(W) /\ Cardinality(W) \in Nat /\ Cardinality(Senders) \in Nat
        BY WritersSend DEF CallInv, QueueInv
      <4>3. Cardinality(V) = Cardinality(W) - 1
        BY <4>1, <4>2, FS_RemoveElement
      <4> HIDE DEF V, W
      <4>4. Len(queue'[q]) + Cardinality(V) <= Cardinality(Senders)
        BY <2>1, <3>1, <3>3, <4>2, <4>3
      <4> QED
        BY <4>4 DEF V, Pending
    <3> QED
      BY <3>2, <3>3
  <2> QED
    BY <1>7, <1>8, <2>3, <2>4 DEF QueueInv
<1> QED
  BY <1>2, <1>9, <1>10

\* A message that is read is off its queue.
LEMMA QueueGetQueues ==
  ASSUME IInv, IInv', CallInv, QueueInv, NEW t \in Tasks, QueueGet(t)
  PROVE  QueueInv'
<1> USE DEF IInv, TypeOK
<1>1. /\ pc[t] = "rx_get" /\ pc'[t] = "rx_export" /\ pid[t] \in PipeIds /\ queue[pid[t]] # <<>>
      /\ queue' = [queue EXCEPT ![pid[t]] = Tail(@)]
      /\ UNCHANGED <<pipeVars, qcap, lost, pid, todo, creator>>
      /\ \A u \in Tasks : u # t => pc'[u] = pc[u]
  BY DEF QueueGet, GoTo, TasksOK, RunningHasPipe, Receiving
<1>2. \A p \in PipeIds : /\ Live(p)' <=> Live(p)
                         /\ Fresh(p)' <=> Fresh(p)
  BY <1>1 DEF Live, Fresh, Match, Creating, pipeVars
<1>3. \A p \in PipeIds : /\ queue'[p] # <<>> => queue[p] # <<>>
                         /\ Len(queue'[p]) <= Len(queue[p])
  BY <1>1 DEF QueuesOK
<1>4. LiveOK' /\ MakersOK' /\ GoneOK' /\ FewLost' /\ SendingOK'
  <2>1. \A u \in Tasks : /\ pc[u] = "created" => pc'[u] = "created" /\ pid'[u] = pid[u]
                         /\ pc'[u] \in Sending \cup {"tx_allocate"} => pc[u] \in Sending \cup {"tx_allocate"}
    BY <1>1 DEF Sending
  <2>2. UNCHANGED <<pipeApp, creator, qcap, lost>>
    BY <1>1 DEF pipeVars
  <2> QED
    BY <1>2, <1>3, <2>1, <2>2, QueueParts
<1>5. LateOK'
  <2>1. \A u \in Tasks : pc'[u] = "queue_delete" => pc[u] = "queue_delete" /\ pid'[u] = pid[u]
    BY <1>1
  <2>2. \A u \in Tasks, p \in PipeIds : Pending(u, p)' => Pending(u, p)
    BY <1>1 DEF Pending
  <2> QED
    BY <1>3, <2>1, <2>2, LateKept
<1> QED
  BY <1>4, <1>5 DEF QueueInv

\* The tasks that ES deletes were at no queue.
LEMMA CleanUpTasksQueues ==
  ASSUME IInv, IInv', CallInv, QueueInv, CleanUpTasks
  PROVE  QueueInv'
<1> USE TaskAssumption DEF IInv, TypeOK
<1> DEFINE dead == {t \in Tasks : AppOf[t] = victim}
<1>1. pc[ES] = "clean_tasks" /\ ES \notin dead /\ \A t \in dead : pc[t] \in Ended
  BY VictimIsNotES DEF CleanUpTasks, CallInv, AppsOK
<1>2. /\ \A t \in Tasks : t # ES => pc'[t] = IF t \in dead THEN "dead" ELSE pc[t]
      /\ pc'[ES] = "idle"
      /\ \A t \in Tasks : /\ todo'[t] = IF t \in dead THEN {} ELSE todo[t]
                          /\ pid'[t] = IF t \in dead THEN FREE ELSE pid[t]
      /\ UNCHANGED <<pipeVars, queueVars, creator>>
  BY DEF CleanUpTasks
<1> HIDE DEF dead
<1>3. \A t \in Tasks : /\ pc'[t] \in AtQueue \/ pc[t] \in AtQueue => UNCHANGED <<pc[t], pid[t]>>
                       /\ pc'[t] \in Sending \cup {"tx_allocate"} => pc[t] \in Sending \cup {"tx_allocate"}
  BY <1>1, <1>2 DEF AtQueue, Creating, Sending, Ended
<1>4. \A p \in PipeIds : /\ Live(p)' <=> Live(p)
                         /\ Fresh(p)' => Fresh(p)
                         /\ UNCHANGED <<pipeApp[SlotOf(p)], creator[p]>>
  BY <1>2, <1>3 DEF Live, Fresh, Match, AtQueue, pipeVars
<1>5. \A u \in Tasks : /\ pc[u] = "created" => UNCHANGED <<pc[u], pid[u]>>
                       /\ pc'[u] = "queue_delete" => pc[u] = "queue_delete" /\ pid'[u] = pid[u]
                       /\ pc'[u] \in Sending \cup {"tx_allocate"} => u \in Senders
  BY <1>3 DEF QueueInv, SendingOK, AtQueue, Creating
<1>6. \A u \in Tasks, p \in PipeIds : Pending(u, p)' => Pending(u, p)
  BY <1>2 DEF Pending
<1> QED
  BY <1>2, <1>4, <1>5, <1>6, QueueFrame

\* Calls that begin a transmission, and those that go on with one.
LEMMA SendingQueues ==
  ASSUME IInv, IInv', CallInv, QueueInv, NEW t \in Tasks,
         \/ AllocateBegin(t) \/ Allocate(t) \/ FindDestinations(t) \/ UndoPut(t) \/ TransmitDone(t)
         \/ \E m \in MsgIds : TransmitBuffer(t, m)
  PROVE  QueueInv'
<1> USE DEF IInv, TypeOK
<1>1. UNCHANGED <<pipeId, pipeApp, lastPipe, creator, queueVars>>
  BY DEF AllocateBegin, Allocate, FindDestinations, UndoPut, TransmitDone, TransmitBuffer, pipeVars
<1>2. \A u \in Tasks : u # t => UNCHANGED <<pc[u], pid[u]>>
  BY DEF AllocateBegin, Allocate, FindDestinations, UndoPut, TransmitDone, TransmitBuffer, GoTo, TasksOK
<1>3. pc[t] \notin AtQueue /\ pc'[t] \notin AtQueue
  BY DEF AllocateBegin, Allocate, FindDestinations, UndoPut, TransmitDone, TransmitBuffer, GoTo, Begins, TasksOK,
         AtQueue, Creating
<1>4. pc'[t] \in Sending \cup {"tx_allocate"} => t \in Senders
  BY DEF AllocateBegin, Allocate, FindDestinations, UndoPut, TransmitDone, TransmitBuffer, GoTo, Begins, TasksOK,
         QueueInv, SendingOK, Sending, Senders
<1>5. \A u \in Tasks, p \in PipeIds : Pending(u, p)' => Pending(u, p) \/ Match(p)
  <2>1. CASE FindDestinations(t)
    <3>1. (\A v \in todo'[t] : Match(v[2])) /\ \A u \in Tasks : u # t => todo'[u] = todo[u]
      BY <2>1, WritesFound DEF FindDestinations, TasksOK
    <3> QED
      BY <3>1 DEF Pending
  <2>2. CASE ~FindDestinations(t)
    BY <2>2 DEF AllocateBegin, Allocate, UndoPut, TransmitDone, TransmitBuffer, Pending
  <2> QED
    BY <2>1, <2>2
<1> QED
  BY <1>1, <1>2, <1>3, <1>4, <1>5, QuietQueues

\* Calls that have nothing to do with queues.
LEMMA OtherQueues ==
  ASSUME IInv, IInv', CallInv, QueueInv, NEW t \in Tasks,
         \/ ReleaseBuffer(t) \/ Exit(t) \/ DrainRelease(t) \/ ExportReference(t)
         \/ ReceiveAccept(t) \/ ReceiveReject(t) \/ ReceiveNothing(t) \/ \E p \in PipeIds : ReceiveBegin(t, p)
         \/ t = ES /\ (CleanUpList \/ CleanUpZeroCopy \/ \E a \in Apps : CleanUpBegin(a))
  PROVE  QueueInv'
<1> USE DEF IInv, TypeOK
<1>1. UNCHANGED <<pipeId, pipeApp, lastPipe, creator, queueVars, todo>>
  <2>1. CASE ReleaseBuffer(t) \/ Exit(t) \/ DrainRelease(t)
    BY <2>1 DEF ReleaseBuffer, Exit, DrainRelease, pipeVars
  <2>2. ASSUME NEW p, SetPipeId(t, p) PROVE UNCHANGED <<pipeId, pipeApp, lastPipe, creator, queueVars, todo>>
    BY <2>2 DEF SetPipeId
  <2>3. CASE ReceiveReject(t) \/ \E p \in PipeIds : ReceiveBegin(t, p)
    BY <2>2, <2>3 DEF ReceiveReject, ReceiveBegin, pipeVars
  <2>4. CASE ExportReference(t) \/ ReceiveAccept(t) \/ ReceiveNothing(t)
    BY <2>4 DEF ExportReference, ReceiveAccept, ReceiveNothing, pipeVars
  <2>5. CASE CleanUpList \/ CleanUpZeroCopy \/ \E a \in Apps : CleanUpBegin(a)
    BY <2>5 DEF CleanUpList, CleanUpZeroCopy, CleanUpBegin, pipeVars
  <2> QED
    BY <2>1, <2>3, <2>4, <2>5
<1>2. \A u \in Tasks : u # t => UNCHANGED <<pc[u], pid[u]>>
  <2>1. UNCHANGED pc \/ \E l : pc' = [pc EXCEPT ![t] = l]
    BY DEF ReleaseBuffer, Exit, DrainRelease, ExportReference, ReceiveAccept, ReceiveReject, ReceiveNothing,
           ReceiveBegin, SetPipeId, CleanUpList, CleanUpZeroCopy, CleanUpBegin, GoTo
  <2>2. UNCHANGED pid \/ \E p : pid' = [pid EXCEPT ![t] = p]
    BY DEF ReleaseBuffer, Exit, DrainRelease, ExportReference, ReceiveAccept, ReceiveReject, ReceiveNothing,
           ReceiveBegin, SetPipeId, CleanUpList, CleanUpZeroCopy, CleanUpBegin
  <2> QED
    BY <2>1, <2>2 DEF TasksOK
<1>3. pc[t] \in AtQueue \/ pc'[t] \in AtQueue => UNCHANGED <<pc[t], pid[t]>>
  BY DEF ReleaseBuffer, Exit, DrainRelease, ExportReference, ReceiveAccept, ReceiveReject, ReceiveNothing,
         ReceiveBegin, SetPipeId, CleanUpList, CleanUpZeroCopy, CleanUpBegin, GoTo, Begins, TasksOK, AtQueue, Creating
<1>4. pc'[t] \in Sending \cup {"tx_allocate"} => pc'[t] = pc[t]
  BY DEF ReleaseBuffer, Exit, DrainRelease, ExportReference, ReceiveAccept, ReceiveReject, ReceiveNothing,
         ReceiveBegin, SetPipeId, CleanUpList, CleanUpZeroCopy, CleanUpBegin, GoTo, TasksOK, Sending
<1>5. \A u \in Tasks, p \in PipeIds : Pending(u, p)' => Pending(u, p)
  BY <1>1 DEF Pending
<1> QED
  BY <1>1, <1>2, <1>3, <1>4, <1>5, QuietQueues DEF QueueInv, SendingOK

\* A step after which every call is where it was.
LEMMA UntouchedQueues ==
  ASSUME IInv, IInv', CallInv, QueueInv, UNCHANGED <<pipeId, pipeApp, lastPipe, creator, queueVars, pc, pid, todo>>
  PROVE  QueueInv'
<1>1. \A u \in Tasks, p \in PipeIds : Pending(u, p)' => Pending(u, p)
  BY DEF Pending
<1> QED
  BY <1>1, TaskAssumption, QuietQueues DEF QueueInv, SendingOK

\* At first there is no queue.
LEMMA InitQueues == Init => QueueInv
<1> SUFFICES ASSUME Init PROVE QueueInv
  OBVIOUS
<1> USE DEF Init
<1>1. \A p \in PipeIds : ~Live(p)
  BY SlotInRange DEF Live, Match, PipeIds, FREE
<1>2. LiveOK /\ MakersOK /\ GoneOK
  BY <1>1 DEF LiveOK, MakersOK, GoneOK
<1>3. Cardinality(Senders) \in Nat
  BY FiniteAssumption, FS_Subset, FS_CardinalityType DEF Senders
<1>4. FewLost
  BY <1>3 DEF FewLost
<1>5. SendingOK /\ LateOK
  BY DEF SendingOK, LateOK, Sending
<1> QED
  BY <1>2, <1>4, <1>5 DEF QueueInv

\* Every step keeps what is known of the queues.
LEMMA NextQueues == IInv /\ CallInv /\ QueueInv /\ [Next]_vars => QueueInv'
<1> SUFFICES ASSUME IInv, CallInv, QueueInv, [Next]_vars PROVE QueueInv'
  OBVIOUS
<1>0. IInv'
  BY NextSafe
<1>1. ASSUME NEW t \in Tasks, CallBegins(t) PROVE QueueInv'
  <2>1. ASSUME NEW p \in PipeIds, DeleteBegin(t, p) PROVE QueueInv'
    <3>1. Match(p) /\ ~Claims(t) /\ TearDown(t, p)
      BY <2>1 DEF DeleteBegin, Begins, Claims, Creating, Deleting
    <3> QED
      BY <1>0, <3>1, TearDownQueues
  <2>2. ASSUME NEW p \in PipeIds, NEW on \in BOOLEAN, SetPipeOpts(t, p, on) PROVE QueueInv'
    BY <1>0, <2>2, UntouchedQueues DEF SetPipeOpts, taskVars
  <2>3. ASSUME NEW p \in PipeIds, NEW m \in MsgIds, NEW lim \in MsgLims, Subscribe(t, m, p, lim) PROVE QueueInv'
    BY <1>0, <2>3, UntouchedQueues DEF Subscribe, pipeVars, taskVars
  <2>4. ASSUME NEW p \in PipeIds, NEW m \in MsgIds, Unsubscribe(t, m, p) PROVE QueueInv'
    BY <1>0, <2>4, UntouchedQueues DEF Unsubscribe, pipeVars, taskVars
  <2> QED
    BY <1>0, <1>1, <2>1, <2>2, <2>3, <2>4, CreateReserveQueues, SendingQueues, OtherQueues DEF CallBegins
<1>2. ASSUME NEW t \in Tasks, Proceed(t) \/ ReceiveNothing(t) PROVE QueueInv'
  BY <1>0, <1>2, CreateQueueQueues, CreateFinishQueues, SettledQueues, DrainGetQueues, QueueDeleteQueues,
     QueuePutQueues, QueueGetQueues, SendingQueues, OtherQueues
     DEF Proceed
<1>3. CASE CleanUp
  <2>1. ASSUME NEW p \in delList, CleanUpPipe(p) PROVE QueueInv'
    <3>1. CASE Match(p) /\ pipeApp[SlotOf(p)] = victim
      <4>1. TearDown(ES, p) /\ p \in PipeIds /\ ~Claims(ES)
        BY <2>1, <3>1 DEF CleanUpPipe, Match, Claims, Creating, Deleting
      <4> QED
        BY <1>0, <3>1, <4>1, TaskAssumption, TearDownQueues
    <3>2. CASE ~ (Match(p) /\ pipeApp[SlotOf(p)] = victim)
      BY <1>0, <2>1, <3>2, UntouchedQueues DEF CleanUpPipe, pipeVars, taskVars
    <3> QED
      BY <3>1, <3>2
  <2>2. CASE CleanUpList \/ CleanUpZeroCopy \/ \E a \in Apps : CleanUpBegin(a)
    BY <1>0, <2>2, TaskAssumption, OtherQueues
  <2> QED
    BY <1>0, <1>3, <2>1, <2>2, CleanUpTasksQueues DEF CleanUp
<1>4. ASSUME NEW m \in MsgIds, NEW p \in PipeIds, NEW on \in BOOLEAN, RouteCmd(m, p, on) PROVE QueueInv'
  BY <1>0, <1>4, UntouchedQueues DEF RouteCmd, pipeVars, taskVars
<1>5. CASE UNCHANGED vars
  BY <1>0, <1>5, UntouchedQueues DEF vars, pipeVars, taskVars
<1> QED
  BY <1>1, <1>2, <1>3, <1>4, <1>5 DEF Next

-----------------------------------------------------------------------------
(* Counting references                                                     *)

\* One element more.
LEMMA OneMore ==
  ASSUME NEW S, NEW T, NEW x, IsFiniteSet(S), x \notin S, T = S \cup {x}
  PROVE  Cardinality(T) = Cardinality(S) + 1
BY FS_AddElement

\* One element fewer.
LEMMA OneFewer ==
  ASSUME NEW S, NEW T, NEW x, IsFiniteSet(S), x \in S, T = S \ {x}
  PROVE  Cardinality(T) = Cardinality(S) - 1
BY FS_RemoveElement

\* What holds references is finite, so it can be counted.
LEMMA Countable ==
  ASSUME NEW S, \/ S \in SUBSET Tasks \/ S \in SUBSET (Tasks \X PipeIds)
                \/ S \in SUBSET (PipeIds \X (1 .. MaxDepth)) \/ S \in SUBSET Slots
  PROVE  IsFiniteSet(S) /\ Cardinality(S) \in Nat /\ (Cardinality(S) = 0 <=> S = {})
<1>1. IsFiniteSet(Tasks) /\ IsFiniteSet(PipeIds) /\ IsFiniteSet(Slots) /\ IsFiniteSet(1 .. MaxDepth)
  <2>1. LastSerial \in Int /\ MaxPipes - 1 \in Int /\ MaxDepth \in Int /\ 0 \in Int /\ 1 \in Int
    BY SerialAssumption, PipesAssumption, DepthAssumption
  <2>2. IsFiniteSet(1 .. LastSerial) /\ IsFiniteSet(0 .. MaxPipes - 1) /\ IsFiniteSet(1 .. MaxDepth)
    BY <2>1, FS_Interval
  <2> QED
    BY <2>2, FiniteAssumption DEF PipeIds, Slots
<1>2. IsFiniteSet(Tasks \X PipeIds) /\ IsFiniteSet(PipeIds \X (1 .. MaxDepth))
  BY <1>1, FS_Product
<1>3. IsFiniteSet(S)
  BY <1>1, <1>2, FS_Subset
<1> QED
  BY <1>3, FS_CardinalityType, FS_EmptySet

\* Every kind of reference is counted by a natural number, before a step and after it.
LEMMA Counted ==
  ASSUME NEW b
  PROVE  \A S \in {SentBy(b), WritesOf(b), FailedOf(b), ReadBy(b), PlacesOf(b), LostOf(b), LastReads(b)} :
           IsFiniteSet(S) /\ Cardinality(S) \in Nat /\ (Cardinality(S) = 0 <=> S = {})
<1>1. /\ SentBy(b) \in SUBSET Tasks /\ FailedOf(b) \in SUBSET Tasks /\ ReadBy(b) \in SUBSET Tasks
      /\ WritesOf(b) \in SUBSET (Tasks \X PipeIds) /\ LostOf(b) \in SUBSET (PipeIds \X (1 .. MaxDepth)) /\ PlacesOf(b) \in SUBSET (PipeIds \X (1 .. MaxDepth))
      /\ LastReads(b) \in SUBSET Slots
  BY DEF SentBy, WritesOf, FailedOf, ReadBy, PlacesOf, LostOf, LastReads
<1> QED
  BY <1>1, Countable

\* The same of the next state.
LEMMA CountedNext ==
  ASSUME NEW b
  PROVE  \A S \in {SentBy(b)', WritesOf(b)', FailedOf(b)', ReadBy(b)', PlacesOf(b)', LostOf(b)', LastReads(b)'} :
           IsFiniteSet(S) /\ Cardinality(S) \in Nat /\ (Cardinality(S) = 0 <=> S = {})
<1>1. /\ SentBy(b)' \in SUBSET Tasks /\ FailedOf(b)' \in SUBSET Tasks /\ ReadBy(b)' \in SUBSET Tasks
      /\ WritesOf(b)' \in SUBSET (Tasks \X PipeIds) /\ LostOf(b)' \in SUBSET (PipeIds \X (1 .. MaxDepth)) /\ PlacesOf(b)' \in SUBSET (PipeIds \X (1 .. MaxDepth))
      /\ LastReads(b)' \in SUBSET Slots
  BY DEF SentBy, WritesOf, FailedOf, ReadBy, PlacesOf, LostOf, LastReads
<1> QED
  BY <1>1, Countable

\* A buffer that is free, or only in the hands of the application that took it, is nowhere else.
LEMMA Alone ==
  ASSUME BufsOK, UseInv, NEW b \in Bufs, use[b] = 0 \/ list[b] = "zerocopy"
  PROVE  /\ list[b] = "zerocopy" <=> use[b] = 1
         /\ SentBy(b) = {} /\ WritesOf(b) = {} /\ FailedOf(b) = {} /\ ReadBy(b) = {}
         /\ PlacesOf(b) = {} /\ LostOf(b) = {} /\ LastReads(b) = {}
<1>1. use[b] = Owed(b) /\ (list[b] = "zerocopy" => use[b] = 1)
  BY DEF UseInv, UseCountAccounted, Owed, HandsOK
<1>2. /\ Cardinality(SentBy(b)) \in Nat /\ Cardinality(WritesOf(b)) \in Nat
      /\ Cardinality(FailedOf(b)) \in Nat /\ Cardinality(ReadBy(b)) \in Nat
      /\ Cardinality(PlacesOf(b)) \in Nat /\ Cardinality(LostOf(b)) \in Nat /\ Cardinality(LastReads(b)) \in Nat
  BY Counted
<1>3. /\ Cardinality(SentBy(b)) = 0 /\ Cardinality(WritesOf(b)) = 0
      /\ Cardinality(FailedOf(b)) = 0 /\ Cardinality(ReadBy(b)) = 0
      /\ Cardinality(PlacesOf(b)) = 0 /\ Cardinality(LostOf(b)) = 0 /\ Cardinality(LastReads(b)) = 0
  <2> DEFINE z == IF list[b] = "zerocopy" THEN 1 ELSE 0
             i == Cardinality(SentBy(b))
             j == Cardinality(WritesOf(b))
             k == Cardinality(FailedOf(b))
             l == Cardinality(ReadBy(b))
             m == Cardinality(PlacesOf(b))
             n == Cardinality(LastReads(b))
             o == Cardinality(LostOf(b))
  <2>1. z = z + i + j + k + l + m + n + o
    BY <1>1 DEF Owed, References
  <2>2. i \in Nat /\ j \in Nat /\ k \in Nat /\ l \in Nat /\ m \in Nat /\ n \in Nat /\ o \in Nat
    BY <1>2
  <2>3. z \in Nat
    OBVIOUS
  <2> HIDE DEF z, i, j, k, l, m, n, o
  <2>4. i = 0 /\ j = 0 /\ k = 0 /\ l = 0 /\ m = 0 /\ n = 0 /\ o = 0
    BY <2>1, <2>2, <2>3
  <2> QED
    BY <2>4 DEF i, j, k, l, m, n, o
<1>4. list[b] = "zerocopy" <=> use[b] = 1
  BY <1>1
<1> QED
  BY <1>3, <1>4, Counted

\* A buffer that something but an application holds is in use, and no zero-copy buffer.
LEMMA InTransit ==
  ASSUME BufsOK, UseInv, NEW b \in Bufs,
         NEW S \in {SentBy(b), WritesOf(b), FailedOf(b), ReadBy(b), PlacesOf(b), LostOf(b), LastReads(b)}, S # {}
  PROVE  use[b] > 0 /\ list[b] # "zerocopy"
<1>1. use[b] # 0 /\ list[b] # "zerocopy"
  BY Alone
<1> QED
  BY <1>1 DEF BufsOK

\* Releasing one reference to a buffer.
LEMMA DropOne ==
  ASSUME BufsOK, NEW c \in Bufs, use[c] > 0, Drop({c})
  PROVE  /\ use'[c] = use[c] - 1 /\ list'[c] = IF use[c] = 1 THEN "none" ELSE list[c]
         /\ \A b \in Bufs : b # c => use'[b] = use[b] /\ list'[b] = list[b]
BY DEF Drop, BufsOK

\* Nothing that counts has changed.
LEMMA ReferencesKept ==
  ASSUME NEW b, list'[b] = "zerocopy" <=> list[b] = "zerocopy",
         SentBy(b)' = SentBy(b), WritesOf(b)' = WritesOf(b), FailedOf(b)' = FailedOf(b),
         ReadBy(b)' = ReadBy(b), PlacesOf(b)' = PlacesOf(b) /\ LostOf(b)' = LostOf(b), LastReads(b)' = LastReads(b)
  PROVE  Owed(b)' = Owed(b)
BY DEF Owed, References

\* A task that sends nothing, before the step and after it.
LEMMA SendersKept ==
  ASSUME CallsOK, NEW t \in Tasks, NEW b,
         \A u \in Tasks : u # t => UNCHANGED <<pc[u], own[u], todo[u]>>,
         pc[t] \notin Writing, pc'[t] \notin Writing, todo'[t] = todo[t]
  PROVE  SentBy(b)' = SentBy(b) /\ WritesOf(b)' = WritesOf(b) /\ FailedOf(b)' = FailedOf(b)
<1>1. todo[t] = {}
  BY DEF CallsOK, CallOK
<1>2. SentBy(b)' = SentBy(b) /\ FailedOf(b)' = FailedOf(b)
  BY DEF SentBy, FailedOf, Writing
<1>3. \A u \in Tasks, p \in PipeIds : own'[u] = b /\ Pending(u, p)' <=> own[u] = b /\ Pending(u, p)
  BY <1>1 DEF Pending
<1>4. WritesOf(b)' = WritesOf(b)
  BY <1>3 DEF WritesOf
<1> QED
  BY <1>2, <1>4

\* The slots of pipes that exist, and what they keep, are as they were.
LEMMA LastReadsKept ==
  ASSUME NEW b, \A s \in Slots : (pipeId'[s] \in PipeIds /\ lastBuf'[s] = b)
                                 <=> (pipeId[s] \in PipeIds /\ lastBuf[s] = b)
  PROVE  LastReads(b)' = LastReads(b)
BY DEF LastReads

\* No buffer changes hands but to be given up.
LEMMA HandsKept ==
  ASSUME HandsOK,
         \A b \in Bufs : /\ list'[b] = "zerocopy" <=> list[b] = "zerocopy"
                         /\ list[b] = "zerocopy" => use'[b] = use[b]
                         /\ UNCHANGED <<bufApp[b], bufMsg[b]>>,
         \A u \in Tasks : own'[u] \in Bufs => UNCHANGED own[u] /\ (pc'[u] \in Writing <=> pc[u] \in Writing)
                                              /\ (pc[u] \in Writing => UNCHANGED msg[u]),
         \A u \in Tasks : own'[u] \in Bufs \cup {NoBuf}
  PROVE  HandsOK'
BY DEF HandsOK

\* The same for a step that touches no buffer at all.
LEMMA UseKept ==
  ASSUME IInv, CallInv, UseInv, NEW t \in Tasks, UNCHANGED <<bufVars, got, queue, lost, todo>>,
         \A u \in Tasks : u # t => UNCHANGED <<pc[u], own[u], msg[u]>>,
         pc[t] \notin Writing, pc'[t] \notin Writing,
         own'[t] = own[t] \/ own'[t] = NoBuf,
         \A s \in Slots : (pipeId'[s] \in PipeIds /\ lastBuf'[s] # NoBuf)
                           \/ (pipeId[s] \in PipeIds /\ lastBuf[s] # NoBuf)
                             => UNCHANGED lastBuf[s] /\ (pipeId'[s] \in PipeIds <=> pipeId[s] \in PipeIds)
  PROVE  UseInv'
<1> USE DEF IInv, TypeOK, CallInv, UseInv
<1>1. UNCHANGED <<use, list, bufApp, bufMsg>>
  BY DEF bufVars
<1>2. ASSUME NEW b \in Bufs PROVE use'[b] = Owed(b)'
  <2>1. SentBy(b)' = SentBy(b) /\ WritesOf(b)' = WritesOf(b) /\ FailedOf(b)' = FailedOf(b)
    BY SendersKept
  <2>2. ReadBy(b)' = ReadBy(b) /\ PlacesOf(b)' = PlacesOf(b) /\ LostOf(b)' = LostOf(b)
    BY DEF ReadBy, PlacesOf, LostOf
  <2>3. LastReads(b)' = LastReads(b)
    BY LastReadsKept, NullAssumption
  <2> QED
    BY <1>1, <2>1, <2>2, <2>3, ReferencesKept DEF UseCountAccounted, Owed
<1>3. HandsOK'
  <2>1. \A u \in Tasks : own'[u] = own[u] \/ (u = t /\ own'[u] = NoBuf)
    OBVIOUS
  <2>2. \A u \in Tasks : pc'[u] \in Writing <=> pc[u] \in Writing
    OBVIOUS
  <2>3. \A u \in Tasks : pc[u] \in Writing => msg'[u] = msg[u]
    OBVIOUS
  <2>4. \A u \in Tasks : own'[u] \in Bufs \cup {NoBuf}
    BY <2>1 DEF TasksOK
  <2> QED
    BY <1>1, <2>1, <2>2, <2>3, <2>4, HandsKept, NullAssumption
<1> QED
  BY <1>2, <1>3 DEF UseCountAccounted, Owed

\* The kinds of references, numbered: an application, the sender, writes to be made, a
\* write to be taken back, a task that has just read, queues that are and that were, pipes.
Part(b, k) ==
  IF k = 1 THEN IF list[b] = "zerocopy" THEN 1 ELSE 0
  ELSE IF k = 2 THEN Cardinality(SentBy(b))
  ELSE IF k = 3 THEN Cardinality(WritesOf(b))
  ELSE IF k = 4 THEN Cardinality(FailedOf(b))
  ELSE IF k = 5 THEN Cardinality(ReadBy(b))
  ELSE IF k = 6 THEN Cardinality(PlacesOf(b)) + Cardinality(LostOf(b))
  ELSE Cardinality(LastReads(b))

\* Every part is a number, before a step and after it.
LEMMA PartType ==
  ASSUME NEW b
  PROVE  \A k \in 1 .. 7 : Part(b, k) \in Nat /\ Part(b, k)' \in Nat
<1>1. /\ Cardinality(SentBy(b)) \in Nat /\ Cardinality(WritesOf(b)) \in Nat
      /\ Cardinality(FailedOf(b)) \in Nat /\ Cardinality(ReadBy(b)) \in Nat
      /\ Cardinality(PlacesOf(b)) \in Nat /\ Cardinality(LostOf(b)) \in Nat /\ Cardinality(LastReads(b)) \in Nat
  BY Counted
<1>2. /\ Cardinality(SentBy(b)') \in Nat /\ Cardinality(WritesOf(b)') \in Nat
      /\ Cardinality(FailedOf(b)') \in Nat /\ Cardinality(ReadBy(b)') \in Nat
      /\ Cardinality(PlacesOf(b)') \in Nat /\ Cardinality(LostOf(b)') \in Nat /\ Cardinality(LastReads(b)') \in Nat
  BY CountedNext
<1> QED
  BY <1>1, <1>2 DEF Part

\* The parts make up the references.
LEMMA PartSum ==
  ASSUME NEW b
  PROVE  /\ Owed(b) = Part(b, 1) + Part(b, 2) + Part(b, 3) + Part(b, 4)
                            + Part(b, 5) + Part(b, 6) + Part(b, 7)
         /\ Owed(b)' = Part(b, 1)' + Part(b, 2)' + Part(b, 3)' + Part(b, 4)'
                             + Part(b, 5)' + Part(b, 6)' + Part(b, 7)'
<1>1. /\ Cardinality(SentBy(b)) \in Nat /\ Cardinality(WritesOf(b)) \in Nat
      /\ Cardinality(FailedOf(b)) \in Nat /\ Cardinality(ReadBy(b)) \in Nat
      /\ Cardinality(PlacesOf(b)) \in Nat /\ Cardinality(LostOf(b)) \in Nat /\ Cardinality(LastReads(b)) \in Nat
  BY Counted
<1>2. /\ Cardinality(SentBy(b)') \in Nat /\ Cardinality(WritesOf(b)') \in Nat
      /\ Cardinality(FailedOf(b)') \in Nat /\ Cardinality(ReadBy(b)') \in Nat
      /\ Cardinality(PlacesOf(b)') \in Nat /\ Cardinality(LostOf(b)') \in Nat /\ Cardinality(LastReads(b)') \in Nat
  BY CountedNext
<1>3. Owed(b) = Part(b, 1) + Part(b, 2) + Part(b, 3) + Part(b, 4) + Part(b, 5) + Part(b, 6) + Part(b, 7)
  BY <1>1 DEF Owed, References, Part
<1>4. Owed(b)' = Part(b, 1)' + Part(b, 2)' + Part(b, 3)' + Part(b, 4)' + Part(b, 5)' + Part(b, 6)' + Part(b, 7)'
  BY <1>2 DEF Owed, References, Part
<1> QED
  BY <1>3, <1>4

\* A sum of which one part takes over what another gives up.
LEMMA SumMoved ==
  ASSUME NEW p \in [1 .. 7 -> Nat], NEW q \in [1 .. 7 -> Nat], NEW i \in 1 .. 7, NEW j \in 1 .. 7,
         i # j, \A k \in 1 .. 7 : k # i /\ k # j => q[k] = p[k],
         q[i] = p[i] - 1, q[j] = p[j] + 1
  PROVE  q[1] + q[2] + q[3] + q[4] + q[5] + q[6] + q[7] = p[1] + p[2] + p[3] + p[4] + p[5] + p[6] + p[7]
OBVIOUS

\* A sum of which one part gives something up.
LEMMA SumLess ==
  ASSUME NEW p \in [1 .. 7 -> Nat], NEW q \in [1 .. 7 -> Nat], NEW i \in 1 .. 7,
         \A k \in 1 .. 7 : k # i => q[k] = p[k],
         q[i] = p[i] - 1
  PROVE  q[1] + q[2] + q[3] + q[4] + q[5] + q[6] + q[7] = p[1] + p[2] + p[3] + p[4] + p[5] + p[6] + p[7] - 1
OBVIOUS

\* A reference that is handed over.
LEMMA Moved ==
  ASSUME UseCountAccounted, NEW b \in Bufs, use'[b] = use[b], NEW i \in 1 .. 7, NEW j \in 1 .. 7, i # j,
         \A k \in 1 .. 7 : k # i /\ k # j => Part(b, k)' = Part(b, k),
         Part(b, i)' = Part(b, i) - 1, Part(b, j)' = Part(b, j) + 1
  PROVE  use'[b] = Owed(b)'
<1> DEFINE p == [k \in 1 .. 7 |-> Part(b, k)]
           q == [k \in 1 .. 7 |-> Part(b, k)']
<1>1. p \in [1 .. 7 -> Nat] /\ q \in [1 .. 7 -> Nat]
  BY PartType
<1>2. /\ Owed(b) = p[1] + p[2] + p[3] + p[4] + p[5] + p[6] + p[7]
      /\ Owed(b)' = q[1] + q[2] + q[3] + q[4] + q[5] + q[6] + q[7]
  BY PartSum
<1>3. /\ \A k \in 1 .. 7 : k # i /\ k # j => q[k] = p[k]
      /\ q[i] = p[i] - 1 /\ q[j] = p[j] + 1
  OBVIOUS
<1> HIDE DEF p, q
<1>4. q[1] + q[2] + q[3] + q[4] + q[5] + q[6] + q[7] = p[1] + p[2] + p[3] + p[4] + p[5] + p[6] + p[7]
  BY <1>1, <1>3, SumMoved
<1> QED
  BY <1>2, <1>4 DEF UseCountAccounted, Owed

\* A reference that is given up.
LEMMA GivenUp ==
  ASSUME UseCountAccounted, NEW b \in Bufs, use'[b] = use[b] - 1, NEW i \in 1 .. 7,
         \A k \in 1 .. 7 : k # i => Part(b, k)' = Part(b, k),
         Part(b, i)' = Part(b, i) - 1
  PROVE  use'[b] = Owed(b)'
<1> DEFINE p == [k \in 1 .. 7 |-> Part(b, k)]
           q == [k \in 1 .. 7 |-> Part(b, k)']
<1>1. p \in [1 .. 7 -> Nat] /\ q \in [1 .. 7 -> Nat]
  BY PartType
<1>2. /\ Owed(b) = p[1] + p[2] + p[3] + p[4] + p[5] + p[6] + p[7]
      /\ Owed(b)' = q[1] + q[2] + q[3] + q[4] + q[5] + q[6] + q[7]
  BY PartSum
<1>3. (\A k \in 1 .. 7 : k # i => q[k] = p[k]) /\ q[i] = p[i] - 1
  OBVIOUS
<1> HIDE DEF p, q
<1>4. q[1] + q[2] + q[3] + q[4] + q[5] + q[6] + q[7] = p[1] + p[2] + p[3] + p[4] + p[5] + p[6] + p[7] - 1
  BY <1>1, <1>3, SumLess
<1> DEFINE P == p[1] + p[2] + p[3] + p[4] + p[5] + p[6] + p[7]
           Q == q[1] + q[2] + q[3] + q[4] + q[5] + q[6] + q[7]
<1>5. Owed(b) = P /\ Owed(b)' = Q
  BY <1>2
<1>6. Q = P - 1
  BY <1>1, <1>4
<1> HIDE DEF P, Q
<1>7. use'[b] = P - 1
  BY <1>5 DEF UseCountAccounted, Owed
<1> QED
  BY <1>5, <1>6, <1>7

\* The kinds of references that a step leaves alone.
LEMMA PartsKept ==
  ASSUME NEW b
  PROVE  /\ (list'[b] = "zerocopy" <=> list[b] = "zerocopy") => Part(b, 1)' = Part(b, 1)
         /\ SentBy(b)' = SentBy(b) => Part(b, 2)' = Part(b, 2)
         /\ WritesOf(b)' = WritesOf(b) => Part(b, 3)' = Part(b, 3)
         /\ FailedOf(b)' = FailedOf(b) => Part(b, 4)' = Part(b, 4)
         /\ ReadBy(b)' = ReadBy(b) => Part(b, 5)' = Part(b, 5)
         /\ PlacesOf(b)' = PlacesOf(b) /\ LostOf(b)' = LostOf(b) => Part(b, 6)' = Part(b, 6)
         /\ LastReads(b)' = LastReads(b) => Part(b, 7)' = Part(b, 7)
<1>1. (list'[b] = "zerocopy" <=> list[b] = "zerocopy") => Part(b, 1)' = Part(b, 1)
  BY DEF Part
<1>2. SentBy(b)' = SentBy(b) => Part(b, 2)' = Part(b, 2)
  BY DEF Part
<1>3. WritesOf(b)' = WritesOf(b) => Part(b, 3)' = Part(b, 3)
  BY DEF Part
<1>4. FailedOf(b)' = FailedOf(b) => Part(b, 4)' = Part(b, 4)
  BY DEF Part
<1>5. ReadBy(b)' = ReadBy(b) => Part(b, 5)' = Part(b, 5)
  BY DEF Part
<1>6. PlacesOf(b)' = PlacesOf(b) /\ LostOf(b)' = LostOf(b) => Part(b, 6)' = Part(b, 6)
  BY DEF Part
<1>7. LastReads(b)' = LastReads(b) => Part(b, 7)' = Part(b, 7)
  BY DEF Part
<1> QED
  BY <1>1, <1>2, <1>3, <1>4, <1>5, <1>6, <1>7

\* What each part is, before a step and after it.
LEMMA PartIs ==
  ASSUME NEW b
  PROVE  /\ Part(b, 2) = Cardinality(SentBy(b)) /\ Part(b, 2)' = Cardinality(SentBy(b)')
         /\ Part(b, 3) = Cardinality(WritesOf(b)) /\ Part(b, 3)' = Cardinality(WritesOf(b)')
         /\ Part(b, 4) = Cardinality(FailedOf(b)) /\ Part(b, 4)' = Cardinality(FailedOf(b)')
         /\ Part(b, 5) = Cardinality(ReadBy(b)) /\ Part(b, 5)' = Cardinality(ReadBy(b)')
         /\ Part(b, 6) = Cardinality(PlacesOf(b)) + Cardinality(LostOf(b))
         /\ Part(b, 6)' = Cardinality(PlacesOf(b)') + Cardinality(LostOf(b)')
         /\ Part(b, 7) = Cardinality(LastReads(b)) /\ Part(b, 7)' = Cardinality(LastReads(b)')
BY DEF Part

\* All parts of what a buffer counts are as they were.
LEMMA PartsSame ==
  ASSUME NEW b, \A k \in 1 .. 7 : Part(b, k)' = Part(b, k)
  PROVE  Owed(b)' = Owed(b)
BY PartSum

\* One buffer changes places; no count changes.
LEMMA HandedOver ==
  ASSUME UseCountAccounted, UNCHANGED <<use, list>>, NEW c \in Bufs,
         NEW i \in 2 .. 7, NEW j \in 2 .. 7, i # j,
         \A b \in Bufs, k \in 2 .. 7 : ~ (b = c /\ k \in {i, j}) => Part(b, k)' = Part(b, k),
         Part(c, i)' = Part(c, i) - 1, Part(c, j)' = Part(c, j) + 1
  PROVE  UseCountAccounted'
<1>1. ASSUME NEW b \in Bufs PROVE use'[b] = Owed(b)'
  <2>1. Part(b, 1)' = Part(b, 1)
    BY PartsKept
  <2>2. CASE b = c
    <3>1. \A k \in 1 .. 7 : k # i /\ k # j => Part(b, k)' = Part(b, k)
      BY <2>1, <2>2
    <3> QED
      BY <2>2, <3>1, Moved
  <2>3. CASE b # c
    <3>1. \A k \in 1 .. 7 : Part(b, k)' = Part(b, k)
      BY <2>1, <2>3
    <3> QED
      BY <3>1, PartsSame DEF UseCountAccounted, Owed
  <2> QED
    BY <2>2, <2>3
<1> QED
  BY <1>1 DEF UseCountAccounted, Owed

\* One buffer leaves a place, and its count goes down.
LEMMA Released ==
  ASSUME BufsOK, UseCountAccounted, NEW c \in Bufs, use[c] > 0, list[c] # "zerocopy", Drop({c}),
         NEW i \in 2 .. 7,
         \A b \in Bufs, k \in 2 .. 7 : ~ (b = c /\ k = i) => Part(b, k)' = Part(b, k),
         Part(c, i)' = Part(c, i) - 1
  PROVE  /\ UseCountAccounted'
         /\ \A b \in Bufs : /\ list'[b] = "zerocopy" <=> list[b] = "zerocopy"
                            /\ list[b] = "zerocopy" => use'[b] = use[b]
<1>1. \A b \in Bufs : /\ list'[b] = "zerocopy" <=> list[b] = "zerocopy"
                      /\ list[b] = "zerocopy" => use'[b] = use[b]
  BY DropOne
<1>2. ASSUME NEW b \in Bufs PROVE use'[b] = Owed(b)'
  <2>1. Part(b, 1)' = Part(b, 1)
    BY <1>1, PartsKept
  <2>2. CASE b = c
    <3>1. \A k \in 1 .. 7 : k # i => Part(b, k)' = Part(b, k)
      BY <2>1, <2>2
    <3>2. use'[b] = use[b] - 1
      BY <2>2, DropOne
    <3> QED
      BY <2>2, <3>1, <3>2, GivenUp
  <2>3. CASE b # c
    <3>1. \A k \in 1 .. 7 : Part(b, k)' = Part(b, k)
      BY <2>1, <2>3
    <3>2. use'[b] = use[b]
      BY <2>3, DropOne
    <3> QED
      BY <3>1, <3>2, PartsSame DEF UseCountAccounted, Owed
  <2> QED
    BY <2>2, <2>3
<1> QED
  BY <1>1, <1>2 DEF UseCountAccounted, Owed

\* Creating a pipe touches no buffer: its slot kept none.
LEMMA CreateReserveUse ==
  ASSUME IInv, CallInv, UseInv, NEW t \in Tasks, CreateReserve(t)
  PROVE  UseInv'
<1> USE DEF IInv, TypeOK, CallInv
<1> DEFINE s == SlotOf(FindNext)
<1>1. s \in Slots /\ pipeId[s] = FREE
  BY NextIsNew DEF CreateReserve
<1>2. /\ pipeId' = [pipeId EXCEPT ![s] = RESERVED]
      /\ lastBuf' = [lastBuf EXCEPT ![s] = NoBuf] /\ pc' = [pc EXCEPT ![t] = "create"]
      /\ pc[t] = "idle" /\ UNCHANGED <<bufVars, got, queue, lost, todo, own, msg>>
  BY DEF CreateReserve, GoTo, Begins, queueVars
<1> HIDE DEF s
<1>3. \A r \in Slots : r # s => UNCHANGED <<pipeId[r], lastBuf[r]>>
  BY <1>2 DEF PipesOK
<1>4. pipeId[s] \notin PipeIds /\ pipeId'[s] \notin PipeIds
  BY <1>1, <1>2 DEF PipesOK, PipeIds, FREE, RESERVED
<1> QED
  BY <1>2, <1>3, <1>4, UseKept DEF TasksOK, Writing

\* A pipe that is made, or not made, has no last buffer.
LEMMA CreateEndUse ==
  ASSUME IInv, CallInv, UseInv, NEW t \in Tasks, CreateFinish(t) \/ CreateAbort(t)
  PROVE  UseInv'
<1> USE DEF IInv, TypeOK, CallInv
<1> DEFINE s == SlotOf(pid[t])
<1>1. pc[t] \in {"created", "create_failed"} /\ pc' = [pc EXCEPT ![t] = "idle"]
      /\ UNCHANGED <<bufVars, got, queue, lost, todo, own, msg, lastBuf>>
  BY DEF CreateFinish, CreateAbort, GoTo, queueVars
<1>2. s \in Slots /\ lastBuf[s] = NoBuf
  BY <1>1, SlotInRange DEF SlotClaims, Claims, Creating, ReadOK, PipeIds
<1>3. \E n \in {pid[t], FREE} : pipeId' = [pipeId EXCEPT ![s] = n]
  BY DEF CreateFinish, CreateAbort
<1> HIDE DEF s
<1>4. \A r \in Slots : r # s => UNCHANGED pipeId[r]
  BY <1>3 DEF PipesOK
<1> QED
  BY <1>1, <1>2, <1>4, UseKept DEF TasksOK, Writing

\* The end of a deletion: the slot was reserved, and is free.
LEMMA DeleteFinishUse ==
  ASSUME IInv, CallInv, UseInv, NEW t \in Tasks, DeleteFinish(t)
  PROVE  UseInv'
<1> USE DEF IInv, TypeOK, CallInv
<1> DEFINE s == SlotOf(pid[t])
<1>1. /\ pc[t] = "delete_finish" /\ \E l \in {"clean_pipes", "idle"} : pc' = [pc EXCEPT ![t] = l]
      /\ pipeId' = [pipeId EXCEPT ![s] = FREE]
      /\ UNCHANGED <<bufVars, got, queue, lost, todo, own, msg, lastBuf>>
  BY DEF DeleteFinish, GoTo, queueVars
<1>2. s \in Slots /\ pipeId[s] = RESERVED
  BY <1>1, SlotInRange DEF SlotClaims, Claims, Deleting, PipeIds
<1> HIDE DEF s
<1>3. \A r \in Slots : r # s => UNCHANGED pipeId[r]
  BY <1>1 DEF PipesOK
<1>4. pipeId[s] \notin PipeIds /\ pipeId'[s] \notin PipeIds
  BY <1>1, <1>2 DEF PipesOK, PipeIds, FREE, RESERVED
<1> QED
  BY <1>1, <1>3, <1>4, UseKept DEF TasksOK, Writing

\* Calls that change neither a slot nor a buffer.
LEMMA PassiveUse ==
  ASSUME IInv, CallInv, UseInv, NEW t \in Tasks,
         CreateQueue(t) \/ AllocateBegin(t) \/ (\E m \in MsgIds : TransmitBuffer(t, m))
         \/ ReceiveNothing(t) \/ ReceiveAccept(t) \/ Exit(t)
  PROVE  UseInv'
<1> USE DEF IInv, TypeOK, CallInv
<1>1. UNCHANGED <<bufVars, got, queue, lost, todo, pipeVars>>
  BY DEF CreateQueue, AllocateBegin, TransmitBuffer, ReceiveNothing, ReceiveAccept, Exit, queueVars
<1>2. \A u \in Tasks : u # t => UNCHANGED <<pc[u], own[u], msg[u]>>
  BY DEF CreateQueue, AllocateBegin, TransmitBuffer, ReceiveNothing, ReceiveAccept, Exit, GoTo, TasksOK
<1>3. own'[t] = own[t] \/ own'[t] = NoBuf
  BY DEF CreateQueue, AllocateBegin, TransmitBuffer, ReceiveNothing, ReceiveAccept, Exit, TasksOK
<1>4. pc[t] \notin Writing /\ pc'[t] \notin Writing
  BY DEF CreateQueue, AllocateBegin, TransmitBuffer, ReceiveNothing, ReceiveAccept, Exit, GoTo,
         Begins, TasksOK, Writing
<1> QED
  BY <1>1, <1>2, <1>3, <1>4, UseKept DEF pipeVars

\* Routes and options, and the steps of ES that only look.
LEMMA UntouchedUse ==
  ASSUME IInv, CallInv, UseInv, UNCHANGED <<pipeId, lastBuf, bufVars, got, queue, lost, todo, own, msg>>,
         pc' = pc \/ \E l \in Cleaning : pc' = [pc EXCEPT ![ES] = l]
  PROVE  UseInv'
<1> USE DEF IInv, TypeOK, CallInv
<1>1. pc[ES] \notin Writing /\ pc'[ES] \notin Writing
  BY TaskAssumption DEF CallsOK, CallOK, Writing, Deleting, Cleaning, TasksOK
<1> QED
  BY <1>1, TaskAssumption, UseKept DEF TasksOK

\* The parts of a buffer that a step leaves in the hands of the same senders, queues and pipes.
LEMMA PartsFrame ==
  ASSUME NEW b
  PROVE  /\ SentBy(b)' = SentBy(b) => Part(b, 2)' = Part(b, 2)
         /\ UNCHANGED <<own, todo>> => Part(b, 3)' = Part(b, 3)
         /\ UNCHANGED got => Part(b, 5)' = Part(b, 5)
         /\ UNCHANGED <<queue, lost>> => Part(b, 6)' = Part(b, 6)
         /\ UNCHANGED <<pipeId, lastBuf>> => Part(b, 7)' = Part(b, 7)
<1>1. UNCHANGED <<own, todo>> => WritesOf(b)' = WritesOf(b)
  BY DEF WritesOf, Pending
<1>2. UNCHANGED got => ReadBy(b)' = ReadBy(b)
  BY DEF ReadBy
<1>3. UNCHANGED <<queue, lost>> => PlacesOf(b)' = PlacesOf(b) /\ LostOf(b)' = LostOf(b)
  BY DEF PlacesOf, LostOf
<1>4. UNCHANGED <<pipeId, lastBuf>> => LastReads(b)' = LastReads(b)
  BY DEF LastReads
<1> QED
  BY <1>1, <1>2, <1>3, <1>4, PartsKept

\* A step of a task that sends nothing leaves the parts of the senders alone.
LEMMA SendersFrame ==
  ASSUME CallsOK, NEW t \in Tasks,
         \A u \in Tasks : u # t => UNCHANGED <<pc[u], own[u], todo[u]>>,
         pc[t] \notin Writing, pc'[t] \notin Writing, todo'[t] = todo[t]
  PROVE  \A b \in Bufs, k \in 2 .. 4 : Part(b, k)' = Part(b, k)
<1> SUFFICES ASSUME NEW b \in Bufs PROVE \A k \in 2 .. 4 : Part(b, k)' = Part(b, k)
  OBVIOUS
<1>1. SentBy(b)' = SentBy(b) /\ WritesOf(b)' = WritesOf(b) /\ FailedOf(b)' = FailedOf(b)
  BY SendersKept
<1>2. Part(b, 2)' = Part(b, 2) /\ Part(b, 3)' = Part(b, 3) /\ Part(b, 4)' = Part(b, 4)
  BY <1>1, PartsKept
<1> QED
  BY <1>2

\* The task that holds what it has read.
LEMMA GotPart ==
  ASSUME TasksOK, NEW t \in Tasks
  PROVE  /\ got' = [got EXCEPT ![t] = NoBuf] =>
              /\ \A b \in Bufs : b # got[t] => Part(b, 5)' = Part(b, 5)
              /\ \A c \in Bufs : got[t] = c => Part(c, 5)' = Part(c, 5) - 1
         /\ got[t] = NoBuf => \A c \in Bufs : got' = [got EXCEPT ![t] = c] =>
              /\ \A b \in Bufs : b # c => Part(b, 5)' = Part(b, 5)
              /\ Part(c, 5)' = Part(c, 5) + 1
<1>1. ASSUME got' = [got EXCEPT ![t] = NoBuf], NEW b \in Bufs, b # got[t] PROVE Part(b, 5)' = Part(b, 5)
  <2>1. ReadBy(b)' = ReadBy(b)
    BY <1>1, NullAssumption DEF ReadBy, TasksOK
  <2> QED
    BY <2>1, PartsKept
<1>2. ASSUME got' = [got EXCEPT ![t] = NoBuf], NEW c \in Bufs, got[t] = c PROVE Part(c, 5)' = Part(c, 5) - 1
  <2>1. ReadBy(c)' = ReadBy(c) \ {t} /\ t \in ReadBy(c)
    BY <1>2, NullAssumption DEF ReadBy, TasksOK
  <2>2. Cardinality(ReadBy(c)') = Cardinality(ReadBy(c)) - 1
    BY <2>1, OneFewer, Counted
  <2> QED
    BY <2>2, PartIs
<1>3. ASSUME got[t] = NoBuf, NEW c \in Bufs, got' = [got EXCEPT ![t] = c], NEW b \in Bufs, b # c
      PROVE  Part(b, 5)' = Part(b, 5)
  <2>1. ReadBy(b)' = ReadBy(b)
    BY <1>3, NullAssumption DEF ReadBy, TasksOK
  <2> QED
    BY <2>1, PartsKept
<1>4. ASSUME got[t] = NoBuf, NEW c \in Bufs, got' = [got EXCEPT ![t] = c]
      PROVE  Part(c, 5)' = Part(c, 5) + 1
  <2>1. ReadBy(c)' = ReadBy(c) \cup {t} /\ t \notin ReadBy(c)
    BY <1>4, NullAssumption DEF ReadBy, TasksOK
  <2>2. Cardinality(ReadBy(c)') = Cardinality(ReadBy(c)) + 1
    BY <2>1, OneMore, Counted
  <2> QED
    BY <2>2, PartIs
<1> QED
  BY <1>1, <1>2, <1>3, <1>4

\* A message drained from a pipe is let go of.
LEMMA DrainReleaseUse ==
  ASSUME IInv, CallInv, UseInv, NEW t \in Tasks, DrainRelease(t)
  PROVE  UseInv'
<1> USE DEF IInv, TypeOK, CallInv, UseInv
<1> PICK c \in Bufs : got[t] = c
  BY DEF DrainRelease, TasksOK
<1>1. /\ pc[t] = "drain" /\ Drop({c}) /\ got' = [got EXCEPT ![t] = NoBuf]
      /\ UNCHANGED <<pipeVars, queue, lost, pc, own, todo, bufApp, bufMsg, msg>>
  BY DEF DrainRelease, queueVars, TasksOK
<1>2. /\ \A b \in Bufs : b # c => Part(b, 5)' = Part(b, 5)
      /\ Part(c, 5)' = Part(c, 5) - 1
  BY <1>1, GotPart DEF TasksOK
<1>3. use[c] > 0 /\ list[c] # "zerocopy"
  <2>1. t \in ReadBy(c)
    BY DEF ReadBy
  <2> QED
    BY <1>1, <2>1, InTransit
<1>4. \A b \in Bufs, k \in 2 .. 4 : Part(b, k)' = Part(b, k)
  BY <1>1, SendersFrame DEF Writing
<1>5. \A b \in Bufs, k \in 6 .. 7 : Part(b, k)' = Part(b, k)
  BY <1>1, PartsFrame DEF pipeVars
<1>6. \A b \in Bufs, k \in 2 .. 7 : ~ (b = c /\ k = 5) => Part(b, k)' = Part(b, k)
  BY <1>2, <1>4, <1>5
<1>7. /\ UseCountAccounted'
      /\ \A b \in Bufs : /\ list'[b] = "zerocopy" <=> list[b] = "zerocopy"
                         /\ list[b] = "zerocopy" => use'[b] = use[b]
  BY <1>1, <1>2, <1>3, <1>6, Released
<1>8. HandsOK'
  BY <1>1, <1>7, HandsKept DEF TasksOK
<1> QED
  BY <1>7, <1>8

\* What a failed write had counted is taken back.
LEMMA UndoPutUse ==
  ASSUME IInv, CallInv, UseInv, NEW t \in Tasks, UndoPut(t)
  PROVE  UseInv'
<1> USE DEF IInv, TypeOK, CallInv, UseInv
<1>1. /\ pc[t] = "tx_undo" /\ Drop({own[t]}) /\ pc' = [pc EXCEPT ![t] = "tx_put"]
      /\ UNCHANGED <<pipeId, lastBuf, queue, lost, own, got, todo, bufApp, bufMsg, msg>>
  BY DEF UndoPut, GoTo, queueVars
<1>2. own[t] \in Bufs
  BY <1>1 DEF SendingHasBuffer, Sending
<1> PICK c \in Bufs : own[t] = c
  BY <1>2
<1>3. use[c] > 0 /\ list[c] # "zerocopy"
  <2>1. t \in FailedOf(c)
    BY <1>1 DEF FailedOf
  <2> QED
    BY <2>1, InTransit
<1>4. ASSUME NEW b \in Bufs
      PROVE  Part(b, 2)' = Part(b, 2) /\ Part(b, 3)' = Part(b, 3) /\ Part(b, 5)' = Part(b, 5)
             /\ Part(b, 6)' = Part(b, 6) /\ Part(b, 7)' = Part(b, 7)
  <2>1. SentBy(b)' = SentBy(b)
    BY <1>1 DEF SentBy, TasksOK
  <2> QED
    BY <1>1, <2>1, PartsFrame
<1>5. ASSUME NEW b \in Bufs PROVE Part(b, 4)' = IF b = c THEN Part(b, 4) - 1 ELSE Part(b, 4)
  <2>1. FailedOf(b)' = IF b = c THEN FailedOf(b) \ {t} ELSE FailedOf(b)
    BY <1>1 DEF FailedOf, TasksOK
  <2>2. b = c => t \in FailedOf(b)
    BY <1>1 DEF FailedOf
  <2>3. Cardinality(FailedOf(b)') = IF b = c THEN Cardinality(FailedOf(b)) - 1 ELSE Cardinality(FailedOf(b))
    BY <2>1, <2>2, OneFewer, Counted
  <2> QED
    BY <2>3, PartIs
<1>6. \A b \in Bufs, k \in 2 .. 7 : ~ (b = c /\ k = 4) => Part(b, k)' = Part(b, k)
  BY <1>4, <1>5
<1>7. /\ UseCountAccounted'
      /\ \A b \in Bufs : /\ list'[b] = "zerocopy" <=> list[b] = "zerocopy"
                         /\ list[b] = "zerocopy" => use'[b] = use[b]
  BY <1>1, <1>3, <1>5, <1>6, Released
<1>8. HandsOK'
  <2>1. \A u \in Tasks : pc'[u] \in Writing <=> pc[u] \in Writing
    BY <1>1 DEF Writing, TasksOK
  <2> QED
    BY <1>1, <1>7, <2>1, HandsKept DEF TasksOK
<1> QED
  BY <1>7, <1>8

\* The sender lets go of its message.
LEMMA TransmitDoneUse ==
  ASSUME IInv, CallInv, UseInv, NEW t \in Tasks, TransmitDone(t)
  PROVE  UseInv'
<1> USE DEF IInv, TypeOK, CallInv, UseInv
<1>1. /\ pc[t] = "tx_put" /\ todo[t] = {} /\ Drop({own[t]}) /\ pc' = [pc EXCEPT ![t] = "idle"]
      /\ own' = [own EXCEPT ![t] = NoBuf] /\ msg' = [msg EXCEPT ![t] = NoMsg]
      /\ UNCHANGED <<pipeId, lastBuf, queue, lost, got, todo, bufApp, bufMsg>>
  BY DEF TransmitDone, GoTo, queueVars, pipeVars
<1>2. own[t] \in Bufs
  BY <1>1 DEF SendingHasBuffer, Sending
<1> PICK c \in Bufs : own[t] = c
  BY <1>2
<1>3. use[c] > 0 /\ list[c] # "zerocopy"
  <2>1. t \in SentBy(c)
    BY <1>1 DEF SentBy
  <2> QED
    BY <2>1, InTransit
<1>4. ASSUME NEW b \in Bufs
      PROVE  Part(b, 3)' = Part(b, 3) /\ Part(b, 4)' = Part(b, 4) /\ Part(b, 5)' = Part(b, 5)
             /\ Part(b, 6)' = Part(b, 6) /\ Part(b, 7)' = Part(b, 7)
  <2>1. \A u \in Tasks, p \in PipeIds : own'[u] = b /\ Pending(u, p)' <=> own[u] = b /\ Pending(u, p)
    BY <1>1 DEF Pending, TasksOK
  <2>2. WritesOf(b)' = WritesOf(b)
    BY <2>1 DEF WritesOf
  <2>3. FailedOf(b)' = FailedOf(b)
    BY <1>1 DEF FailedOf, TasksOK
  <2> QED
    BY <1>1, <2>2, <2>3, PartsFrame, PartsKept
<1>5. ASSUME NEW b \in Bufs PROVE Part(b, 2)' = IF b = c THEN Part(b, 2) - 1 ELSE Part(b, 2)
  <2>1. SentBy(b)' = IF b = c THEN SentBy(b) \ {t} ELSE SentBy(b)
    BY <1>1 DEF SentBy, TasksOK
  <2>2. b = c => t \in SentBy(b)
    BY <1>1 DEF SentBy
  <2>3. Cardinality(SentBy(b)') = IF b = c THEN Cardinality(SentBy(b)) - 1 ELSE Cardinality(SentBy(b))
    BY <2>1, <2>2, OneFewer, Counted
  <2> QED
    BY <2>3, PartIs
<1>6. \A b \in Bufs, k \in 2 .. 7 : ~ (b = c /\ k = 2) => Part(b, k)' = Part(b, k)
  BY <1>4, <1>5
<1>7. /\ UseCountAccounted'
      /\ \A b \in Bufs : /\ list'[b] = "zerocopy" <=> list[b] = "zerocopy"
                         /\ list[b] = "zerocopy" => use'[b] = use[b]
  BY <1>1, <1>3, <1>5, <1>6, Released
<1>8. HandsOK'
  <2>1. \A u \in Tasks : u # t => UNCHANGED <<pc[u], own[u], msg[u]>>
    BY <1>1 DEF TasksOK
  <2>2. own'[t] = NoBuf /\ own' \in [Tasks -> Bufs \cup {NoBuf}]
    BY <1>1 DEF TasksOK
  <2> QED
    BY <1>1, <1>7, <2>1, <2>2, HandsKept, NullAssumption
<1> QED
  BY <1>7, <1>8

\* The pipe that keeps the message last read from it.
LEMMA LastPart ==
  ASSUME PipesOK, NEW s \in Slots, pipeId[s] \in PipeIds, pipeId' = pipeId
  PROVE  /\ lastBuf' = [lastBuf EXCEPT ![s] = NoBuf] =>
              /\ \A b \in Bufs : b # lastBuf[s] => Part(b, 7)' = Part(b, 7)
              /\ \A c \in Bufs : lastBuf[s] = c => Part(c, 7)' = Part(c, 7) - 1
         /\ lastBuf[s] = NoBuf => \A c \in Bufs : lastBuf' = [lastBuf EXCEPT ![s] = c] =>
              /\ \A b \in Bufs : b # c => Part(b, 7)' = Part(b, 7)
              /\ Part(c, 7)' = Part(c, 7) + 1
<1>1. ASSUME lastBuf' = [lastBuf EXCEPT ![s] = NoBuf], NEW b \in Bufs, b # lastBuf[s]
      PROVE  Part(b, 7)' = Part(b, 7)
  <2>1. LastReads(b)' = LastReads(b)
    BY <1>1, NullAssumption DEF LastReads, PipesOK
  <2> QED
    BY <2>1, PartsKept
<1>2. ASSUME lastBuf' = [lastBuf EXCEPT ![s] = NoBuf], NEW c \in Bufs, lastBuf[s] = c
      PROVE  Part(c, 7)' = Part(c, 7) - 1
  <2>1. LastReads(c)' = LastReads(c) \ {s} /\ s \in LastReads(c)
    BY <1>2, NullAssumption DEF LastReads, PipesOK
  <2>2. Cardinality(LastReads(c)') = Cardinality(LastReads(c)) - 1
    BY <2>1, OneFewer, Counted
  <2> QED
    BY <2>2, PartIs
<1>3. ASSUME lastBuf[s] = NoBuf, NEW c \in Bufs, lastBuf' = [lastBuf EXCEPT ![s] = c], NEW b \in Bufs, b # c
      PROVE  Part(b, 7)' = Part(b, 7)
  <2>1. LastReads(b)' = LastReads(b)
    BY <1>3, NullAssumption DEF LastReads, PipesOK
  <2> QED
    BY <2>1, PartsKept
<1>4. ASSUME lastBuf[s] = NoBuf, NEW c \in Bufs, lastBuf' = [lastBuf EXCEPT ![s] = c]
      PROVE  Part(c, 7)' = Part(c, 7) + 1
  <2>1. LastReads(c)' = LastReads(c) \cup {s} /\ s \notin LastReads(c)
    BY <1>4, NullAssumption DEF LastReads, PipesOK
  <2>2. Cardinality(LastReads(c)') = Cardinality(LastReads(c)) + 1
    BY <2>1, OneMore, Counted
  <2> QED
    BY <2>2, PartIs
<1> QED
  BY <1>1, <1>2, <1>3, <1>4

\* The last message read from a pipe is let go of when the next one is asked for.
LEMMA SetPipeIdUse ==
  ASSUME IInv, CallInv, UseInv, NEW t \in Tasks, NEW p \in PipeIds, Match(p), SetPipeId(t, p),
         pc[t] \notin Writing
  PROVE  UseInv'
<1> USE DEF IInv, TypeOK, CallInv, UseInv
<1> DEFINE s == SlotOf(p)
<1>1. s \in Slots /\ pipeId[s] = p
  BY SlotInRange DEF Match, PipeIds
<1>2. /\ pc' = [pc EXCEPT ![t] = "rx_get"]
      /\ UNCHANGED <<pipeId, queue, lost, own, got, todo, msg, bufApp, bufMsg>>
      /\ \/ lastBuf[s] # NoBuf /\ Drop({lastBuf[s]}) /\ lastBuf' = [lastBuf EXCEPT ![s] = NoBuf]
         \/ lastBuf[s] = NoBuf /\ UNCHANGED <<use, list, bufsInUse, lastBuf>>
  BY DEF SetPipeId, GoTo, queueVars
<1> HIDE DEF s
<1>3. pc'[t] \notin Writing /\ \A u \in Tasks : u # t => UNCHANGED pc[u]
  BY <1>2 DEF TasksOK, Writing
<1>4. CASE lastBuf[s] = NoBuf
  BY <1>2, <1>3, <1>4, UseKept DEF bufVars
<1>5. CASE lastBuf[s] # NoBuf
  <2> PICK c \in Bufs : lastBuf[s] = c
    BY <1>1, <1>5 DEF PipesOK
  <2>1. Drop({c}) /\ lastBuf' = [lastBuf EXCEPT ![s] = NoBuf]
    BY <1>2, <1>5
  <2>2. use[c] > 0 /\ list[c] # "zerocopy"
    <3>1. s \in LastReads(c)
      BY <1>1 DEF LastReads
    <3> QED
      BY <3>1, InTransit
  <2>3. Part(c, 7)' = Part(c, 7) - 1 /\ \A b \in Bufs : b # c => Part(b, 7)' = Part(b, 7)
    BY <1>1, <1>2, <2>1, LastPart
  <2>4. \A b \in Bufs, k \in 2 .. 4 : Part(b, k)' = Part(b, k)
    BY <1>2, <1>3, SendersFrame
  <2>5. \A b \in Bufs, k \in 5 .. 6 : Part(b, k)' = Part(b, k)
    BY <1>2, PartsFrame
  <2>6. \A b \in Bufs, k \in 2 .. 7 : ~ (b = c /\ k = 7) => Part(b, k)' = Part(b, k)
    BY <2>3, <2>4, <2>5
  <2>7. /\ UseCountAccounted'
        /\ \A b \in Bufs : /\ list'[b] = "zerocopy" <=> list[b] = "zerocopy"
                           /\ list[b] = "zerocopy" => use'[b] = use[b]
    BY <2>1, <2>2, <2>3, <2>6, Released
  <2>8. HandsOK'
    BY <1>2, <1>3, <2>7, HandsKept DEF TasksOK
  <2> QED
    BY <2>7, <2>8
<1> QED
  BY <1>4, <1>5

\* The last buffer of a pipe is given up when the next one is asked for.
LEMMA ReceiveBeginUse ==
  ASSUME IInv, CallInv, UseInv, NEW t \in Tasks, NEW p \in PipeIds, ReceiveBegin(t, p)
  PROVE  UseInv'
BY SetPipeIdUse DEF ReceiveBegin, Begins, Writing

\* The same when the message read is dropped.
LEMMA ReceiveRejectUse ==
  ASSUME IInv, CallInv, UseInv, NEW t \in Tasks, ReceiveReject(t)
  PROVE  UseInv'
<1> USE DEF IInv, TypeOK, CallInv
<1>1. pc[t] = "rx_verify" /\ pid[t] \in PipeIds
  BY DEF ReceiveReject, RunningHasPipe, Receiving
<1>2. CASE Match(pid[t])
  BY <1>1, <1>2, SetPipeIdUse DEF ReceiveReject, Writing
<1>3. CASE ~Match(pid[t])
  <2>1. /\ pc' = [pc EXCEPT ![t] = "idle"]
        /\ UNCHANGED <<pipeVars, bufVars, queue, lost, own, got, todo, msg>>
    BY <1>3 DEF ReceiveReject, GoTo, queueVars
  <2> QED
    BY <1>1, <2>1, UseKept DEF pipeVars, TasksOK, Writing
<1> QED
  BY <1>2, <1>3

\* What a task has read becomes the last message of its pipe, or is let go of.
LEMMA ExportReferenceUse ==
  ASSUME IInv, CallInv, UseInv, NEW t \in Tasks, ExportReference(t)
  PROVE  UseInv'
<1> USE DEF IInv, TypeOK, CallInv, UseInv
<1>1. /\ pc[t] = "rx_export" /\ got' = [got EXCEPT ![t] = NoBuf]
      /\ pc' = [pc EXCEPT ![t] = IF Match(pid[t]) THEN "rx_verify" ELSE "idle"]
      /\ UNCHANGED <<pipeId, queue, lost, own, todo, msg, bufApp, bufMsg>>
  BY DEF ExportReference, GoTo, queueVars
<1>2. got[t] \in Bufs /\ pid[t] \in PipeIds
  BY <1>1 DEF CallsOK, CallOK, TasksOK, RunningHasPipe, Receiving
<1> PICK c \in Bufs : got[t] = c
  BY <1>2
<1>3. pc[t] \notin Writing /\ pc'[t] \notin Writing /\ \A u \in Tasks : u # t => UNCHANGED pc[u]
  BY <1>1 DEF TasksOK, Writing
<1>4. \A b \in Bufs, k \in 2 .. 4 : Part(b, k)' = Part(b, k)
  BY <1>1, <1>3, SendersFrame
<1>5. \A b \in Bufs : Part(b, 6)' = Part(b, 6)
  BY <1>1, PartsFrame
<1>6. Part(c, 5)' = Part(c, 5) - 1 /\ \A b \in Bufs : b # c => Part(b, 5)' = Part(b, 5)
  BY <1>1, GotPart DEF TasksOK
<1>7. CASE Match(pid[t])
  <2> DEFINE s == SlotOf(pid[t])
  <2>1. s \in Slots /\ pipeId[s] \in PipeIds /\ lastBuf[s] = NoBuf
    BY <1>1, <1>2, <1>7, SlotInRange DEF ReadOK, Match, PipeIds
  <2>2. lastBuf' = [lastBuf EXCEPT ![s] = c] /\ UNCHANGED <<use, list, bufsInUse>>
    BY <1>7 DEF ExportReference
  <2> HIDE DEF s
  <2>3. Part(c, 7)' = Part(c, 7) + 1 /\ \A b \in Bufs : b # c => Part(b, 7)' = Part(b, 7)
    BY <1>1, <2>1, <2>2, LastPart
  <2>4. \A b \in Bufs, k \in 2 .. 7 : ~ (b = c /\ k \in {5, 7}) => Part(b, k)' = Part(b, k)
    BY <1>4, <1>5, <1>6, <2>3
  <2>5. UseCountAccounted'
    BY <1>6, <2>2, <2>3, <2>4, HandedOver
  <2>6. HandsOK'
    BY <1>1, <1>3, <2>2, HandsKept DEF TasksOK
  <2> QED
    BY <2>5, <2>6
<1>8. CASE ~Match(pid[t])
  <2>1. Drop({c}) /\ UNCHANGED lastBuf
    BY <1>8 DEF ExportReference
  <2>2. use[c] > 0 /\ list[c] # "zerocopy"
    <3>1. t \in ReadBy(c)
      BY DEF ReadBy
    <3> QED
      BY <3>1, InTransit
  <2>3. \A b \in Bufs : Part(b, 7)' = Part(b, 7)
    BY <1>1, <2>1, PartsFrame
  <2>4. \A b \in Bufs, k \in 2 .. 7 : ~ (b = c /\ k = 5) => Part(b, k)' = Part(b, k)
    BY <1>4, <1>5, <1>6, <2>3
  <2>5. /\ UseCountAccounted'
        /\ \A b \in Bufs : /\ list'[b] = "zerocopy" <=> list[b] = "zerocopy"
                           /\ list[b] = "zerocopy" => use'[b] = use[b]
    BY <1>6, <2>1, <2>2, <2>4, Released
  <2>6. HandsOK'
    BY <1>1, <1>3, <2>5, HandsKept DEF TasksOK
  <2> QED
    BY <2>5, <2>6
<1> QED
  BY <1>7, <1>8

\* A pipe that is torn down hands its last message to the task that deletes it.
LEMMA TearDownUse ==
  ASSUME IInv, CallInv, UseInv, NEW t \in Tasks, pc[t] \in {"idle", "clean_pipes"},
         NEW p \in PipeIds, Match(p), TearDown(t, p)
  PROVE  UseInv'
<1> USE DEF IInv, TypeOK, CallInv, UseInv
<1> DEFINE s == SlotOf(p)
<1>1. s \in Slots /\ pipeId[s] = p
  BY SlotInRange DEF Match, PipeIds
<1>2. /\ pc' = [pc EXCEPT ![t] = "drain"] /\ got' = [got EXCEPT ![t] = lastBuf[s]]
      /\ pipeId' = [pipeId EXCEPT ![s] = RESERVED]
      /\ UNCHANGED <<lastBuf, queue, lost, own, todo, msg, use, list, bufApp, bufMsg>>
  BY DEF TearDown, GoTo, queueVars, bufVars
<1>3. got[t] = NoBuf
  BY DEF CallsOK, CallOK
<1> HIDE DEF s
<1>4. pc[t] \notin Writing /\ pc'[t] \notin Writing /\ \A u \in Tasks : u # t => UNCHANGED pc[u]
  BY <1>2 DEF TasksOK, Writing
<1>5. \A b \in Bufs, k \in 2 .. 4 : Part(b, k)' = Part(b, k)
  BY <1>2, <1>4, SendersFrame
<1>6. \A b \in Bufs : Part(b, 6)' = Part(b, 6)
  BY <1>2, PartsFrame
<1>7. HandsOK'
  BY <1>2, <1>4, HandsKept DEF TasksOK
<1>8. pipeId'[s] \notin PipeIds /\ \A r \in Slots : r # s => UNCHANGED pipeId[r]
  BY <1>1, <1>2 DEF PipesOK, PipeIds, RESERVED
<1>9. CASE lastBuf[s] = NoBuf
  <2>1. ASSUME NEW b \in Bufs PROVE Owed(b)' = Owed(b)
    <3>1. ReadBy(b)' = ReadBy(b) /\ LastReads(b)' = LastReads(b)
      BY <1>2, <1>3, <1>8, <1>9, NullAssumption DEF ReadBy, LastReads, TasksOK
    <3>2. Part(b, 1)' = Part(b, 1) /\ Part(b, 5)' = Part(b, 5) /\ Part(b, 7)' = Part(b, 7)
      BY <1>2, <3>1, PartsKept
    <3>3. \A k \in 1 .. 7 : Part(b, k)' = Part(b, k)
      BY <1>5, <1>6, <3>2
    <3> QED
      BY <3>3, PartsSame
  <2> QED
    BY <1>2, <1>7, <2>1 DEF UseCountAccounted, Owed
<1>10. CASE lastBuf[s] # NoBuf
  <2> PICK c \in Bufs : lastBuf[s] = c
    BY <1>1, <1>10 DEF PipesOK
  <2>1. Part(c, 5)' = Part(c, 5) + 1 /\ \A b \in Bufs : b # c => Part(b, 5)' = Part(b, 5)
    BY <1>2, <1>3, GotPart
  <2>2. \A b \in Bufs : b # c => Part(b, 7)' = Part(b, 7)
    <3>1. ASSUME NEW b \in Bufs, b # c PROVE LastReads(b)' = LastReads(b)
      BY <1>2, <1>8, <3>1 DEF LastReads
    <3> QED
      BY <3>1, PartsKept
  <2>3. Part(c, 7)' = Part(c, 7) - 1
    <3>1. LastReads(c)' = LastReads(c) \ {s} /\ s \in LastReads(c)
      BY <1>1, <1>2, <1>8 DEF LastReads
    <3>2. Cardinality(LastReads(c)') = Cardinality(LastReads(c)) - 1
      BY <3>1, OneFewer, Counted
    <3> QED
      BY <3>2, PartIs
  <2>4. \A b \in Bufs, k \in 2 .. 7 : ~ (b = c /\ k \in {7, 5}) => Part(b, k)' = Part(b, k)
    BY <1>5, <1>6, <2>1, <2>2
  <2>5. UseCountAccounted'
    BY <1>2, <2>1, <2>3, <2>4, HandedOver
  <2> QED
    BY <1>7, <2>5
<1> QED
  BY <1>9, <1>10

\* The last buffer of a pipe goes to the task that deletes the pipe.
LEMMA DeleteBeginUse ==
  ASSUME IInv, CallInv, UseInv, NEW t \in Tasks, NEW p \in PipeIds, DeleteBegin(t, p)
  PROVE  UseInv'
BY TearDownUse DEF DeleteBegin, Begins

\* The same when ES deletes the pipe.
LEMMA CleanUpPipeUse ==
  ASSUME IInv, CallInv, UseInv, NEW p \in delList, CleanUpPipe(p)
  PROVE  UseInv'
<1>1. CASE Match(p) /\ pipeApp[SlotOf(p)] = victim
  BY <1>1, TaskAssumption, TearDownUse DEF CleanUpPipe, Match
<1>2. CASE ~ (Match(p) /\ pipeApp[SlotOf(p)] = victim)
  BY <1>2, UntouchedUse DEF CleanUpPipe, pipeVars, queueVars, taskVars
<1> QED
  BY <1>1, <1>2

\* The head of a queue is taken: its other messages move up by one.
LEMMA HeadTaken ==
  ASSUME QueuesOK, LengthOK, NEW p \in PipeIds, NEW c \in Bufs, queue[p] # <<>>, c = Head(queue[p]),
         queue' = [queue EXCEPT ![p] = Tail(@)], UNCHANGED lost
  PROVE  /\ \A b \in Bufs : b # c => Part(b, 6)' = Part(b, 6)
         /\ Part(c, 6)' = Part(c, 6) - 1
<1>1. /\ queue[p] \in Seq(Bufs) /\ Len(queue[p]) \in Nat /\ Len(queue[p]) > 0 /\ Len(queue[p]) <= MaxDepth
      /\ queue'[p] = Tail(queue[p]) /\ Len(queue'[p]) = Len(queue[p]) - 1
      /\ c = queue[p][1]
      /\ \A q \in PipeIds : q # p => queue'[q] = queue[q]
  BY DEF QueuesOK, LengthOK
<1>2. \A i \in 1 .. Len(queue'[p]) : queue'[p][i] = queue[p][i + 1]
  BY <1>1
<1>3. ASSUME NEW b \in Bufs
      PROVE  /\ Cardinality(PlacesOf(b)') = Cardinality(PlacesOf(b) \ {<<p, 1>>})
             /\ <<p, 1>> \in PlacesOf(b) <=> b = c
  <2> DEFINE A == PlacesOf(b)'
             B == PlacesOf(b) \ {<<p, 1>>}
             up == [x \in A |-> IF x[1] = p THEN <<p, x[2] + 1>> ELSE x]
  <2>1. <<p, 1>> \in PlacesOf(b) <=> b = c
    BY <1>1, DepthAssumption DEF PlacesOf
  <2>2. A = {x \in PipeIds \X (1 .. MaxDepth) : x[2] <= Len(queue'[x[1]]) /\ queue'[x[1]][x[2]] = b}
    BY DEF PlacesOf
  <2>3. B = {x \in PipeIds \X (1 .. MaxDepth) : /\ x[2] <= Len(queue[x[1]]) /\ queue[x[1]][x[2]] = b
                                                /\ ~ (x[1] = p /\ x[2] = 1)}
    BY DEF PlacesOf
  <2>4. IsFiniteSet(A) /\ IsFiniteSet(B)
    BY Counted, CountedNext, FS_RemoveElement
  <2> HIDE DEF A, B
  <2>5. up \in [A -> B]
    <3>1. ASSUME NEW x \in A PROVE up[x] \in B
      <4>1. CASE x[1] = p
        <5>1. x = <<p, x[2]>> /\ x[2] \in 1 .. MaxDepth /\ x[2] <= Len(queue'[p]) /\ queue'[p][x[2]] = b
          BY <2>2, <4>1
        <5>2. x[2] + 1 \in 1 .. MaxDepth /\ x[2] + 1 <= Len(queue[p]) /\ x[2] + 1 # 1
              /\ queue[p][x[2] + 1] = b
          BY <1>1, <1>2, <5>1, DepthAssumption
        <5>3. up[x] = <<p, x[2] + 1>>
          BY <4>1
        <5> QED
          BY <2>3, <5>2, <5>3
      <4>2. CASE x[1] # p
        BY <1>1, <2>2, <2>3, <4>2
      <4> QED
        BY <4>1, <4>2
    <3> QED
      BY <3>1
  <2>6. \A x, y \in A : up[x] = up[y] => x = y
    <3> SUFFICES ASSUME NEW x \in A, NEW y \in A, up[x] = up[y] PROVE x = y
      OBVIOUS
    <3>1. /\ x = <<x[1], x[2]>> /\ y = <<y[1], y[2]>> /\ x[2] \in Nat /\ y[2] \in Nat
      BY <2>2, DepthAssumption
    <3>2. up[x][1] = x[1] /\ up[y][1] = y[1] /\ up[x][2] = (IF x[1] = p THEN x[2] + 1 ELSE x[2])
          /\ up[y][2] = (IF y[1] = p THEN y[2] + 1 ELSE y[2])
      BY <3>1
    <3> QED
      BY <3>1, <3>2
  <2>7. \A y \in B : \E x \in A : up[x] = y
    <3> SUFFICES ASSUME NEW y \in B PROVE \E x \in A : up[x] = y
      OBVIOUS
    <3>1. y = <<y[1], y[2]>> /\ y[1] \in PipeIds /\ y[2] \in 1 .. MaxDepth
          /\ y[2] <= Len(queue[y[1]]) /\ queue[y[1]][y[2]] = b /\ ~ (y[1] = p /\ y[2] = 1)
      BY <2>3
    <3>2. CASE y[1] = p
      <4>1. y[2] - 1 \in 1 .. MaxDepth /\ y[2] - 1 <= Len(queue'[p])
        BY <1>1, <3>1, <3>2, DepthAssumption
      <4>2. queue'[p][y[2] - 1] = b
        BY <1>1, <1>2, <3>1, <3>2, <4>1, DepthAssumption
      <4>3. <<p, y[2] - 1>> \in A
        BY <2>2, <4>1, <4>2
      <4>4. up[<<p, y[2] - 1>>] = <<p, y[2]>>
        BY <3>1, <4>3, DepthAssumption
      <4> QED
        BY <3>1, <3>2, <4>3, <4>4
    <3>3. CASE y[1] # p
      <4>1. y \in A
        BY <1>1, <2>2, <3>1, <3>3
      <4> QED
        BY <3>3, <4>1
    <3> QED
      BY <3>2, <3>3
  <2> HIDE DEF up
  <2>8. up \in Bijection(A, B)
    BY <2>5, <2>6, <2>7 DEF Bijection, Injection, Surjection, IsInjective
  <2>9. Cardinality(A) = Cardinality(B)
    BY <2>4, <2>8, FS_Bijection DEF ExistsBijection
  <2> QED
    BY <2>1, <2>9 DEF A, B
<1>4. Cardinality(PlacesOf(c)') = Cardinality(PlacesOf(c)) - 1
  BY <1>3, OneFewer, Counted
<1>5. ASSUME NEW b \in Bufs, b # c PROVE Cardinality(PlacesOf(b)') = Cardinality(PlacesOf(b))
  <2>1. PlacesOf(b) \ {<<p, 1>>} = PlacesOf(b)
    BY <1>3, <1>5
  <2> QED
    BY <1>3, <2>1
<1>6. \A b \in Bufs : LostOf(b)' = LostOf(b)
  BY DEF LostOf
<1>7. \A b \in Bufs : Cardinality(PlacesOf(b)) \in Nat /\ Cardinality(LostOf(b)) \in Nat
  BY Counted
<1> QED
  BY <1>4, <1>5, <1>6, <1>7, PartIs

\* A message goes from its queue to the task that takes it.
LEMMA TakenUse ==
  ASSUME IInv, CallInv, UseInv, NEW t \in Tasks, pc[t] \notin Writing, pc'[t] \notin Writing,
         got[t] = NoBuf, pid[t] \in PipeIds, queue[pid[t]] # <<>>,
         got' = [got EXCEPT ![t] = Head(queue[pid[t]])], queue' = [queue EXCEPT ![pid[t]] = Tail(@)],
         UNCHANGED lost, \A u \in Tasks : u # t => UNCHANGED pc[u],
         UNCHANGED <<pipeId, lastBuf, use, list, bufApp, bufMsg, own, todo, msg>>
  PROVE  UseInv'
<1> USE DEF IInv, TypeOK, CallInv, UseInv
<1>0. Head(queue[pid[t]]) \in Bufs
  BY HeadTailType
<1> PICK c \in Bufs : c = Head(queue[pid[t]])
  BY <1>0
<1>1. Part(c, 6)' = Part(c, 6) - 1 /\ \A b \in Bufs : b # c => Part(b, 6)' = Part(b, 6)
  BY HeadTaken
<1>2. Part(c, 5)' = Part(c, 5) + 1 /\ \A b \in Bufs : b # c => Part(b, 5)' = Part(b, 5)
  BY GotPart
<1>3. \A b \in Bufs, k \in 2 .. 4 : Part(b, k)' = Part(b, k)
  <2>1. CallsOK /\ todo'[t] = todo[t] /\ \A u \in Tasks : u # t => UNCHANGED <<pc[u], own[u], todo[u]>>
    OBVIOUS
  <2> QED
    BY <2>1, SendersFrame
<1>4. \A b \in Bufs : Part(b, 7)' = Part(b, 7)
  BY PartsFrame
<1>5. \A b \in Bufs, k \in 2 .. 7 : ~ (b = c /\ k \in {6, 5}) => Part(b, k)' = Part(b, k)
  BY <1>1, <1>2, <1>3, <1>4
<1>6. UseCountAccounted'
  BY <1>1, <1>2, <1>5, HandedOver
<1>7. HandsOK'
  BY HandsKept DEF TasksOK
<1> QED
  BY <1>6, <1>7

\* A message taken by the task that empties its queue.
LEMMA DrainGetUse ==
  ASSUME IInv, CallInv, UseInv, NEW t \in Tasks, DrainGet(t)
  PROVE  UseInv'
<1> USE DEF IInv, TypeOK, CallInv
<1>1. /\ pc[t] = "drain" /\ got[t] = NoBuf /\ pid[t] \in PipeIds
      /\ UNCHANGED <<pipeId, lastBuf, bufVars, own, todo, msg>>
  BY DEF DrainGet, SlotClaims, Claims, Deleting, pipeVars
<1>2. CASE queue[pid[t]] # <<>>
  <2>1. got' = [got EXCEPT ![t] = Head(queue[pid[t]])] /\ queue' = [queue EXCEPT ![pid[t]] = Tail(@)]
        /\ UNCHANGED <<pc, lost>>
    BY <1>2 DEF DrainGet
  <2>2. pc[t] \notin Writing /\ pc'[t] \notin Writing
    BY <1>1, <2>1 DEF Writing
  <2> QED
    BY <1>1, <1>2, <2>1, <2>2, TakenUse DEF bufVars
<1>3. CASE queue[pid[t]] = <<>>
  <2>1. pc' = [pc EXCEPT ![t] = "queue_delete"] /\ UNCHANGED <<got, queue, lost>>
    BY <1>3 DEF DrainGet, GoTo
  <2> QED
    BY <1>1, <2>1, UseKept DEF TasksOK, Writing
<1> QED
  BY <1>2, <1>3

\* A message that goes with its queue is still owed for.
LEMMA QueueDeleteUse ==
  ASSUME IInv, CallInv, QueueInv, UseInv, NEW t \in Tasks, QueueDelete(t)
  PROVE  UseInv'
<1> USE DEF IInv, TypeOK, CallInv, UseInv
<1>1. /\ pc[t] = "queue_delete" /\ pc' = [pc EXCEPT ![t] = "delete_finish"]
      /\ UNCHANGED <<pipeId, lastBuf, use, list, bufApp, bufMsg, own, got, todo, msg>>
  BY DEF QueueDelete, GoTo, pipeVars, bufVars
<1>2. pid[t] \in PipeIds /\ Live(pid[t])
  BY <1>1, DeleterAlone
<1> PICK p \in PipeIds : p = pid[t]
  BY <1>2
<1>3. /\ lost[p] = <<>> /\ queue'[p] = <<>> /\ lost'[p] = queue[p]
      /\ \A q \in PipeIds : q # p => UNCHANGED <<queue[q], lost[q]>>
  BY <1>2 DEF QueueInv, GoneOK, QueueDelete, QueuesOK
<1>4. ASSUME NEW b \in Bufs PROVE Part(b, 6)' = Part(b, 6)
  <2> DEFINE On == {x \in PipeIds \X (1 .. MaxDepth) : x[1] = p /\ x[2] <= Len(queue[p]) /\ queue[p][x[2]] = b}
  <2>1. \A x \in PipeIds \X (1 .. MaxDepth) : x[1] \in PipeIds /\ x[2] \in Nat /\ x[2] > 0
    BY DepthAssumption
  <2>2. PlacesOf(b)' = PlacesOf(b) \ On
    BY <1>3, <2>1 DEF PlacesOf
  <2>3. LostOf(b)' = LostOf(b) \cup On /\ LostOf(b) \cap On = {}
    BY <1>3, <2>1 DEF LostOf
  <2>4. On \subseteq PlacesOf(b)
    BY DEF PlacesOf
  <2>5. IsFiniteSet(PlacesOf(b)) /\ IsFiniteSet(LostOf(b)) /\ IsFiniteSet(On)
    BY <2>4, Counted, FS_Subset
  <2> HIDE DEF On
  <2>6. /\ Cardinality(LostOf(b)') = Cardinality(LostOf(b)) + Cardinality(On)
        /\ Cardinality(PlacesOf(b)') = Cardinality(PlacesOf(b)) - Cardinality(On)
    <3>1. Cardinality(LostOf(b) \cup On)
            = Cardinality(LostOf(b)) + Cardinality(On) - Cardinality(LostOf(b) \cap On)
      BY <2>5, FS_Union
    <3>2. Cardinality(PlacesOf(b) \ On) = Cardinality(PlacesOf(b)) - Cardinality(PlacesOf(b) \cap On)
      BY <2>5, FS_Difference
    <3>3. PlacesOf(b) \cap On = On
      BY <2>4
    <3>4. Cardinality(LostOf(b) \cap On) = 0
      BY <2>3, FS_EmptySet
    <3>5. Cardinality(LostOf(b)) \in Nat /\ Cardinality(On) \in Nat
      BY <2>5, FS_CardinalityType
    <3>6. Cardinality(LostOf(b)') = Cardinality(LostOf(b) \cup On)
      BY <2>3
    <3>7. Cardinality(PlacesOf(b)') = Cardinality(PlacesOf(b) \ On)
      BY <2>2
    <3>8. Cardinality(PlacesOf(b) \ On) = Cardinality(PlacesOf(b)) - Cardinality(On)
      BY <3>2, <3>3
    <3>9. Cardinality(LostOf(b) \cup On) = Cardinality(LostOf(b)) + Cardinality(On)
      BY <3>1, <3>4, <3>5
    <3> QED
      BY <3>6, <3>7, <3>8, <3>9
  <2>7. Cardinality(LostOf(b)) \in Nat /\ Cardinality(PlacesOf(b)) \in Nat /\ Cardinality(On) \in Nat
    BY <2>5, FS_CardinalityType
  <2>8. /\ Part(b, 6) = Cardinality(PlacesOf(b)) + Cardinality(LostOf(b))
        /\ Part(b, 6)' = Cardinality(PlacesOf(b)') + Cardinality(LostOf(b)')
    BY PartIs
  <2> QED
    BY <2>6, <2>7, <2>8
<1>5. \A b \in Bufs, k \in 2 .. 4 : Part(b, k)' = Part(b, k)
  <2>1. pc[t] \notin Writing /\ pc'[t] \notin Writing /\ \A u \in Tasks : u # t => UNCHANGED pc[u]
    BY <1>1 DEF TasksOK, Writing
  <2> QED
    BY <1>1, <2>1, SendersFrame
<1>6. UseCountAccounted'
  <2>1. ASSUME NEW b \in Bufs PROVE use'[b] = Owed(b)'
    <3>1. Part(b, 1)' = Part(b, 1) /\ Part(b, 5)' = Part(b, 5) /\ Part(b, 7)' = Part(b, 7)
      BY <1>1, PartsKept, PartsFrame
    <3>2. \A k \in 1 .. 7 : Part(b, k)' = Part(b, k)
      BY <1>4, <1>5, <3>1
    <3> QED
      BY <1>1, <3>2, PartsSame DEF UseCountAccounted, Owed
  <2> QED
    BY <2>1 DEF UseCountAccounted, Owed
<1>7. HandsOK'
  <2>1. \A u \in Tasks : pc'[u] \in Writing <=> pc[u] \in Writing
    BY <1>1 DEF TasksOK, Writing
  <2> QED
    BY <1>1, <2>1, HandsKept DEF TasksOK
<1> QED
  BY <1>6, <1>7

\* A message taken by the reader of its queue.
LEMMA QueueGetUse ==
  ASSUME IInv, CallInv, UseInv, NEW t \in Tasks, QueueGet(t)
  PROVE  UseInv'
<1> USE DEF IInv, TypeOK, CallInv
<1>1. /\ pc[t] = "rx_get" /\ pid[t] \in PipeIds /\ queue[pid[t]] # <<>>
      /\ got' = [got EXCEPT ![t] = Head(queue[pid[t]])] /\ queue' = [queue EXCEPT ![pid[t]] = Tail(@)]
      /\ pc' = [pc EXCEPT ![t] = "rx_export"]
      /\ UNCHANGED <<pipeId, lastBuf, use, list, bufApp, bufMsg, own, todo, msg, lost>>
  BY DEF QueueGet, RunningHasPipe, Receiving, pipeVars, bufVars, GoTo
<1>2. got[t] = NoBuf
  BY <1>1 DEF CallsOK, CallOK
<1>3. pc[t] \notin Writing /\ pc'[t] \notin Writing /\ \A u \in Tasks : u # t => UNCHANGED pc[u]
  BY <1>1 DEF TasksOK, Writing
<1> QED
  BY <1>1, <1>2, <1>3, TakenUse

\* A write that is made, and one that fails, is no longer to be made.
LEMMA WriteGone ==
  ASSUME CallsOK, TasksOK, NEW t \in Tasks, NEW w \in todo[t], NEW c \in Bufs, own[t] = c,
         UNCHANGED own, todo' = [todo EXCEPT ![t] = @ \ {w}]
  PROVE  /\ \A b \in Bufs : b # c => Part(b, 3)' = Part(b, 3)
         /\ Part(c, 3)' = Part(c, 3) - 1
<1>1. w[2] \in PipeIds
  BY DEF TasksOK
<1>2. \A v \in todo[t] : v[2] = w[2] => v = w
  BY DEF CallsOK, CallOK
<1>3. \A u \in Tasks, p \in PipeIds : Pending(u, p)' <=> Pending(u, p) /\ ~ (u = t /\ p = w[2])
  BY <1>2 DEF Pending, TasksOK
<1>4. Pending(t, w[2])
  BY DEF Pending
<1>5. WritesOf(c)' = WritesOf(c) \ {<<t, w[2]>>} /\ <<t, w[2]>> \in WritesOf(c)
  BY <1>1, <1>3, <1>4 DEF WritesOf
<1>6. Cardinality(WritesOf(c)') = Cardinality(WritesOf(c)) - 1
  BY <1>5, OneFewer, Counted
<1>7. ASSUME NEW b \in Bufs, b # c PROVE Part(b, 3)' = Part(b, 3)
  <2>1. WritesOf(b)' = WritesOf(b)
    BY <1>3, <1>7 DEF WritesOf
  <2> QED
    BY <2>1, PartsKept
<1> QED
  BY <1>6, <1>7, PartIs

\* A message that is written goes to the end of the queue.
LEMMA Written ==
  ASSUME QueuesOK, LengthOK, NEW p \in PipeIds, NEW c \in Bufs, Len(queue[p]) < qcap[p],
         queue' = [queue EXCEPT ![p] = Append(@, c)], UNCHANGED lost
  PROVE  /\ \A b \in Bufs : b # c => Part(b, 6)' = Part(b, 6)
         /\ Part(c, 6)' = Part(c, 6) + 1
<1> DEFINE n == Len(queue[p]) + 1
<1>1. /\ queue[p] \in Seq(Bufs) /\ Len(queue[p]) \in Nat /\ n \in 1 .. MaxDepth
      /\ Len(queue'[p]) = n /\ queue'[p][n] = c
      /\ \A i \in 1 .. Len(queue[p]) : queue'[p][i] = queue[p][i]
      /\ \A q \in PipeIds : q # p => queue'[q] = queue[q]
  BY DepthAssumption DEF QueuesOK, LengthOK
<1>2. ASSUME NEW b \in Bufs
      PROVE  PlacesOf(b)' = (IF b = c THEN PlacesOf(b) \cup {<<p, n>>} ELSE PlacesOf(b))
             /\ <<p, n>> \notin PlacesOf(b)
  <2>1. <<p, n>> \notin PlacesOf(b)
    BY <1>1 DEF PlacesOf
  <2>2. ASSUME NEW x \in PipeIds \X (1 .. MaxDepth)
        PROVE  (x[2] <= Len(queue'[x[1]]) /\ queue'[x[1]][x[2]] = b)
               <=> (x[2] <= Len(queue[x[1]]) /\ queue[x[1]][x[2]] = b) \/ (b = c /\ x = <<p, n>>)
    <3>1. x = <<x[1], x[2]>> /\ x[1] \in PipeIds /\ x[2] \in 1 .. MaxDepth /\ x[2] \in Nat
      BY DepthAssumption
    <3>2. CASE x[1] # p
      BY <1>1, <3>1, <3>2
    <3>3. CASE x[1] = p /\ x[2] = n
      BY <1>1, <3>1, <3>3
    <3>4. CASE x[1] = p /\ x[2] # n
      <4>1. x[2] <= n <=> x[2] <= Len(queue[p])
        BY <1>1, <3>1, <3>4
      <4> QED
        BY <1>1, <3>1, <3>4, <4>1
    <3> QED
      BY <3>2, <3>3, <3>4
  <2>3. <<p, n>> \in PipeIds \X (1 .. MaxDepth)
    BY <1>1
  <2> HIDE DEF n
  <2>4. PlacesOf(b)' = {x \in PipeIds \X (1 .. MaxDepth) :
                          (x[2] <= Len(queue[x[1]]) /\ queue[x[1]][x[2]] = b) \/ (b = c /\ x = <<p, n>>)}
    BY <2>2 DEF PlacesOf
  <2> QED
    BY <2>1, <2>3, <2>4 DEF PlacesOf
<1>3. Cardinality(PlacesOf(c)') = Cardinality(PlacesOf(c)) + 1
  BY <1>2, OneMore, Counted
<1>4. \A b \in Bufs : LostOf(b)' = LostOf(b) /\ (b # c => PlacesOf(b)' = PlacesOf(b))
  BY <1>2 DEF LostOf
<1>5. Cardinality(PlacesOf(c)) \in Nat /\ Cardinality(LostOf(c)) \in Nat
  BY Counted
<1> QED
  BY <1>3, <1>4, <1>5, PartsKept, PartIs

\* A write that is made is one more place on a queue; a failed one is still to be taken back.
LEMMA QueuePutUse ==
  ASSUME IInv, CallInv, UseInv, NEW t \in Tasks, QueuePut(t)
  PROVE  UseInv'
<1> USE DEF IInv, TypeOK, CallInv, UseInv
<1>1. pc[t] = "tx_put" /\ todo[t] # {}
      /\ UNCHANGED <<pipeId, lastBuf, use, list, bufApp, bufMsg, own, got, msg, lost>>
  BY DEF QueuePut, pipeVars, bufVars
<1>2. own[t] \in Bufs /\ NextWrite(t) \in todo[t]
  BY <1>1, NextWriteFound DEF SendingHasBuffer, Sending
<1> PICK c \in Bufs : own[t] = c
  BY <1>2
<1> PICK w \in todo[t] : w = NextWrite(t)
  BY <1>2
<1>3. todo' = [todo EXCEPT ![t] = @ \ {w}] /\ w[2] \in PipeIds
  BY DEF QueuePut, TasksOK
<1>4. Part(c, 3)' = Part(c, 3) - 1 /\ \A b \in Bufs : b # c => Part(b, 3)' = Part(b, 3)
  BY <1>1, <1>3, WriteGone
<1>5. \A b \in Bufs : Part(b, 5)' = Part(b, 5) /\ Part(b, 7)' = Part(b, 7)
  BY <1>1, PartsFrame
<1>6. CASE Len(queue[w[2]]) < qcap[w[2]]
  <2>1. queue' = [queue EXCEPT ![w[2]] = Append(@, c)] /\ UNCHANGED pc
    BY <1>6 DEF QueuePut
  <2>2. Part(c, 6)' = Part(c, 6) + 1 /\ \A b \in Bufs : b # c => Part(b, 6)' = Part(b, 6)
    BY <1>1, <1>3, <1>6, <2>1, Written
  <2>3. ASSUME NEW b \in Bufs PROVE Part(b, 2)' = Part(b, 2) /\ Part(b, 4)' = Part(b, 4)
    <3>1. SentBy(b)' = SentBy(b) /\ FailedOf(b)' = FailedOf(b)
      BY <1>1, <2>1 DEF SentBy, FailedOf
    <3> QED
      BY <3>1, PartsKept
  <2>4. \A b \in Bufs, k \in 2 .. 7 : ~ (b = c /\ k \in {3, 6}) => Part(b, k)' = Part(b, k)
    BY <1>4, <1>5, <2>2, <2>3
  <2>5. UseCountAccounted'
    BY <1>1, <1>4, <2>2, <2>4, HandedOver
  <2>6. HandsOK'
    BY <1>1, <2>1, HandsKept DEF TasksOK
  <2> QED
    BY <2>5, <2>6
<1>7. CASE ~ (Len(queue[w[2]]) < qcap[w[2]])
  <2>1. pc' = [pc EXCEPT ![t] = "tx_undo"] /\ UNCHANGED queue
    BY <1>7 DEF QueuePut, GoTo
  <2>2. ASSUME NEW b \in Bufs PROVE Part(b, 2)' = Part(b, 2) /\ Part(b, 6)' = Part(b, 6)
    <3>1. SentBy(b)' = SentBy(b)
      BY <1>1, <2>1 DEF SentBy, TasksOK
    <3> QED
      BY <1>1, <2>1, <3>1, PartsFrame
  <2>3. ASSUME NEW b \in Bufs PROVE Part(b, 4)' = IF b = c THEN Part(b, 4) + 1 ELSE Part(b, 4)
    <3>1. FailedOf(b)' = (IF b = c THEN FailedOf(b) \cup {t} ELSE FailedOf(b)) /\ t \notin FailedOf(b)
      BY <1>1, <2>1 DEF FailedOf, TasksOK
    <3>2. Cardinality(FailedOf(b)') = IF b = c THEN Cardinality(FailedOf(b)) + 1 ELSE Cardinality(FailedOf(b))
      BY <3>1, OneMore, Counted
    <3> QED
      BY <3>2, PartIs
  <2>4. \A b \in Bufs, k \in 2 .. 7 : ~ (b = c /\ k \in {3, 4}) => Part(b, k)' = Part(b, k)
    BY <1>4, <1>5, <2>2, <2>3
  <2>5. Part(c, 4)' = Part(c, 4) + 1
    BY <2>3
  <2>6. UseCountAccounted'
    BY <1>1, <1>4, <2>4, <2>5, HandedOver
  <2>7. \A u \in Tasks : pc'[u] \in Writing <=> pc[u] \in Writing
    BY <1>1, <2>1 DEF Writing, TasksOK
  <2>8. HandsOK'
    BY <1>1, <2>7, HandsKept DEF TasksOK
  <2> QED
    BY <2>6, <2>8
<1> QED
  BY <1>6, <1>7

\* A free buffer is one reference to its new owner, and nothing else.
LEMMA AllocateUse ==
  ASSUME IInv, CallInv, UseInv, NEW t \in Tasks, Allocate(t)
  PROVE  UseInv'
<1> USE DEF IInv, TypeOK, CallInv, UseInv
<1>1. /\ pc[t] \in {"allocate", "tx_allocate"} /\ own[t] = NoBuf /\ opApp[t] = AppOf[t] /\ todo[t] = {}
      /\ UNCHANGED <<pipeId, lastBuf, queue, lost, got, todo>>
  BY DEF Allocate, CallsOK, CallOK, Allocating, Writing, pipeVars, queueVars
<1>2. \E l \in {"idle", "tx_find"} : pc' = [pc EXCEPT ![t] = l]
  BY <1>1 DEF Allocate, GoTo
<1>3. pc[t] \notin Writing /\ pc'[t] \notin Writing /\ \A u \in Tasks : u # t => UNCHANGED pc[u]
  BY <1>1, <1>2 DEF TasksOK, Writing
<1>4. CASE UNCHANGED <<bufVars, own>> /\ \A u \in Tasks : u # t => UNCHANGED msg[u]
  BY <1>1, <1>3, <1>4, UseKept
<1>5. ASSUME NEW c \in Bufs, use[c] = 0, use' = [use EXCEPT ![c] = 1], bufApp' = [bufApp EXCEPT ![c] = opApp[t]],
             bufMsg' = [bufMsg EXCEPT ![c] = NoMsg], list' = [list EXCEPT ![c] = "zerocopy"],
             own' = [own EXCEPT ![t] = c], UNCHANGED msg
      PROVE  UseInv'
  <2>1. /\ list[c] # "zerocopy" /\ SentBy(c) = {} /\ WritesOf(c) = {} /\ FailedOf(c) = {} /\ ReadBy(c) = {}
        /\ PlacesOf(c) = {} /\ LostOf(c) = {} /\ LastReads(c) = {}
    BY <1>5, Alone
  <2>2. \A u \in Tasks : own[u] # c
    <3> SUFFICES ASSUME NEW u \in Tasks, own[u] = c PROVE FALSE
      OBVIOUS
    <3>1. pc[u] \in Writing
      BY <2>1, NullAssumption DEF HandsOK
    <3> QED
      BY <2>1, <3>1 DEF SentBy, Writing
  <2>3. ASSUME NEW b \in Bufs
        PROVE  /\ SentBy(b)' = SentBy(b) /\ WritesOf(b)' = WritesOf(b) /\ FailedOf(b)' = FailedOf(b)
               /\ ReadBy(b)' = ReadBy(b) /\ PlacesOf(b)' = PlacesOf(b) /\ LostOf(b)' = LostOf(b) /\ LastReads(b)' = LastReads(b)
    <3>1. SentBy(b)' = SentBy(b) /\ FailedOf(b)' = FailedOf(b)
      BY <1>3, <1>5 DEF SentBy, FailedOf, Writing, TasksOK
    <3>2. \A u \in Tasks, p \in PipeIds : own'[u] = b /\ Pending(u, p)' <=> own[u] = b /\ Pending(u, p)
      BY <1>1, <1>5 DEF Pending, TasksOK
    <3>3. WritesOf(b)' = WritesOf(b)
      BY <3>2 DEF WritesOf
    <3>4. ReadBy(b)' = ReadBy(b) /\ PlacesOf(b)' = PlacesOf(b) /\ LostOf(b)' = LostOf(b) /\ LastReads(b)' = LastReads(b)
      BY <1>1 DEF ReadBy, PlacesOf, LostOf, LastReads
    <3> QED
      BY <3>1, <3>3, <3>4
  <2>4. ASSUME NEW b \in Bufs PROVE use'[b] = Owed(b)'
    <3>1. CASE b = c
      <4>1. list'[b] = "zerocopy" /\ use'[b] = 1
        BY <1>5, <3>1 DEF BufsOK
      <4>2. /\ SentBy(b)' = {} /\ WritesOf(b)' = {} /\ FailedOf(b)' = {} /\ ReadBy(b)' = {}
            /\ PlacesOf(b)' = {} /\ LostOf(b)' = {} /\ LastReads(b)' = {}
        BY <2>1, <2>3, <3>1
      <4> QED
        BY <4>1, <4>2, FS_EmptySet DEF Owed, References
    <3>2. CASE b # c
      <4>1. use'[b] = use[b] /\ list'[b] = list[b]
        BY <1>5, <3>2 DEF BufsOK
      <4> QED
        BY <2>3, <4>1, ReferencesKept DEF UseCountAccounted, Owed
    <3> QED
      BY <3>1, <3>2
  <2>5. HandsOK'
    <3>1. \A b \in Bufs : list'[b] = "zerocopy" => use'[b] = 1
      BY <1>5 DEF HandsOK, BufsOK
    <3>2. \A u, v \in Tasks : own'[u] = own'[v] /\ own'[u] # NoBuf => u = v
      BY <1>5, <2>2 DEF HandsOK, TasksOK
    <3>3. ASSUME NEW u \in Tasks, own'[u] # NoBuf, u # t
          PROVE  IF pc'[u] \in Writing THEN bufMsg'[own'[u]] = msg'[u]
                 ELSE list'[own'[u]] = "zerocopy" /\ bufApp'[own'[u]] = AppOf[u]
      <4>1. own'[u] = own[u] /\ own[u] # c /\ own[u] \in Bufs /\ pc'[u] = pc[u] /\ msg'[u] = msg[u]
        BY <1>3, <1>5, <2>2, <3>3 DEF TasksOK
      <4>2. UNCHANGED <<bufMsg[own[u]], list[own[u]], bufApp[own[u]]>>
        BY <1>5, <4>1 DEF BufsOK
      <4>3. IF pc[u] \in Writing THEN bufMsg[own[u]] = msg[u]
            ELSE list[own[u]] = "zerocopy" /\ bufApp[own[u]] = AppOf[u]
        BY <4>1, NullAssumption DEF HandsOK
      <4> QED
        BY <1>5, <4>1, <4>3 DEF BufsOK
    <3>4. pc'[t] \notin Writing /\ own'[t] = c /\ list'[c] = "zerocopy" /\ bufApp'[c] = AppOf[t]
      BY <1>1, <1>3, <1>5 DEF BufsOK, TasksOK
    <3> QED
      BY <3>1, <3>2, <3>3, <3>4 DEF HandsOK
  <2> QED
    BY <2>4, <2>5 DEF UseCountAccounted, Owed
<1> QED
  BY <1>4, <1>5 DEF Allocate, TasksOK

\* Who holds nothing of a buffer before a step in which nobody takes it, holds nothing of it after.
LEMMA StillAlone ==
  ASSUME NEW b, UNCHANGED <<pipeId, lastBuf, queue, lost, got, todo>>,
         \A u \in Tasks : own'[u] = b => own[u] = b /\ (pc'[u] \in Writing => pc[u] \in Writing),
         \A u \in Tasks : pc'[u] = "tx_undo" => pc[u] = "tx_undo"
  PROVE  /\ SentBy(b) = {} => SentBy(b)' = {}
         /\ WritesOf(b) = {} => WritesOf(b)' = {}
         /\ FailedOf(b) = {} => FailedOf(b)' = {}
         /\ ReadBy(b)' = ReadBy(b) /\ PlacesOf(b)' = PlacesOf(b) /\ LostOf(b)' = LostOf(b) /\ LastReads(b)' = LastReads(b)
<1>1. SentBy(b) = {} => SentBy(b)' = {}
  BY DEF SentBy, Writing
<1>2. WritesOf(b) = {} => WritesOf(b)' = {}
  BY DEF WritesOf, Pending
<1>3. FailedOf(b) = {} => FailedOf(b)' = {}
  BY DEF FailedOf
<1>4. ReadBy(b)' = ReadBy(b) /\ PlacesOf(b)' = PlacesOf(b) /\ LostOf(b)' = LostOf(b) /\ LastReads(b)' = LastReads(b)
  BY DEF ReadBy, PlacesOf, LostOf, LastReads
<1> QED
  BY <1>1, <1>2, <1>3, <1>4

\* Buffers that only their applications hold go back to the pool, whichever they are.
LEMMA GivenBack ==
  ASSUME IInv, CallInv, UseInv, NEW B \in SUBSET Bufs, \A b \in B : list[b] = "zerocopy", Drop(B),
         UNCHANGED <<pipeId, lastBuf, queue, lost, got, todo, bufMsg, msg>>,
         \A b \in Bufs : b \notin B => UNCHANGED bufApp[b],
         \A u \in Tasks : own[u] \notin B => UNCHANGED own[u],
         \A u \in Tasks : own'[u] \notin B,
         \A u \in Tasks : own'[u] = own[u] \/ own'[u] = NoBuf,
         \A u \in Tasks : /\ pc'[u] \in Writing <=> pc[u] \in Writing
                          /\ pc'[u] = "tx_undo" <=> pc[u] = "tx_undo"
  PROVE  UseInv'
<1> USE DEF IInv, TypeOK, CallInv, UseInv
<1>1. \A b \in B : use[b] = 1
  BY Alone
<1>2. /\ \A b \in B : use'[b] = 0 /\ list'[b] = "none"
      /\ \A b \in Bufs : b \notin B => use'[b] = use[b] /\ list'[b] = list[b]
  BY <1>1 DEF Drop, BufsOK
<1>3. ASSUME NEW b \in B PROVE use'[b] = Owed(b)'
  <2>1. /\ SentBy(b) = {} /\ WritesOf(b) = {} /\ FailedOf(b) = {} /\ ReadBy(b) = {}
        /\ PlacesOf(b) = {} /\ LostOf(b) = {} /\ LastReads(b) = {}
    BY Alone
  <2>2. /\ SentBy(b)' = {} /\ WritesOf(b)' = {} /\ FailedOf(b)' = {} /\ ReadBy(b)' = {}
        /\ PlacesOf(b)' = {} /\ LostOf(b)' = {} /\ LastReads(b)' = {}
    BY <2>1, StillAlone
  <2>3. use'[b] = 0 /\ list'[b] # "zerocopy"
    BY <1>2
  <2> QED
    BY <2>2, <2>3, FS_EmptySet DEF Owed, References
<1>4. ASSUME NEW b \in Bufs, b \notin B PROVE use'[b] = Owed(b)'
  <2>1. \A u \in Tasks : own'[u] = b <=> own[u] = b
    BY <1>4, NullAssumption
  <2>2. SentBy(b)' = SentBy(b) /\ FailedOf(b)' = FailedOf(b)
    BY <2>1 DEF SentBy, FailedOf, Writing
  <2>3. WritesOf(b)' = WritesOf(b)
    BY <2>1 DEF WritesOf, Pending
  <2>4. ReadBy(b)' = ReadBy(b) /\ PlacesOf(b)' = PlacesOf(b) /\ LostOf(b)' = LostOf(b) /\ LastReads(b)' = LastReads(b)
    BY DEF ReadBy, PlacesOf, LostOf, LastReads
  <2> QED
    BY <1>2, <1>4, <2>2, <2>3, <2>4, ReferencesKept DEF UseCountAccounted, Owed
<1>5. HandsOK'
  <2>1. \A b \in Bufs : list'[b] = "zerocopy" => use'[b] = 1
    BY <1>2 DEF HandsOK
  <2>2. \A u, v \in Tasks : own'[u] = own'[v] /\ own'[u] # NoBuf => u = v
    BY DEF HandsOK
  <2>3. ASSUME NEW u \in Tasks, own'[u] # NoBuf
        PROVE  IF pc'[u] \in Writing THEN bufMsg'[own'[u]] = msg'[u]
               ELSE list'[own'[u]] = "zerocopy" /\ bufApp'[own'[u]] = AppOf[u]
    <3>1. own'[u] = own[u] /\ own[u] \in Bufs /\ own[u] \notin B
      BY <2>3 DEF TasksOK
    <3>2. list'[own[u]] = list[own[u]] /\ bufApp'[own[u]] = bufApp[own[u]]
      BY <1>2, <3>1
    <3> QED
      BY <2>3, <3>1, <3>2 DEF HandsOK
  <2> QED
    BY <2>1, <2>2, <2>3 DEF HandsOK
<1> QED
  BY <1>3, <1>4, <1>5 DEF UseCountAccounted, Owed

\* The reference of the task that filled a buffer is given up.
LEMMA ReleaseBufferUse ==
  ASSUME IInv, CallInv, UseInv, NEW t \in Tasks, ReleaseBuffer(t)
  PROVE  UseInv'
<1> USE DEF IInv, TypeOK, CallInv, UseInv
<1> PICK c \in Bufs : own[t] = c
  BY DEF ReleaseBuffer, TasksOK
<1>1. /\ pc[t] = "idle" /\ own' = [own EXCEPT ![t] = NoBuf]
      /\ UNCHANGED <<pipeId, lastBuf, queue, lost, pc, got, todo, bufMsg, msg>>
  BY DEF ReleaseBuffer, Begins, pipeVars, queueVars
<1>2. list[c] = "zerocopy" /\ bufApp[c] = AppOf[t] /\ AppOf[t] \in Apps
  BY <1>1, NullAssumption, TaskAssumption DEF HandsOK, Writing
<1>3. Drop({c}) /\ bufApp' = [bufApp EXCEPT ![c] = NoApp]
  BY <1>2, NullAssumption DEF ReleaseBuffer
<1>4. \A b \in Bufs : b \notin {c} => UNCHANGED bufApp[b]
  BY <1>3 DEF BufsOK
<1>5. \A u \in Tasks : own'[u] = IF u = t THEN NoBuf ELSE own[u]
  BY <1>1 DEF TasksOK
<1>6. \A u \in Tasks : u # t => own[u] # c
  BY NullAssumption DEF HandsOK
<1> QED
  BY <1>1, <1>2, <1>3, <1>4, <1>5, <1>6, NullAssumption, GivenBack

\* ES takes back the buffers of an application none of whose tasks acts any more.
LEMMA CleanUpZeroCopyUse ==
  ASSUME IInv, CallInv, UseInv, CleanUpZeroCopy
  PROVE  UseInv'
<1> USE DEF IInv, TypeOK, CallInv, UseInv
<1> DEFINE B == {b \in Bufs : list[b] = "zerocopy" /\ bufApp[b] = victim}
<1>1. /\ pc[ES] = "clean_pipes" /\ pc' = [pc EXCEPT ![ES] = "clean_tasks"] /\ Drop(B)
      /\ UNCHANGED <<pipeId, lastBuf, queue, lost, got, todo, bufMsg, msg, bufApp, own>>
  BY DEF CleanUpZeroCopy, GoTo, pipeVars, queueVars
<1>2. victim \in Apps /\ appState[victim] = "cleaning"
  BY <1>1 DEF AppsOK
<1>3. ASSUME NEW u \in Tasks, own[u] \in B PROVE FALSE
  <2>1. own[u] \in Bufs /\ list[own[u]] = "zerocopy" /\ bufApp[own[u]] = victim
    BY <1>3
  <2>2. SentBy(own[u]) = {}
    BY <2>1, Alone
  <2>3. pc[u] \notin Writing
    BY <2>2 DEF SentBy, Writing
  <2>4. AppOf[u] = victim
    BY <2>1, <2>3, NullAssumption DEF HandsOK
  <2>5. pc[u] \in Ended
    BY <1>2, <2>4 DEF AppsOK
  <2> QED
    BY <2>1, <2>5, NullAssumption DEF CallsOK, CallOK
<1>4. \A u \in Tasks : /\ pc'[u] \in Writing <=> pc[u] \in Writing
                       /\ pc'[u] = "tx_undo" <=> pc[u] = "tx_undo"
  BY <1>1 DEF TasksOK, Writing
<1>5. B \in SUBSET Bufs /\ \A b \in B : list[b] = "zerocopy"
  OBVIOUS
<1> HIDE DEF B
<1> QED
  BY <1>1, <1>3, <1>4, <1>5, GivenBack

\* The writes of a message, counted: one for each destination it goes to.
LEMMA WritesCounted ==
  ASSUME IInv, NEW t \in Tasks, FindDestinations(t), NEW c \in Bufs, own[t] = c,
         RoomForDests, WritesOf(c) = {}, SentBy(c) = {}, \A u \in Tasks : own[u] = c => u = t
  PROVE  /\ use[c] = 1 => use'[c] = 1 + Cardinality(WritesOf(c)')
         /\ SentBy(c)' = {t}
<1> USE DEF IInv, TypeOK
<1> DEFINE m == msg[t]
           write == {i \in Targets(m, AppIdOf(t)) : dest[m][i].cnt < dest[m][i].lim}
           f == [i \in write |-> <<t, dest[m][i].pipe>>]
<1>1. /\ m \in MsgIds /\ write \subseteq DOMAIN dest[m] /\ DOMAIN dest[m] = 1 .. Len(dest[m])
      /\ Len(dest[m]) \in Nat /\ Len(dest[m]) <= MaxDests
  <2>1. m \in MsgIds
    BY DEF FindDestinations, SendingHasBuffer, Sending
  <2>2. dest[m] \in Seq(DestType)
    BY <2>1 DEF RoutesOK
  <2>3. DOMAIN dest[m] = 1 .. Len(dest[m]) /\ Len(dest[m]) \in Nat
    BY <2>2
  <2>4. write \subseteq DOMAIN dest[m]
    BY DEF Targets
  <2> QED
    BY <2>1, <2>3, <2>4 DEF RoutesLive
<1>2. /\ todo' = [todo EXCEPT ![t] = {<<i, dest[m][i].pipe>> : i \in write}]
      /\ pc' = [pc EXCEPT ![t] = "tx_put"] /\ use' = [use EXCEPT ![c] = Raised(c, Cardinality(write))]
      /\ UNCHANGED own
  BY DEF FindDestinations, GoTo
<1> HIDE DEF m, write
<1>3. \A i \in write : Match(dest[m][i].pipe) /\ dest[m][i].pipe \in PipeIds
  BY <1>1 DEF RoutesLive, Match
<1>4. \A i, j \in write : dest[m][i].pipe = dest[m][j].pipe => i = j
  BY <1>1 DEF RoutesLive
<1>5. IsFiniteSet(write) /\ Cardinality(write) \in Nat /\ Cardinality(write) <= MaxDests
  <2>1. /\ IsFiniteSet(1 .. Len(dest[m])) /\ Cardinality(1 .. Len(dest[m])) = Len(dest[m])
    BY <1>1, FS_Interval
  <2>2. IsFiniteSet(write) /\ Cardinality(write) <= Len(dest[m]) /\ Cardinality(write) \in Nat
    BY <1>1, <2>1, FS_Subset, FS_CardinalityType
  <2> QED
    BY <1>1, <2>2, RouteAssumption
<1>6. WritesOf(c)' = {<<t, dest[m][i].pipe>> : i \in write}
  <2>1. \A p \in PipeIds : Pending(t, p)' <=> \E i \in write : p = dest[m][i].pipe
    <3>1. todo'[t] = {<<i, dest[m][i].pipe>> : i \in write}
      BY <1>2 DEF TasksOK
    <3>2. \A p \in PipeIds : Pending(t, p)' <=> \E w \in todo'[t] : w[2] = p
      BY DEF Pending
    <3>3. \A i \in write : <<i, dest[m][i].pipe>> \in todo'[t] /\ <<i, dest[m][i].pipe>>[2] = dest[m][i].pipe
      BY <3>1
    <3>4. \A w \in todo'[t] : \E i \in write : w[2] = dest[m][i].pipe
      BY <3>1
    <3> HIDE DEF f
    <3>5. ASSUME NEW p \in PipeIds, Pending(t, p)' PROVE \E i \in write : p = dest[m][i].pipe
      <4>1. PICK w \in todo'[t] : w[2] = p
        BY <3>2, <3>5
      <4> QED
        BY <3>4, <4>1
    <3>6. ASSUME NEW p \in PipeIds, NEW i \in write, p = dest[m][i].pipe PROVE Pending(t, p)'
      BY <3>2, <3>3, <3>6
    <3> QED
      BY <3>5, <3>6
  <2>2. \A x \in Tasks \X PipeIds : (own'[x[1]] = c /\ Pending(x[1], x[2])')
                                    <=> (x[1] = t /\ \E i \in write : x[2] = dest[m][i].pipe)
    BY <1>2, <2>1
  <2>3. WritesOf(c)' = {x \in Tasks \X PipeIds : x[1] = t /\ \E i \in write : x[2] = dest[m][i].pipe}
    BY <2>2 DEF WritesOf
  <2> QED
    BY <1>3, <2>3
<1>7. f \in Bijection(write, WritesOf(c)')
  <2>1. f \in [write -> WritesOf(c)']
    BY <1>6
  <2>2. \A i, j \in write : f[i] = f[j] => i = j
    BY <1>4
  <2>3. \A y \in WritesOf(c)' : \E i \in write : f[i] = y
    BY <1>6
  <2> HIDE DEF f
  <2> QED
    BY <2>1, <2>2, <2>3 DEF Bijection, Injection, Surjection, IsInjective
<1> HIDE DEF f
<1>8. Cardinality(WritesOf(c)') = Cardinality(write)
  BY <1>5, <1>7, FS_Bijection DEF ExistsBijection
<1>9. use[c] = 1 => use'[c] = 1 + Cardinality(write)
  <2>1. use'[c] = Raised(c, Cardinality(write))
    BY <1>2 DEF BufsOK
  <2>2. 1 + Cardinality(write) <= UseMax
    BY <1>5, RouteAssumption DEF RoomForDests, UseMax
  <2> QED
    BY <2>1, <2>2 DEF Raised
<1>10. SentBy(c)' = {t}
  BY <1>2 DEF SentBy, TasksOK
<1> QED
  BY <1>8, <1>9, <1>10

\* The count of a buffer is raised by as many writes as are to be made.
LEMMA FindDestinationsUse ==
  ASSUME IInv, CallInv, UseInv, RoomForDests, NEW t \in Tasks, FindDestinations(t)
  PROVE  UseInv'
<1> USE DEF IInv, TypeOK, CallInv, UseInv
<1>1. pc[t] = "tx_find" /\ own[t] \in Bufs /\ msg[t] \in MsgIds /\ todo[t] = {}
  BY DEF FindDestinations, SendingHasBuffer, Sending, CallsOK, CallOK, Writing
<1> PICK c \in Bufs : own[t] = c
  BY <1>1
<1>2. /\ \E n : use' = [use EXCEPT ![c] = n]
      /\ bufMsg' = [bufMsg EXCEPT ![c] = msg[t]] /\ bufApp' = [bufApp EXCEPT ![c] = NoApp]
      /\ list' = [list EXCEPT ![c] = "transit"] /\ pc' = [pc EXCEPT ![t] = "tx_put"]
      /\ \A u \in Tasks : u # t => todo'[u] = todo[u]
      /\ UNCHANGED <<pipeId, lastBuf, queue, lost, got, own, msg>>
  BY DEF FindDestinations, GoTo, queueVars, TasksOK
<1>3. list[c] = "zerocopy" /\ use[c] = 1
  BY <1>1, NullAssumption DEF HandsOK, Writing
<1>4. /\ SentBy(c) = {} /\ WritesOf(c) = {} /\ FailedOf(c) = {} /\ ReadBy(c) = {}
      /\ PlacesOf(c) = {} /\ LostOf(c) = {} /\ LastReads(c) = {}
  BY <1>3, Alone
<1>5. \A u \in Tasks : own[u] = c => u = t
  BY NullAssumption DEF HandsOK
<1>6. use'[c] = 1 + Cardinality(WritesOf(c)') /\ SentBy(c)' = {t}
  BY <1>3, <1>4, <1>5, WritesCounted
<1>7. use'[c] = Owed(c)'
  <2>1. FailedOf(c)' = {} /\ ReadBy(c)' = {} /\ PlacesOf(c)' = {} /\ LostOf(c)' = {} /\ LastReads(c)' = {}
    <3>1. FailedOf(c)' = {}
      BY <1>2, <1>5 DEF FailedOf, TasksOK
    <3> QED
      BY <1>2, <1>4, <3>1 DEF ReadBy, PlacesOf, LostOf, LastReads
  <2>2. list'[c] # "zerocopy"
    BY <1>2 DEF BufsOK
  <2>3. Cardinality(WritesOf(c)') \in Nat
    BY CountedNext
  <2>4. Cardinality(SentBy(c)') = 1
    BY <1>6, FS_Singleton
  <2> QED
    BY <1>6, <2>1, <2>2, <2>3, <2>4, FS_EmptySet DEF Owed, References
<1>8. ASSUME NEW b \in Bufs, b # c PROVE use'[b] = Owed(b)'
  <2>1. use'[b] = use[b] /\ list'[b] = list[b]
    BY <1>2, <1>8 DEF BufsOK
  <2>2. SentBy(b)' = SentBy(b) /\ FailedOf(b)' = FailedOf(b)
    BY <1>2, <1>8 DEF SentBy, FailedOf, TasksOK
  <2>3. \A u \in Tasks, p \in PipeIds : own'[u] = b /\ Pending(u, p)' <=> own[u] = b /\ Pending(u, p)
    BY <1>2, <1>8 DEF Pending
  <2>4. WritesOf(b)' = WritesOf(b)
    BY <2>3 DEF WritesOf
  <2>5. ReadBy(b)' = ReadBy(b) /\ PlacesOf(b)' = PlacesOf(b) /\ LostOf(b)' = LostOf(b) /\ LastReads(b)' = LastReads(b)
    BY <1>2 DEF ReadBy, PlacesOf, LostOf, LastReads
  <2> QED
    BY <2>1, <2>2, <2>4, <2>5, ReferencesKept DEF UseCountAccounted, Owed
<1>9. HandsOK'
  <2>1. \A b \in Bufs : list'[b] = "zerocopy" => use'[b] = 1
    BY <1>2 DEF HandsOK, BufsOK
  <2>2. \A u, v \in Tasks : own'[u] = own'[v] /\ own'[u] # NoBuf => u = v
    BY <1>2 DEF HandsOK
  <2>3. ASSUME NEW u \in Tasks, own'[u] # NoBuf
        PROVE  IF pc'[u] \in Writing THEN bufMsg'[own'[u]] = msg'[u]
               ELSE list'[own'[u]] = "zerocopy" /\ bufApp'[own'[u]] = AppOf[u]
    <3>1. CASE u = t
      BY <1>2, <3>1 DEF TasksOK, BufsOK, Writing
    <3>2. CASE u # t
      <4>1. own'[u] = own[u] /\ own[u] \in Bufs /\ own[u] # c /\ pc'[u] = pc[u] /\ msg'[u] = msg[u]
        BY <1>2, <1>5, <2>3, <3>2 DEF TasksOK
      <4>2. IF pc[u] \in Writing THEN bufMsg[own[u]] = msg[u]
            ELSE list[own[u]] = "zerocopy" /\ bufApp[own[u]] = AppOf[u]
        BY <4>1, NullAssumption DEF HandsOK
      <4> QED
        BY <1>2, <4>1, <4>2 DEF BufsOK
    <3> QED
      BY <3>1, <3>2
  <2> QED
    BY <2>1, <2>2, <2>3 DEF HandsOK
<1> QED
  BY <1>7, <1>8, <1>9 DEF UseCountAccounted, Owed

\* The tasks of an application that has exited hold nothing when ES deletes them.
LEMMA CleanUpTasksUse ==
  ASSUME IInv, CallInv, UseInv, CleanUpTasks
  PROVE  UseInv'
<1> USE TaskAssumption DEF IInv, TypeOK, CallInv, UseInv
<1> DEFINE dead == {t \in Tasks : AppOf[t] = victim}
<1>1. /\ pc[ES] = "clean_tasks" /\ ES \notin dead
      /\ \A t \in dead : pc[t] \in Ended
  BY VictimIsNotES DEF CleanUpTasks, AppsOK
<1>2. /\ \A t \in Tasks : t # ES => pc'[t] = IF t \in dead THEN "dead" ELSE pc[t]
      /\ pc'[ES] = "idle"
      /\ \A t \in Tasks : /\ own'[t] = IF t \in dead THEN NoBuf ELSE own[t]
                          /\ got'[t] = IF t \in dead THEN NoBuf ELSE got[t]
                          /\ todo'[t] = IF t \in dead THEN {} ELSE todo[t]
                          /\ msg'[t] = IF t \in dead THEN NoMsg ELSE msg[t]
      /\ UNCHANGED <<pipeVars, bufVars, queueVars>>
  BY DEF CleanUpTasks
<1>3. \A t \in dead : own[t] = NoBuf /\ got[t] = NoBuf /\ todo[t] = {} /\ pc[t] \notin Writing
  BY <1>1 DEF CallsOK, CallOK, Writing, Ended, Allocating
<1> HIDE DEF dead
<1>4. \A t \in Tasks : UNCHANGED <<own[t], got[t], todo[t]>> /\ (t \notin dead => UNCHANGED msg[t])
  BY <1>2, <1>3
<1>5. \A t \in Tasks : /\ pc'[t] \in Writing <=> pc[t] \in Writing
                       /\ pc'[t] = "tx_undo" <=> pc[t] = "tx_undo"
  BY <1>1, <1>2, <1>3 DEF Writing
<1>6. ASSUME NEW b \in Bufs PROVE use'[b] = Owed(b)'
  <2>1. SentBy(b)' = SentBy(b) /\ FailedOf(b)' = FailedOf(b)
    BY <1>4, <1>5 DEF SentBy, FailedOf, Writing
  <2>2. WritesOf(b)' = WritesOf(b)
    BY <1>4 DEF WritesOf, Pending
  <2>3. ReadBy(b)' = ReadBy(b) /\ PlacesOf(b)' = PlacesOf(b) /\ LostOf(b)' = LostOf(b) /\ LastReads(b)' = LastReads(b)
    BY <1>2, <1>4 DEF ReadBy, PlacesOf, LostOf, LastReads, pipeVars, queueVars
  <2>4. use'[b] = use[b] /\ list'[b] = list[b]
    BY <1>2 DEF bufVars
  <2> QED
    BY <2>1, <2>2, <2>3, <2>4, ReferencesKept DEF UseCountAccounted, Owed
<1>7. HandsOK'
  <2>1. \A b \in Bufs : UNCHANGED <<use[b], list[b], bufApp[b], bufMsg[b]>>
    BY <1>2 DEF bufVars
  <2>2. \A t \in Tasks : own'[t] \in Bufs \cup {NoBuf}
    BY <1>4 DEF TasksOK
  <2>3. \A t \in Tasks : pc[t] \in Writing => UNCHANGED msg[t]
    BY <1>3, <1>4
  <2> QED
    BY <1>4, <1>5, <2>1, <2>2, <2>3, HandsKept
<1> QED
  BY <1>6, <1>7 DEF UseCountAccounted, Owed

\* At first every buffer is free.
LEMMA InitUse == Init => UseInv
<1> SUFFICES ASSUME Init PROVE UseInv
  OBVIOUS
<1> USE DEF Init
<1>1. ASSUME NEW b \in Bufs PROVE use[b] = Owed(b)
  <2>1. /\ SentBy(b) = {} /\ FailedOf(b) = {} /\ ReadBy(b) = {} /\ WritesOf(b) = {}
    BY NullAssumption DEF SentBy, FailedOf, ReadBy, WritesOf, Pending
  <2>2. PlacesOf(b) = {} /\ LostOf(b) = {}
    BY DepthAssumption DEF PlacesOf, LostOf
  <2>3. LastReads(b) = {}
    BY NullAssumption DEF LastReads
  <2>4. use[b] = 0 /\ list[b] # "zerocopy"
    OBVIOUS
  <2> QED
    BY <2>1, <2>2, <2>3, <2>4, FS_EmptySet DEF Owed, References
<1>2. HandsOK
  BY DEF HandsOK
<1> QED
  BY <1>1, <1>2 DEF UseInv, UseCountAccounted, Owed

\* Every step leaves every use count accounted for.
LEMMA NextUse == RoomForDests /\ IInv /\ CallInv /\ QueueInv /\ UseInv /\ [Next]_vars => UseInv'
<1> SUFFICES ASSUME RoomForDests, IInv, CallInv, QueueInv, UseInv, [Next]_vars PROVE UseInv'
  OBVIOUS
<1>1. ASSUME NEW t \in Tasks, CallBegins(t) PROVE UseInv'
  <2>1. ASSUME NEW p \in PipeIds, NEW on \in BOOLEAN, SetPipeOpts(t, p, on) PROVE UseInv'
    BY <2>1, UntouchedUse DEF SetPipeOpts, queueVars, taskVars
  <2>2. ASSUME NEW p \in PipeIds, NEW m \in MsgIds, NEW lim \in MsgLims,
               Subscribe(t, m, p, lim) \/ Unsubscribe(t, m, p)
        PROVE  UseInv'
    BY <2>2, UntouchedUse DEF Subscribe, Unsubscribe, pipeVars, queueVars, taskVars
  <2>3. ASSUME NEW p \in PipeIds, NEW m \in MsgIds, Unsubscribe(t, m, p) PROVE UseInv'
    BY <2>3, UntouchedUse DEF Unsubscribe, pipeVars, queueVars, taskVars
  <2> QED
    BY <1>1, <2>1, <2>2, <2>3, CreateReserveUse, PassiveUse, ReleaseBufferUse, DeleteBeginUse, ReceiveBeginUse
       DEF CallBegins
<1>2. ASSUME NEW t \in Tasks, Proceed(t) PROVE UseInv'
  BY <1>2, PassiveUse, CreateEndUse, DrainReleaseUse, DrainGetUse, QueueDeleteUse, DeleteFinishUse, AllocateUse,
     FindDestinationsUse, QueuePutUse, UndoPutUse, TransmitDoneUse, QueueGetUse, ExportReferenceUse,
     ReceiveRejectUse
     DEF Proceed
<1>3. ASSUME NEW t \in Tasks, ReceiveNothing(t) PROVE UseInv'
  BY <1>3, PassiveUse
<1>4. CASE CleanUp
  <2>1. ASSUME NEW a \in Apps, CleanUpBegin(a) PROVE UseInv'
    BY <2>1, UntouchedUse DEF CleanUpBegin, GoTo, pipeVars, queueVars, Cleaning
  <2>2. ASSUME CleanUpList PROVE UseInv'
    BY <2>2, UntouchedUse DEF CleanUpList, GoTo, pipeVars, queueVars, Cleaning
  <2> QED
    BY <1>4, <2>1, <2>2, CleanUpPipeUse, CleanUpZeroCopyUse, CleanUpTasksUse DEF CleanUp
<1>5. ASSUME NEW m \in MsgIds, NEW p \in PipeIds, NEW on \in BOOLEAN, RouteCmd(m, p, on) PROVE UseInv'
  BY <1>5, UntouchedUse DEF RouteCmd, pipeVars, queueVars, taskVars
<1>6. CASE UNCHANGED vars
  BY <1>6, UntouchedUse DEF vars, pipeVars, queueVars, taskVars
<1> QED
  BY <1>1, <1>2, <1>3, <1>4, <1>5, <1>6 DEF Next

-----------------------------------------------------------------------------
(* What a reader was given                                                 *)

\* A step that gives nobody anything to read, and takes the pipe, or its last
\* message, only from a task that holds nothing any more.
LEMMA HeldFrame ==
  ASSUME HeldOK, \A u \in Tasks : held'[u] = held[u] \/ held'[u] = NoBuf,
         \A q \in PipeIds : Match(q) =>
           \/ \E u \in Tasks : u = creator[q] /\ held'[u] = NoBuf
           \/ Match(q)' /\ creator'[q] = creator[q] /\ lastBuf'[SlotOf(q)] = lastBuf[SlotOf(q)]
  PROVE  HeldOK'
BY DEF HeldOK

\* Making a pipe takes no other out of the table.
LEMMA CreateHeld ==
  ASSUME IInv, CallInv, HeldOK, NEW t \in Tasks,
         CreateReserve(t) \/ CreateFinish(t) \/ CreateAbort(t) \/ DeleteFinish(t)
  PROVE  HeldOK'
<1> USE DEF IInv, TypeOK, CallInv
<1> DEFINE n == IF CreateReserve(t) THEN FindNext ELSE pid[t]
           s == SlotOf(n)
<1>1. n \in PipeIds /\ s \in Slots /\ pipeId[s] \notin PipeIds
  <2>1. CASE CreateReserve(t)
    BY <2>1, NextIsNew DEF CreateReserve, PipeIds, FREE
  <2>2. CASE ~CreateReserve(t)
    <3>1. Claims(t)
      BY <2>2 DEF CreateFinish, CreateAbort, DeleteFinish, Claims, Creating, Deleting
    <3> QED
      BY <2>2, <3>1, SlotInRange DEF SlotClaims, PipeIds, RESERVED
  <2> QED
    BY <2>1, <2>2
<1>2. /\ \E i : pipeId' = [pipeId EXCEPT ![s] = i]
      /\ UNCHANGED lastBuf \/ lastBuf' = [lastBuf EXCEPT ![s] = NoBuf]
      /\ UNCHANGED creator \/ creator' = [creator EXCEPT ![n] = t]
      /\ UNCHANGED held
  <2>1. CASE CreateReserve(t)
    BY <2>1 DEF CreateReserve
  <2>2. CASE ~CreateReserve(t)
    BY <2>2 DEF CreateFinish, CreateAbort, DeleteFinish
  <2> QED
    BY <2>1, <2>2
<1> HIDE DEF n
<1>3. ASSUME NEW q \in PipeIds, Match(q)
      PROVE  Match(q)' /\ creator'[q] = creator[q] /\ lastBuf'[SlotOf(q)] = lastBuf[SlotOf(q)]
  <2>1. SlotOf(q) \in Slots /\ SlotOf(q) # s /\ q # n
    BY <1>1, <1>3, SlotInRange DEF Match, PipeIds
  <2> HIDE DEF s
  <2>2. pipeId'[SlotOf(q)] = pipeId[SlotOf(q)] /\ lastBuf'[SlotOf(q)] = lastBuf[SlotOf(q)]
    BY <1>2, <2>1 DEF PipesOK
  <2>3. creator'[q] = creator[q]
    BY <1>2, <2>1 DEF StatsOK
  <2> QED
    BY <1>3, <2>2, <2>3 DEF Match
<1> QED
  BY <1>2, <1>3, HeldFrame

\* The reader of a pipe that is deleted has lost what it held of it.
LEMMA TearDownHeld ==
  ASSUME IInv, HeldOK, NEW t \in Tasks, NEW p \in PipeIds, Match(p), TearDown(t, p)
  PROVE  HeldOK'
<1> USE DEF IInv, TypeOK
<1> DEFINE s == SlotOf(p)
<1>1. s \in Slots /\ pipeId[s] = p
  BY SlotInRange DEF Match, PipeIds
<1>2. /\ pipeId' = [pipeId EXCEPT ![s] = RESERVED] /\ UNCHANGED <<lastBuf, creator>>
      /\ held' = [u \in Tasks |-> IF creator[p] = u THEN NoBuf ELSE held[u]]
  BY DEF TearDown
<1> HIDE DEF s
<1>3. creator[p] \in Tasks /\ held'[creator[p]] = NoBuf
  BY <1>2 DEF StatsOK
<1>4. ASSUME NEW q \in PipeIds, Match(q), q # p
      PROVE  Match(q)' /\ creator'[q] = creator[q] /\ lastBuf'[SlotOf(q)] = lastBuf[SlotOf(q)]
  BY <1>1, <1>2, <1>4, SlotInRange DEF Match, PipesOK, PipeIds
<1> QED
  BY <1>2, <1>3, <1>4, HeldFrame

\* The reader of a pipe gives up what it held of it.
LEMMA SetPipeIdHeld ==
  ASSUME IInv, HeldOK, NEW t \in Tasks, NEW p \in PipeIds, Match(p), creator[p] = t, SetPipeId(t, p)
  PROVE  HeldOK'
<1> USE DEF IInv, TypeOK
<1> DEFINE s == SlotOf(p)
<1>1. s \in Slots /\ pipeId[s] = p
  BY SlotInRange DEF Match, PipeIds
<1>2. /\ UNCHANGED lastBuf \/ lastBuf' = [lastBuf EXCEPT ![s] = NoBuf]
      /\ UNCHANGED <<pipeId, creator>> /\ held' = [held EXCEPT ![t] = NoBuf]
  BY DEF SetPipeId
<1> HIDE DEF s
<1>3. held'[t] = NoBuf /\ \A u \in Tasks : held'[u] = held[u] \/ held'[u] = NoBuf
  BY <1>2 DEF TasksOK
<1>4. ASSUME NEW q \in PipeIds, Match(q), q # p
      PROVE  Match(q)' /\ creator'[q] = creator[q] /\ lastBuf'[SlotOf(q)] = lastBuf[SlotOf(q)]
  BY <1>1, <1>2, <1>4, SlotInRange DEF Match, PipesOK, PipeIds
<1> QED
  BY <1>2, <1>3, <1>4, HeldFrame

\* What a task has read is kept by the pipe, unless the pipe has gone.
LEMMA ExportReferenceHeld ==
  ASSUME IInv, CallInv, HeldOK, NEW t \in Tasks, ExportReference(t)
  PROVE  HeldOK'
<1> USE DEF IInv, TypeOK, CallInv
<1> DEFINE p == pid[t]
           s == SlotOf(p)
<1>1. pc[t] = "rx_export" /\ p \in PipeIds /\ creator[p] = t /\ UNCHANGED <<pipeId, creator>>
  BY DEF ExportReference, RunningHasPipe, Receiving, CallsOK, CallOK
<1>2. CASE Match(p)
  <2>1. s \in Slots /\ pipeId[s] = p
    BY <1>1, <1>2, SlotInRange DEF Match, PipeIds
  <2>2. lastBuf' = [lastBuf EXCEPT ![s] = got[t]] /\ held' = [held EXCEPT ![t] = got[t]]
    BY <1>2 DEF ExportReference
  <2> HIDE DEF s
  <2>3. ASSUME NEW q \in PipeIds, Match(q), q # p
        PROVE  Match(q)' /\ creator'[q] = creator[q] /\ lastBuf'[SlotOf(q)] = lastBuf[SlotOf(q)]
    BY <1>1, <2>1, <2>2, <2>3, SlotInRange DEF Match, PipesOK, PipeIds
  <2>4. ASSUME NEW u \in Tasks, u # t, held'[u] # NoBuf
        PROVE  \E q \in PipeIds : creator'[q] = u /\ Match(q)' /\ lastBuf'[SlotOf(q)] = held'[u]
    <3>1. held'[u] = held[u]
      BY <2>2, <2>4 DEF TasksOK
    <3>2. \E q \in PipeIds : creator[q] = u /\ Match(q) /\ lastBuf[SlotOf(q)] = held[u]
      BY <2>4, <3>1 DEF HeldOK
    <3> QED
      BY <1>1, <2>3, <2>4, <3>1, <3>2
  <2>5. creator'[p] = t /\ pipeId'[s] = p /\ lastBuf'[s] = held'[t]
    BY <1>1, <2>1, <2>2 DEF PipesOK, TasksOK
  <2>6. \E q \in PipeIds : creator'[q] = t /\ Match(q)' /\ lastBuf'[SlotOf(q)] = held'[t]
    <3>1. PICK q \in PipeIds : q = p
      BY <1>1
    <3> QED
      BY <2>5, <3>1 DEF Match, s
  <2> QED
    BY <2>4, <2>6 DEF HeldOK
<1>3. CASE ~Match(p)
  BY <1>1, <1>3, HeldFrame DEF ExportReference, Match
<1> QED
  BY <1>2, <1>3

\* Every other step leaves the pipes and what they keep as they are.
LEMMA OtherHeld ==
  ASSUME HeldOK, UNCHANGED <<pipeId, lastBuf, creator>>,
         \A u \in Tasks : held'[u] = held[u] \/ held'[u] = NoBuf
  PROVE  HeldOK'
BY HeldFrame DEF Match

\* At first nobody holds a message.
LEMMA InitHeld == Init => HeldOK
BY DEF Init, HeldOK

\* Every step keeps what the readers hold.
LEMMA NextHeld == IInv /\ CallInv /\ HeldOK /\ [Next]_vars => HeldOK'
<1> SUFFICES ASSUME IInv, CallInv, HeldOK, [Next]_vars PROVE HeldOK'
  OBVIOUS
<1>1. ASSUME NEW t \in Tasks, CallBegins(t) PROVE HeldOK'
  <2>1. CASE AllocateBegin(t) \/ ReleaseBuffer(t) \/ \E m \in MsgIds : TransmitBuffer(t, m)
    BY <2>1, OtherHeld DEF AllocateBegin, ReleaseBuffer, TransmitBuffer, pipeVars
  <2>2. CASE Exit(t)
    BY <2>2, OtherHeld DEF Exit, pipeVars, IInv, TypeOK, TasksOK
  <2>3. ASSUME NEW p \in PipeIds, NEW on \in BOOLEAN, SetPipeOpts(t, p, on) PROVE HeldOK'
    BY <2>3, OtherHeld DEF SetPipeOpts, taskVars
  <2>4. ASSUME NEW p \in PipeIds, NEW m \in MsgIds, Unsubscribe(t, m, p) PROVE HeldOK'
    BY <2>4, OtherHeld DEF Unsubscribe, pipeVars, taskVars
  <2>5. ASSUME NEW p \in PipeIds, NEW m \in MsgIds, NEW lim \in MsgLims, Subscribe(t, m, p, lim) PROVE HeldOK'
    BY <2>5, OtherHeld DEF Subscribe, pipeVars, taskVars
  <2>6. ASSUME NEW p \in PipeIds, DeleteBegin(t, p) PROVE HeldOK'
    BY <2>6, TearDownHeld DEF DeleteBegin
  <2>7. ASSUME NEW p \in PipeIds, ReceiveBegin(t, p) PROVE HeldOK'
    BY <2>7, SetPipeIdHeld DEF ReceiveBegin
  <2> QED
    BY <1>1, <2>1, <2>2, <2>3, <2>4, <2>5, <2>6, <2>7, CreateHeld DEF CallBegins
<1>2. ASSUME NEW t \in Tasks, Proceed(t) PROVE HeldOK'
  <2>1. CASE CreateQueue(t) \/ DrainRelease(t) \/ DrainGet(t) \/ QueueDelete(t)
    BY <2>1, OtherHeld DEF CreateQueue, DrainRelease, DrainGet, QueueDelete, pipeVars
  <2>2. CASE Allocate(t) \/ FindDestinations(t) \/ QueuePut(t) \/ UndoPut(t) \/ TransmitDone(t)
    BY <2>2, OtherHeld DEF Allocate, FindDestinations, QueuePut, UndoPut, TransmitDone, pipeVars
  <2>3. CASE QueueGet(t) \/ ReceiveAccept(t)
    BY <2>3, OtherHeld DEF QueueGet, ReceiveAccept, pipeVars
  <2>4. CASE ReceiveReject(t)
    <3>1. pid[t] \in PipeIds /\ creator[pid[t]] = t
      BY <2>4 DEF ReceiveReject, IInv, RunningHasPipe, Receiving, CallInv, CallsOK, CallOK
    <3>2. CASE Match(pid[t])
      BY <2>4, <3>1, <3>2, SetPipeIdHeld DEF ReceiveReject
    <3>3. CASE ~Match(pid[t])
      BY <2>4, <3>3, OtherHeld DEF ReceiveReject, pipeVars, IInv, TypeOK, TasksOK
    <3> QED
      BY <3>2, <3>3
  <2> QED
    BY <1>2, <2>1, <2>2, <2>3, <2>4, CreateHeld, ExportReferenceHeld DEF Proceed
<1>3. ASSUME NEW t \in Tasks, ReceiveNothing(t) PROVE HeldOK'
  BY <1>3, OtherHeld DEF ReceiveNothing, pipeVars
<1>4. CASE CleanUp
  <2>1. ASSUME NEW a \in Apps, CleanUpBegin(a) PROVE HeldOK'
    BY <2>1, OtherHeld DEF CleanUpBegin, pipeVars
  <2>2. CASE CleanUpList \/ CleanUpZeroCopy
    BY <2>2, OtherHeld DEF CleanUpList, CleanUpZeroCopy, pipeVars
  <2>3. ASSUME NEW p \in delList, CleanUpPipe(p) PROVE HeldOK'
    <3>1. CASE Match(p) /\ pipeApp[SlotOf(p)] = victim
      BY <2>3, <3>1, TaskAssumption, TearDownHeld DEF CleanUpPipe, Match
    <3>2. CASE ~ (Match(p) /\ pipeApp[SlotOf(p)] = victim)
      BY <2>3, <3>2, OtherHeld DEF CleanUpPipe, pipeVars, taskVars
    <3> QED
      BY <3>1, <3>2
  <2>4. CASE CleanUpTasks
    BY <2>4, OtherHeld DEF CleanUpTasks, pipeVars
  <2> QED
    BY <1>4, <2>1, <2>2, <2>3, <2>4 DEF CleanUp
<1>5. ASSUME NEW m \in MsgIds, NEW p \in PipeIds, NEW on \in BOOLEAN, RouteCmd(m, p, on) PROVE HeldOK'
  BY <1>5, OtherHeld DEF RouteCmd, pipeVars, taskVars
<1>6. CASE UNCHANGED vars
  BY <1>6, OtherHeld DEF vars, pipeVars, taskVars
<1> QED
  BY <1>1, <1>2, <1>3, <1>4, <1>5, <1>6 DEF Next

\* What is held is referred to, so it is allocated.
LEMMA HoldersSafe ==
  ASSUME IInv, CallInv, UseInv, HeldOK
  PROVE  HoldersKeepBuffers
<1> USE DEF IInv, TypeOK
<1>1. HeldIsPinned
  <2> SUFFICES ASSUME NEW t \in Tasks, held[t] # NoBuf
               PROVE  /\ use[held[t]] > 0
                      /\ \E p \in PipeIds : creator[p] = t /\ Match(p) /\ lastBuf[SlotOf(p)] = held[t]
    BY DEF HeldIsPinned
  <2>1. PICK p \in PipeIds : creator[p] = t /\ Match(p) /\ lastBuf[SlotOf(p)] = held[t]
    BY DEF HeldOK
  <2>2. SlotOf(p) \in Slots /\ held[t] \in Bufs
    BY SlotInRange DEF PipeIds, TasksOK
  <2>3. SlotOf(p) \in LastReads(held[t])
    BY <2>1, <2>2 DEF LastReads, Match
  <2> QED
    BY <2>1, <2>2, <2>3, InTransit
<1>2. OwnIsAllocated
  <2> SUFFICES ASSUME NEW t \in Tasks, own[t] # NoBuf
               PROVE  use[own[t]] > 0 /\ \A u \in Tasks : own[u] = own[t] => u = t
    BY DEF OwnIsAllocated
  <2>1. own[t] \in Bufs
    BY DEF TasksOK
  <2>2. CASE pc[t] \in Writing
    <3>1. t \in SentBy(own[t])
      BY <2>2 DEF SentBy, Writing
    <3>2. use[own[t]] > 0
      BY <2>1, <3>1, InTransit
    <3> QED
      BY <3>2 DEF UseInv, HandsOK
  <2>3. CASE pc[t] \notin Writing
    BY <2>1, <2>3 DEF UseInv, HandsOK
  <2> QED
    BY <2>2, <2>3
<1> QED
  BY <1>1, <1>2 DEF HoldersKeepBuffers

-----------------------------------------------------------------------------
(* What is left of those who have gone                                     *)

\* A task that acts is of an application that lives and is not being cleaned up.
LEMMA ActorsLive ==
  ASSUME AppsOK, CleanOK, CleanUpOK, NEW t \in Tasks, pc[t] \notin Ended
  PROVE  /\ AppOf[t] \in Apps /\ appState[AppOf[t]] \notin {"cleaning", "gone"} /\ AppOf[t] # victim
         /\ AppIdOf(t) = AppOf[t]
BY TaskAssumption, NullAssumption, AppIdFound DEF AppsOK, CleanOK

\* What the zero-copy buffers say of their owners.
BufsLive ==
  \A b \in Bufs, a \in Apps :
    list[b] = "zerocopy" /\ bufApp[b] = a =>
      appState[a] # "gone" /\ ~ (victim = a /\ pc[ES] = "clean_tasks")

\* A step that touches no slot: whoever was at work on one still is.
LEMMA LostFrame ==
  ASSUME AppsOK, CleanUpOK, StatsOK, LostInv, NEW t \in Tasks, pc[t] \notin Ended,
         UNCHANGED <<pipeId, pipeApp, creator, victim, delList>>,
         \A a \in Apps : appState'[a] = "gone" => appState[a] = "gone",
         \A u \in Tasks : u # t => UNCHANGED <<pc[u], pid[u]>>,
         pc'[t] \in Creating <=> pc[t] \in Creating,
         pc'[t] \in Deleting <=> pc[t] \in Deleting,
         Claims(t) => pid'[t] = pid[t],
         t = ES => pc'[t] = pc[t] \/ pc[t] \in Deleting,
         \A b \in Bufs : list'[b] = "zerocopy" =>
           (list[b] = "zerocopy" /\ bufApp'[b] = bufApp[b]) \/ bufApp'[b] = AppOf[t]
  PROVE  LostInv'
<1> USE TaskAssumption DEF LostInv
<1>1. \A u \in Tasks : /\ pc'[u] \in Creating <=> pc[u] \in Creating
                       /\ pc'[u] \in Deleting <=> pc[u] \in Deleting
                       /\ Claims(u)' <=> Claims(u)
                       /\ Claims(u) => pid'[u] = pid[u]
  BY DEF Claims
<1>2. ReservedHasOwner'
  BY <1>1 DEF ReservedHasOwner
<1>3. OwnersOK'
  <2>1. ASSUME NEW u \in Tasks
        PROVE  /\ pc'[u] \in Creating => pipeApp'[SlotOf(pid'[u])] = NoApp
               /\ pc'[u] \in Deleting => pipeApp'[SlotOf(pid'[u])] = IF u = ES THEN victim' ELSE AppOf[u]
    BY <1>1 DEF OwnersOK, Claims
  <2> QED
    BY <2>1 DEF OwnersOK
<1>4. /\ pc'[ES] = "clean_tasks" => pc[ES] = "clean_tasks"
      /\ pc[ES] = "clean_list" => pc'[ES] = "clean_list"
      /\ pc'[ES] = "idle" => pc[ES] = "idle"
  BY DEF Deleting
<1>5. \A s \in Slots : InHand(s) => InHand(s)'
  BY <1>1, <1>4 DEF InHand, Claims
<1>6. BufsLive'
  <2> SUFFICES ASSUME NEW b \in Bufs, NEW a \in Apps, list'[b] = "zerocopy", bufApp'[b] = a
               PROVE  appState'[a] # "gone" /\ ~ (victim' = a /\ pc'[ES] = "clean_tasks")
    BY DEF BufsLive
  <2>1. CASE list[b] = "zerocopy" /\ bufApp'[b] = bufApp[b]
    BY <1>4, <2>1 DEF CleanOK
  <2>2. CASE bufApp'[b] = AppOf[t]
    BY <2>2, ActorsLive
  <2> QED
    BY <2>1, <2>2
<1>7. CleanOK'
  BY <1>4, <1>5, <1>6 DEF CleanOK, BufsLive
<1> QED
  BY <1>2, <1>3, <1>7

\* A buffer on the list of an application was there before, unless it was just allocated.
LEMMA DropList ==
  ASSUME BufsOK, NEW B, Drop(B)
  PROVE  \A b \in Bufs : list'[b] = "zerocopy" => list[b] = "zerocopy"
BY DEF Drop, BufsOK

\* Steps that touch neither a slot nor a buffer.
LEMMA PassiveLost ==
  ASSUME IInv, CallInv, LostInv, NEW t \in Tasks,
         CreateQueue(t) \/ QueueDelete(t) \/ AllocateBegin(t) \/ (\E m \in MsgIds : TransmitBuffer(t, m))
         \/ ReceiveNothing(t) \/ ReceiveAccept(t) \/ DrainGet(t) \/ QueuePut(t) \/ QueueGet(t)
  PROVE  LostInv'
<1> USE DEF IInv, TypeOK, CallInv
<1>1. /\ UNCHANGED <<pipeId, pipeApp, creator, appState, victim, delList, list, bufApp>>
      /\ \A u \in Tasks : u # t => UNCHANGED <<pc[u], pid[u]>>
  BY DEF CreateQueue, QueueDelete, AllocateBegin, TransmitBuffer, ReceiveNothing, ReceiveAccept, DrainGet,
         QueuePut, QueueGet, pipeVars, bufVars, esVars, GoTo, TasksOK
<1>2. /\ pc'[t] \in Creating <=> pc[t] \in Creating
      /\ pc'[t] \in Deleting <=> pc[t] \in Deleting
      /\ Claims(t) => pid'[t] = pid[t]
      /\ pc[t] \notin Ended
  BY DEF CreateQueue, QueueDelete, AllocateBegin, TransmitBuffer, ReceiveNothing, ReceiveAccept, DrainGet,
         QueuePut, QueueGet, GoTo, Begins, TasksOK, Creating, Deleting, Claims, Ended
<1>3. t = ES => pc[t] \in Deleting
  <2>1. CallOK(t)
    BY DEF CallsOK
  <2> QED
    BY <2>1 DEF CreateQueue, QueueDelete, AllocateBegin, TransmitBuffer, ReceiveNothing, ReceiveAccept, DrainGet,
         QueuePut, QueueGet, Begins, CallOK, Deleting, Cleaning
<1> QED
  BY <1>1, <1>2, <1>3, LostFrame

\* Calls that give buffers up, or mark them as being sent.
LEMMA BuffersLost ==
  ASSUME IInv, CallInv, UseInv, LostInv, NEW t \in Tasks,
         DrainRelease(t) \/ UndoPut(t) \/ TransmitDone(t) \/ ReleaseBuffer(t) \/ FindDestinations(t)
         \/ ExportReference(t) \/ Allocate(t)
  PROVE  LostInv'
<1> USE DEF IInv, TypeOK, CallInv
<1>1. CallOK(t)
  BY DEF CallsOK
<1>2. /\ UNCHANGED <<pipeId, pipeApp, creator, appState, victim, delList>>
      /\ \A u \in Tasks : u # t => UNCHANGED <<pc[u], pid[u]>>
  BY DEF DrainRelease, UndoPut, TransmitDone, ReleaseBuffer, FindDestinations, ExportReference, Allocate,
         pipeVars, esVars, GoTo, TasksOK
<1>3. /\ pc'[t] \in Creating <=> pc[t] \in Creating
      /\ pc'[t] \in Deleting <=> pc[t] \in Deleting
      /\ Claims(t) => pid'[t] = pid[t]
      /\ pc[t] \notin Ended
  BY DEF DrainRelease, UndoPut, TransmitDone, ReleaseBuffer, FindDestinations, ExportReference, Allocate,
         GoTo, Begins, TasksOK, Creating, Deleting, Claims, Ended
<1>4. t = ES => pc'[t] = pc[t] \/ pc[t] \in Deleting
  BY <1>1 DEF DrainRelease, UndoPut, TransmitDone, ReleaseBuffer, FindDestinations, ExportReference, Allocate,
         Begins, CallOK, Deleting, Cleaning
<1>5. ASSUME NEW b \in Bufs, list'[b] = "zerocopy"
      PROVE  (list[b] = "zerocopy" /\ bufApp'[b] = bufApp[b]) \/ bufApp'[b] = AppOf[t]
  <2>1. CASE DrainRelease(t) \/ UndoPut(t) \/ TransmitDone(t)
    BY <1>5, <2>1, DropList DEF DrainRelease, UndoPut, TransmitDone
  <2>2. CASE ReleaseBuffer(t)
    <3>1. CASE bufApp[own[t]] # NoApp
      <4>1. list[b] = "zerocopy"
        BY <1>5, <2>2, <3>1, DropList DEF ReleaseBuffer
      <4>2. use[b] = 1
        BY <4>1 DEF UseInv, HandsOK
      <4>3. b # own[t]
        BY <1>5, <2>2, <3>1, <4>2 DEF ReleaseBuffer, Drop, BufsOK
      <4>4. bufApp' = [bufApp EXCEPT ![own[t]] = NoApp]
        BY <2>2, <3>1 DEF ReleaseBuffer
      <4> QED
        BY <4>1, <4>3, <4>4 DEF BufsOK
    <3>2. CASE bufApp[own[t]] = NoApp
      BY <1>5, <2>2, <3>2 DEF ReleaseBuffer
    <3> QED
      BY <3>1, <3>2
  <2>3. CASE FindDestinations(t)
    <3>1. list' = [list EXCEPT ![own[t]] = "transit"] /\ bufApp' = [bufApp EXCEPT ![own[t]] = NoApp]
      BY <2>3 DEF FindDestinations
    <3> QED
      BY <1>5, <3>1 DEF BufsOK
  <2>4. CASE ExportReference(t)
    BY <1>5, <2>4, DropList DEF ExportReference
  <2>5. CASE Allocate(t)
    <3>1. opApp[t] = AppOf[t]
      BY <1>1, <2>5 DEF Allocate, CallOK, Allocating
    <3>2. CASE UNCHANGED bufVars
      BY <1>5, <3>2 DEF bufVars
    <3>3. ASSUME NEW c \in Bufs, bufApp' = [bufApp EXCEPT ![c] = opApp[t]], list' = [list EXCEPT ![c] = "zerocopy"]
          PROVE  (list[b] = "zerocopy" /\ bufApp'[b] = bufApp[b]) \/ bufApp'[b] = AppOf[t]
      BY <1>5, <3>1, <3>3 DEF BufsOK
    <3> QED
      BY <2>5, <3>2, <3>3 DEF Allocate
  <2> QED
    BY <2>1, <2>2, <2>3, <2>4, <2>5
<1> QED
  BY <1>2, <1>3, <1>4, <1>5, LostFrame

\* Reading a pipe leaves its slot alone.
LEMMA ReceiveLost ==
  ASSUME IInv, CallInv, LostInv, NEW t \in Tasks, ReceiveReject(t) \/ \E p \in PipeIds : ReceiveBegin(t, p)
  PROVE  LostInv'
<1> USE DEF IInv, TypeOK, CallInv
<1>1. CallOK(t)
  BY DEF CallsOK
<1>2. /\ UNCHANGED <<pipeId, pipeApp, creator, appState, victim, delList, bufApp>>
      /\ \A b \in Bufs : list'[b] = "zerocopy" => list[b] = "zerocopy"
      /\ \A u \in Tasks : u # t => UNCHANGED <<pc[u], pid[u]>>
      /\ pc[t] \in {"idle", "rx_verify"} /\ pc'[t] \in {"idle", "rx_get"} /\ t # ES
  <2>1. ASSUME NEW p \in PipeIds, SetPipeId(t, p)
        PROVE  /\ UNCHANGED <<pipeId, pipeApp, creator, appState, victim, delList, bufApp>>
               /\ \A b \in Bufs : list'[b] = "zerocopy" => list[b] = "zerocopy"
               /\ \A u \in Tasks : u # t => UNCHANGED <<pc[u], pid[u]>>
               /\ pc'[t] = "rx_get"
    <3>1. \A b \in Bufs : list'[b] = "zerocopy" => list[b] = "zerocopy"
      BY <2>1, DropList DEF SetPipeId
    <3> QED
      BY <2>1, <3>1 DEF SetPipeId, GoTo, TasksOK, esVars
  <2>2. ASSUME NEW p \in PipeIds, ReceiveBegin(t, p) PROVE pc[t] = "idle" /\ t # ES /\ SetPipeId(t, p)
    BY <2>2 DEF ReceiveBegin, Begins
  <2>3. ASSUME ReceiveReject(t) PROVE pc[t] = "rx_verify" /\ t # ES /\ pid[t] \in PipeIds
    BY <1>1, <2>3 DEF ReceiveReject, CallOK, Deleting, Cleaning, RunningHasPipe, Receiving
  <2>4. ASSUME ReceiveReject(t), ~Match(pid[t])
        PROVE  /\ UNCHANGED <<pipeId, pipeApp, creator, appState, victim, delList, bufApp, list>>
               /\ \A u \in Tasks : u # t => UNCHANGED <<pc[u], pid[u]>>
               /\ pc'[t] = "idle"
    BY <2>4 DEF ReceiveReject, GoTo, TasksOK, pipeVars, bufVars, esVars
  <2>5. ASSUME ReceiveReject(t), Match(pid[t]) PROVE SetPipeId(t, pid[t])
    BY <2>5 DEF ReceiveReject
  <2>6. CASE ReceiveReject(t) /\ ~Match(pid[t])
    BY <2>3, <2>4, <2>6
  <2>7. CASE ReceiveReject(t) /\ Match(pid[t])
    BY <2>1, <2>3, <2>5, <2>7
  <2>8. CASE \E p \in PipeIds : ReceiveBegin(t, p)
    BY <2>1, <2>2, <2>8
  <2> QED
    BY <2>6, <2>7, <2>8
<1>3. pc[t] \notin Ended /\ ~Claims(t) /\ pc[t] \notin Creating /\ pc[t] \notin Deleting
      /\ pc'[t] \notin Creating /\ pc'[t] \notin Deleting
  BY <1>2 DEF Ended, Claims, Creating, Deleting
<1> QED
  BY <1>2, <1>3, LostFrame

\* An application that exits still has what it had.
LEMMA ExitLost ==
  ASSUME IInv, CallInv, LostInv, NEW t \in Tasks, Exit(t)
  PROVE  LostInv'
<1> USE DEF IInv, TypeOK, CallInv
<1>1. /\ UNCHANGED <<pipeId, pipeApp, creator, victim, delList, list, bufApp, pid>>
      /\ appState' = [appState EXCEPT ![AppOf[t]] = "exiting"]
      /\ pc' = [pc EXCEPT ![t] = "exited"] /\ pc[t] = "idle" /\ t # ES
  BY DEF Exit, Begins, GoTo, pipeVars, bufVars
<1>2. \A a \in Apps : appState'[a] = "gone" => appState[a] = "gone"
  BY <1>1 DEF CleanUpOK
<1>3. pc'[t] \notin Creating /\ pc'[t] \notin Deleting /\ \A u \in Tasks : u # t => UNCHANGED pc[u]
  BY <1>1 DEF TasksOK, Creating, Deleting
<1>4. pc[t] \notin Ended /\ ~Claims(t) /\ pc[t] \notin Creating /\ pc[t] \notin Deleting
  BY <1>1 DEF Ended, Claims, Creating, Deleting
<1> QED
  BY <1>1, <1>2, <1>3, <1>4, LostFrame

\* A step that changes nothing but routes and options.
LEMMA UntouchedLost ==
  ASSUME LostInv, UNCHANGED <<pipeId, pipeApp, creator, list, bufApp, pc, pid, esVars>>
  PROVE  LostInv'
<1>1. ReservedHasOwner' /\ OwnersOK'
  BY DEF LostInv, ReservedHasOwner, OwnersOK, Claims, esVars
<1>2. CleanOK'
  <2>1. \A s \in Slots : InHand(s)' <=> InHand(s)
    BY DEF InHand, esVars
  <2> QED
    BY <2>1 DEF LostInv, CleanOK, esVars
<1> QED
  BY <1>1, <1>2 DEF LostInv

\* A slot is taken by the task that creates a pipe.
LEMMA CreateReserveLost ==
  ASSUME IInv, CallInv, LostInv, NEW t \in Tasks, CreateReserve(t)
  PROVE  LostInv'
<1> USE DEF IInv, TypeOK, CallInv, LostInv
<1> DEFINE n == FindNext
           s == SlotOf(n)
<1>1. n \in PipeIds /\ s \in Slots /\ pipeId[s] = FREE
  BY NextIsNew DEF CreateReserve
<1>2. /\ pipeId' = [pipeId EXCEPT ![s] = RESERVED] /\ pipeApp' = [pipeApp EXCEPT ![s] = NoApp]
      /\ pid' = [pid EXCEPT ![t] = n] /\ pc' = [pc EXCEPT ![t] = "create"] /\ pc[t] = "idle" /\ t # ES
      /\ UNCHANGED <<creator, list, bufApp, esVars>>
  BY DEF CreateReserve, Begins, GoTo, bufVars
<1>3. pc'[t] = "create" /\ pid'[t] = n /\ SlotOf(n) = s /\ ~Claims(t)
      /\ \A u \in Tasks : u # t => UNCHANGED <<pc[u], pid[u]>>
  BY <1>2 DEF TasksOK, Claims, Creating, Deleting
<1> HIDE DEF n, s
<1>4. /\ pipeId'[s] = RESERVED /\ pipeApp'[s] = NoApp
      /\ \A r \in Slots : r # s => UNCHANGED <<pipeId[r], pipeApp[r]>>
  BY <1>1, <1>2 DEF PipesOK
<1>5. \A u \in Tasks : Claims(u) => u # t /\ SlotOf(pid[u]) \in Slots /\ SlotOf(pid[u]) # s
                                    /\ UNCHANGED <<pc[u], pid[u]>>
  BY <1>1, <1>3, SlotInRange DEF SlotClaims, PipeIds, FREE, RESERVED
<1>6. Claims(t)'
  BY <1>3 DEF Claims, Creating
<1>7. ReservedHasOwner'
  <2> SUFFICES ASSUME NEW r \in Slots, pipeId'[r] = RESERVED
               PROVE  \E u \in Tasks : Claims(u)' /\ SlotOf(pid'[u]) = r
    BY DEF ReservedHasOwner
  <2>1. CASE r = s
    BY <1>3, <1>6, <2>1
  <2>2. CASE r # s
    <3>1. PICK u \in Tasks : Claims(u) /\ SlotOf(pid[u]) = r
      BY <1>4, <2>2 DEF ReservedHasOwner
    <3> QED
      BY <1>5, <3>1 DEF Claims
  <2> QED
    BY <2>1, <2>2
<1>8. OwnersOK'
  <2>1. ASSUME NEW r \in Slots, pipeId'[r] \in PipeIds
        PROVE  SlotOf(pipeId'[r]) = r /\ pipeApp'[r] = AppOf[creator'[pipeId'[r]]]
    <3>1. r # s
      BY <1>4, <2>1 DEF RESERVED, PipeIds
    <3> QED
      BY <1>2, <1>4, <2>1, <3>1 DEF OwnersOK
  <2>2. ASSUME NEW u \in Tasks
        PROVE  /\ pc'[u] \in Creating => pipeApp'[SlotOf(pid'[u])] = NoApp
               /\ pc'[u] \in Deleting => pipeApp'[SlotOf(pid'[u])] = IF u = ES THEN victim' ELSE AppOf[u]
    <3>1. CASE u = t
      BY <1>3, <1>4, <3>1 DEF Deleting
    <3>2. CASE u # t
      BY <1>2, <1>3, <1>4, <1>5, <3>2 DEF OwnersOK, Claims, esVars
    <3> QED
      BY <3>1, <3>2
  <2> QED
    BY <2>1, <2>2 DEF OwnersOK
<1>9. CleanOK'
  <2>1. pc'[ES] = pc[ES] /\ pid'[ES] = pid[ES]
    BY <1>2, <1>3, TaskAssumption
  <2>2. ASSUME NEW r \in Slots, NEW a \in Apps, pipeId'[r] # FREE, pipeApp'[r] = a
        PROVE  appState'[a] # "gone" /\ (victim' = a => InHand(r)')
    <3>1. r # s
      BY <1>4, <2>2, NullAssumption
    <3> QED
      BY <1>2, <1>4, <2>1, <2>2, <3>1 DEF CleanOK, InHand, esVars
  <2> QED
    BY <1>2, <2>1, <2>2 DEF CleanOK, esVars
<1> QED
  BY <1>7, <1>8, <1>9

\* A task gives its slot back, or gives it to the pipe it has made.
LEMMA SettledLost ==
  ASSUME IInv, CallInv, LostInv, NEW t \in Tasks, Claims(t), NEW p \in PipeIds, p = pid[t],
         \A u \in Tasks : u # t => UNCHANGED <<pc[u], pid[u]>>,
         pc'[t] \notin Creating, pc'[t] \notin Deleting,
         UNCHANGED <<list, bufApp, esVars>>,
         \/ /\ t # ES /\ pipeId' = [pipeId EXCEPT ![SlotOf(p)] = p]
            /\ pipeApp' = [pipeApp EXCEPT ![SlotOf(p)] = AppOf[t]]
            /\ creator' = [creator EXCEPT ![p] = t]
         \/ /\ pipeId' = [pipeId EXCEPT ![SlotOf(p)] = FREE] /\ UNCHANGED <<pipeApp, creator>>
            /\ t = ES => pc[t] \in Deleting /\ pc'[t] = "clean_pipes"
  PROVE  LostInv'
<1> USE TaskAssumption DEF IInv, TypeOK, CallInv, LostInv
<1> DEFINE s == SlotOf(p)
<1>1. s \in Slots /\ pipeId[s] = RESERVED /\ SlotOf(p) = s
  BY SlotInRange DEF SlotClaims, PipeIds
<1>2. \A u \in Tasks : Claims(u) /\ u # t => SlotOf(pid[u]) \in Slots /\ SlotOf(pid[u]) # s
                                             /\ UNCHANGED <<pc[u], pid[u]>>
  BY SlotInRange DEF SlotClaims, PipeIds
<1>3. ~Claims(t)'
  BY DEF Claims
<1> HIDE DEF s
<1>4. /\ \A r \in Slots : r # s => UNCHANGED <<pipeId[r], pipeApp[r]>>
      /\ \/ pipeId'[s] = FREE
         \/ t # ES /\ pipeId'[s] = p /\ pipeApp'[s] = AppOf[t] /\ creator'[p] = t
  BY <1>1 DEF PipesOK, StatsOK
<1>5. pipeId'[s] # RESERVED
  BY <1>4 DEF PipeIds, FREE, RESERVED
<1>6. ReservedHasOwner'
  <2> SUFFICES ASSUME NEW r \in Slots, pipeId'[r] = RESERVED
               PROVE  \E u \in Tasks : Claims(u)' /\ SlotOf(pid'[u]) = r
    BY DEF ReservedHasOwner
  <2>1. r # s /\ pipeId[r] = RESERVED
    BY <1>4, <1>5
  <2>2. PICK u \in Tasks : Claims(u) /\ SlotOf(pid[u]) = r
    BY <2>1 DEF ReservedHasOwner
  <2>3. u # t
    BY <1>1, <2>1, <2>2
  <2>4. Claims(u)' /\ SlotOf(pid'[u]) = r
    BY <1>2, <2>2, <2>3 DEF Claims
  <2> QED
    BY <2>4
<1>7. OwnersOK'
  <2>1. ASSUME NEW r \in Slots, pipeId'[r] \in PipeIds
        PROVE  SlotOf(pipeId'[r]) = r /\ pipeApp'[r] = AppOf[creator'[pipeId'[r]]]
    <3>1. CASE r = s
      BY <1>1, <1>4, <2>1, <3>1 DEF PipeIds, FREE
    <3>2. CASE r # s
      <4>1. pipeId'[r] = pipeId[r] /\ pipeApp'[r] = pipeApp[r]
        BY <1>4, <3>2
      <4>2. SlotOf(pipeId[r]) = r /\ pipeApp[r] = AppOf[creator[pipeId[r]]]
        BY <2>1, <4>1 DEF OwnersOK
      <4>3. pipeId[r] # p
        BY <1>1, <3>2, <4>2
      <4>4. creator'[pipeId[r]] = creator[pipeId[r]]
        BY <2>1, <4>1, <4>3 DEF StatsOK
      <4> QED
        BY <4>1, <4>2, <4>4
    <3> QED
      BY <3>1, <3>2
  <2>2. ASSUME NEW u \in Tasks
        PROVE  /\ pc'[u] \in Creating => pipeApp'[SlotOf(pid'[u])] = NoApp
               /\ pc'[u] \in Deleting => pipeApp'[SlotOf(pid'[u])] = IF u = ES THEN victim' ELSE AppOf[u]
    <3>1. CASE u = t
      BY <3>1
    <3>2. CASE u # t
      BY <1>2, <1>4, <3>2 DEF OwnersOK, Claims, esVars
    <3> QED
      BY <3>1, <3>2
  <2> QED
    BY <2>1, <2>2 DEF OwnersOK
<1>8. pc[t] \notin Ended /\ pc[t] # "idle" /\ pc[t] # "clean_list" /\ pc[t] # "clean_tasks"
  BY DEF Claims, Creating, Deleting, Ended
<1>9. CleanOK'
  <2>1. /\ pc'[ES] = "idle" => pc[ES] = "idle"
        /\ pc'[ES] = "clean_tasks" => pc[ES] = "clean_tasks"
    OBVIOUS
  <2>2. ASSUME NEW r \in Slots, NEW a \in Apps, pipeId'[r] # FREE, pipeApp'[r] = a
        PROVE  appState'[a] # "gone" /\ (victim' = a => InHand(r)')
    <3>1. CASE r = s
      <4>1. a = AppOf[t]
        BY <1>4, <2>2, <3>1
      <4> QED
        BY <1>8, <4>1, ActorsLive DEF esVars
    <3>2. CASE r # s
      <4>1. pipeId[r] # FREE /\ pipeApp[r] = a /\ pipeId'[r] = pipeId[r]
        BY <1>4, <2>2, <3>2
      <4>2. appState[a] # "gone" /\ (victim = a => InHand(r))
        BY <4>1 DEF CleanOK
      <4>3. InHand(r) => InHand(r)'
        <5>1. CASE t = ES
          BY <1>1, <1>8, <2>1, <3>2, <4>1, <5>1 DEF InHand, esVars
        <5>2. CASE t # ES
          BY <2>1, <4>1, <5>2 DEF InHand, esVars
        <5> QED
          BY <5>1, <5>2
      <4> QED
        BY <4>2, <4>3 DEF esVars
    <3> QED
      BY <3>1, <3>2
  <2> QED
    BY <2>1, <2>2 DEF CleanOK, esVars
<1> QED
  BY <1>6, <1>7, <1>9

\* The slot a call has reserved is given its pipe, or is free again.
LEMMA CreateEndLost ==
  ASSUME IInv, CallInv, LostInv, NEW t \in Tasks, CreateFinish(t) \/ CreateAbort(t) \/ DeleteFinish(t)
  PROVE  LostInv'
<1> USE DEF IInv, TypeOK, CallInv
<1>1. Claims(t) /\ pid[t] \in PipeIds /\ CallOK(t)
  BY DEF CreateFinish, CreateAbort, DeleteFinish, SlotClaims, Claims, Creating, Deleting, CallsOK
<1> PICK p \in PipeIds : p = pid[t]
  BY <1>1
<1>2. /\ \A u \in Tasks : u # t => UNCHANGED <<pc[u], pid[u]>>
      /\ UNCHANGED <<list, bufApp, esVars>>
  BY DEF CreateFinish, CreateAbort, DeleteFinish, GoTo, TasksOK, bufVars
<1>3. pc'[t] \notin Creating /\ pc'[t] \notin Deleting
  BY DEF CreateFinish, CreateAbort, DeleteFinish, GoTo, TasksOK, Creating, Deleting
<1>4. CASE CreateFinish(t)
  <2>1. t # ES /\ opApp[t] = AppOf[t]
    BY <1>1, <1>4 DEF CreateFinish, CallOK, Creating, Deleting, Cleaning
  <2> QED
    BY <1>1, <1>2, <1>3, <1>4, <2>1, SettledLost DEF CreateFinish
<1>5. CASE CreateAbort(t)
  <2>1. t # ES
    BY <1>1, <1>5 DEF CreateAbort, CallOK, Deleting, Cleaning
  <2> QED
    BY <1>1, <1>2, <1>3, <1>5, <2>1, SettledLost DEF CreateAbort
<1>6. CASE DeleteFinish(t)
  <2>1. t = ES => pc[t] \in Deleting /\ pc'[t] = "clean_pipes"
    BY <1>6 DEF DeleteFinish, GoTo, TasksOK, Deleting
  <2> QED
    BY <1>1, <1>2, <1>3, <1>6, <2>1, SettledLost DEF DeleteFinish
<1> QED
  BY <1>4, <1>5, <1>6

\* A pipe is taken down by its owner, or by ES for the application it cleans up.
LEMMA TearDownLost ==
  ASSUME IInv, CallInv, LostInv, NEW t \in Tasks, NEW p \in PipeIds, TearDown(t, p), Match(p),
         ~Claims(t), pc[t] \notin Ended, UNCHANGED <<appState, victim>>,
         pipeApp[SlotOf(p)] = IF t = ES THEN victim ELSE AppOf[t],
         \/ t # ES /\ delList' = delList
         \/ t = ES /\ pc[ES] = "clean_pipes" /\ delList' = delList \ {p}
  PROVE  LostInv'
<1> USE TaskAssumption DEF IInv, TypeOK, CallInv, LostInv
<1> DEFINE s == SlotOf(p)
<1>1. s \in Slots /\ pipeId[s] = p /\ SlotOf(p) = s
  BY SlotInRange DEF Match, PipeIds
<1>2. /\ pipeId' = [pipeId EXCEPT ![s] = RESERVED] /\ pid' = [pid EXCEPT ![t] = p]
      /\ pc' = [pc EXCEPT ![t] = "drain"] /\ UNCHANGED <<pipeApp, creator, list, bufApp>>
  BY DEF TearDown, GoTo, bufVars
<1> HIDE DEF s
<1>3. /\ pipeId'[s] = RESERVED /\ \A r \in Slots : r # s => UNCHANGED pipeId[r]
      /\ pc'[t] = "drain" /\ pid'[t] = p /\ \A u \in Tasks : u # t => UNCHANGED <<pc[u], pid[u]>>
  BY <1>1, <1>2 DEF PipesOK, TasksOK
<1>4. \A u \in Tasks : Claims(u) => u # t /\ SlotOf(pid[u]) \in Slots /\ SlotOf(pid[u]) # s
  BY <1>1, SlotInRange DEF SlotClaims, PipeIds, RESERVED
<1>5. ReservedHasOwner'
  <2> SUFFICES ASSUME NEW r \in Slots, pipeId'[r] = RESERVED
               PROVE  \E u \in Tasks : Claims(u)' /\ SlotOf(pid'[u]) = r
    BY DEF ReservedHasOwner
  <2>1. CASE r = s
    <3>1. Claims(t)' /\ SlotOf(pid'[t]) = s
      BY <1>1, <1>3 DEF Claims, Deleting
    <3> QED
      BY <2>1, <3>1
  <2>2. CASE r # s
    <3>1. PICK u \in Tasks : Claims(u) /\ SlotOf(pid[u]) = r
      BY <1>3, <2>2 DEF ReservedHasOwner
    <3>2. Claims(u)' /\ SlotOf(pid'[u]) = r
      BY <1>3, <1>4, <3>1 DEF Claims
    <3> QED
      BY <3>2
  <2> QED
    BY <2>1, <2>2
<1>6. OwnersOK'
  <2>1. ASSUME NEW r \in Slots, pipeId'[r] \in PipeIds
        PROVE  SlotOf(pipeId'[r]) = r /\ pipeApp'[r] = AppOf[creator'[pipeId'[r]]]
    <3>1. r # s
      BY <1>3, <2>1 DEF RESERVED, PipeIds
    <3> QED
      BY <1>2, <1>3, <2>1, <3>1 DEF OwnersOK
  <2>2. ASSUME NEW u \in Tasks
        PROVE  /\ pc'[u] \in Creating => pipeApp'[SlotOf(pid'[u])] = NoApp
               /\ pc'[u] \in Deleting => pipeApp'[SlotOf(pid'[u])] = IF u = ES THEN victim' ELSE AppOf[u]
    <3>1. CASE u = t
      BY <1>1, <1>2, <1>3, <3>1 DEF Creating
    <3>2. CASE u # t
      BY <1>2, <1>3, <3>2 DEF OwnersOK
    <3> QED
      BY <3>1, <3>2
  <2> QED
    BY <2>1, <2>2 DEF OwnersOK
<1>7. CleanOK'
  <2>1. \/ pc'[ES] = pc[ES] /\ pid'[ES] = pid[ES] /\ t # ES
        \/ pc'[ES] = "drain" /\ t = ES
    BY <1>3
  <2>2. ASSUME NEW r \in Slots, NEW a \in Apps, pipeId'[r] # FREE, pipeApp'[r] = a
        PROVE  appState'[a] # "gone" /\ (victim' = a => InHand(r)')
    <3>1. pipeId[r] # FREE /\ pipeApp[r] = a
      BY <1>1, <1>2, <1>3, <2>2 DEF FREE, PipeIds
    <3>2. appState[a] # "gone" /\ (victim = a => InHand(r))
      BY <3>1 DEF CleanOK
    <3>3. ASSUME victim = a PROVE InHand(r)'
      <4>1. CASE t = ES
        <5>1. pc[ES] = "clean_pipes" /\ delList' = delList \ {p}
          BY <4>1
        <5>2. pipeId[r] \in delList
          BY <3>2, <3>3, <5>1 DEF InHand, Deleting
        <5>3. CASE r = s
          BY <1>1, <1>3, <4>1, <5>3 DEF InHand, Deleting
        <5>4. CASE r # s
          <6>1. pipeId[r] # p
            BY <1>1, <5>4 DEF OwnersOK
          <6> QED
            BY <1>3, <2>1, <4>1, <5>1, <5>2, <5>4, <6>1 DEF InHand
        <5> QED
          BY <5>3, <5>4
      <4>2. CASE t # ES
        <5>1. r # s
          BY <1>1, <3>1, <3>3, <4>2, ActorsLive DEF s
        <5> QED
          BY <1>3, <2>1, <3>2, <3>3, <4>2, <5>1 DEF InHand
      <4> QED
        BY <4>1, <4>2
    <3> QED
      BY <3>2, <3>3
  <2> QED
    BY <1>2, <2>1, <2>2 DEF CleanOK
<1> QED
  BY <1>5, <1>6, <1>7

\* The owner deletes its pipe.
LEMMA DeleteBeginLost ==
  ASSUME IInv, CallInv, LostInv, NEW t \in Tasks, NEW p \in PipeIds, DeleteBegin(t, p)
  PROVE  LostInv'
<1> USE DEF IInv, TypeOK, CallInv
<1>1. t # ES /\ pc[t] = "idle" /\ ~Claims(t) /\ pc[t] \notin Ended
  BY DEF DeleteBegin, Begins, Claims, Creating, Deleting, Ended
<1>2. AppIdOf(t) = AppOf[t]
  BY <1>1, ActorsLive DEF LostInv
<1> QED
  BY <1>1, <1>2, TearDownLost DEF DeleteBegin, esVars

\* No slot of the application ES cleans up is reserved while ES itself is at work on none.
LEMMA NoneReserved ==
  ASSUME IInv, CallInv, LostInv, pc[ES] \in Cleaning, NEW s \in Slots, pipeId[s] = RESERVED
  PROVE  pipeApp[s] # victim
<1> USE TaskAssumption DEF IInv, TypeOK, CallInv, LostInv
<1>1. PICK u \in Tasks : Claims(u) /\ SlotOf(pid[u]) = s
  BY DEF ReservedHasOwner
<1>2. u # ES /\ pc[u] \notin Ended
  BY <1>1 DEF Claims, Creating, Deleting, Cleaning, Ended
<1>3. victim \in Apps
  BY DEF AppsOK, Cleaning
<1>4. pipeApp[s] = NoApp \/ pipeApp[s] = AppOf[u]
  BY <1>1, <1>2 DEF Claims, OwnersOK
<1> QED
  BY <1>2, <1>3, <1>4, ActorsLive, NullAssumption

\* ES deletes the pipe it has come to, or finds that there is none to delete.
LEMMA CleanUpPipeLost ==
  ASSUME IInv, CallInv, LostInv, NEW p \in delList, CleanUpPipe(p)
  PROVE  LostInv'
<1> USE TaskAssumption DEF IInv, TypeOK, CallInv, LostInv
<1>1. /\ pc[ES] = "clean_pipes" /\ delList' = delList \ {p} /\ UNCHANGED <<appState, victim>>
      /\ p \in PipeIds \cup {RESERVED}
  BY DEF CleanUpPipe, CleanUpOK
<1>2. CASE Match(p) /\ pipeApp[SlotOf(p)] = victim
  <2>1. ~Claims(ES) /\ pc[ES] \notin Ended /\ p \in PipeIds
    BY <1>1, <1>2 DEF Claims, Creating, Deleting, Ended, Match
  <2> QED
    BY <1>1, <1>2, <2>1, TearDownLost DEF CleanUpPipe
<1>3. CASE ~ (Match(p) /\ pipeApp[SlotOf(p)] = victim)
  <2>1. UNCHANGED <<pipeId, pipeApp, creator, list, bufApp, pc, pid>>
    BY <1>3 DEF CleanUpPipe, pipeVars, bufVars, taskVars
  <2>2. ReservedHasOwner' /\ OwnersOK'
    BY <1>1, <2>1 DEF ReservedHasOwner, OwnersOK, Claims
  <2>3. ASSUME NEW r \in Slots, pipeId[r] # FREE, pipeApp[r] = victim
        PROVE  pipeId[r] \in delList'
    <3>1. victim \in Apps
      BY <1>1 DEF AppsOK
    <3>2. InHand(r)
      BY <2>3, <3>1 DEF CleanOK
    <3>3. pipeId[r] \in delList
      BY <1>1, <3>2 DEF InHand, Deleting
    <3>4. pipeId[r] # RESERVED
      BY <1>1, <2>3, NoneReserved DEF Cleaning
    <3>5. pipeId[r] \in PipeIds
      BY <2>3, <3>4 DEF PipesOK
    <3>6. pipeId[r] # p
      BY <1>3, <2>3, <3>5 DEF OwnersOK, Match
    <3> QED
      BY <1>1, <3>3, <3>6
  <2>4. CleanOK'
    <3>1. ASSUME NEW r \in Slots, NEW a \in Apps, pipeId'[r] # FREE, pipeApp'[r] = a
          PROVE  appState'[a] # "gone" /\ (victim' = a => InHand(r)')
      BY <1>1, <2>1, <2>3, <3>1 DEF CleanOK, InHand
    <3> QED
      BY <1>1, <2>1, <3>1 DEF CleanOK
  <2> QED
    BY <2>2, <2>4
<1> QED
  BY <1>2, <1>3

\* ES takes note of the slots of the application it is to delete: none is missed.
LEMMA CleanUpListLost ==
  ASSUME IInv, CallInv, LostInv, CleanUpList
  PROVE  LostInv'
<1> USE TaskAssumption DEF IInv, TypeOK, CallInv, LostInv
<1>1. /\ pc[ES] = "clean_list" /\ pc' = [pc EXCEPT ![ES] = "clean_pipes"]
      /\ UNCHANGED <<pipeId, pipeApp, creator, list, bufApp, pid, appState, victim>>
  BY DEF CleanUpList, GoTo, pipeVars, bufVars
<1>2. pc'[ES] = "clean_pipes" /\ \A u \in Tasks : u # ES => UNCHANGED pc[u]
  BY <1>1 DEF TasksOK
<1>3. \A u \in Tasks : /\ pc'[u] \in Creating <=> pc[u] \in Creating
                       /\ pc'[u] \in Deleting <=> pc[u] \in Deleting
                       /\ Claims(u)' <=> Claims(u)
  BY <1>1, <1>2 DEF Creating, Deleting, Claims
<1>4. ReservedHasOwner' /\ OwnersOK'
  BY <1>1, <1>3 DEF ReservedHasOwner, OwnersOK
<1>5. \A r \in Slots : pipeId[r] # FREE /\ pipeApp[r] = victim => pipeId[r] \in delList'
  BY DEF CleanUpList
<1>6. CleanOK'
  <2>1. ASSUME NEW r \in Slots, NEW a \in Apps, pipeId'[r] # FREE, pipeApp'[r] = a
        PROVE  appState'[a] # "gone" /\ (victim' = a => InHand(r)')
    BY <1>1, <1>2, <1>5, <2>1 DEF CleanOK, InHand
  <2> QED
    BY <1>1, <1>2, <2>1 DEF CleanOK
<1> QED
  BY <1>4, <1>6

\* The clean-up of an application begins: everything it has is still to be looked for.
LEMMA CleanUpBeginLost ==
  ASSUME IInv, CallInv, LostInv, NEW a \in Apps, CleanUpBegin(a)
  PROVE  LostInv'
<1> USE TaskAssumption DEF IInv, TypeOK, CallInv, LostInv
<1>1. /\ pc[ES] = "idle" /\ pc' = [pc EXCEPT ![ES] = "clean_list"] /\ victim' = a
      /\ appState' = [appState EXCEPT ![a] = "cleaning"]
      /\ UNCHANGED <<pipeId, pipeApp, creator, list, bufApp, pid, delList>>
  BY DEF CleanUpBegin, GoTo, pipeVars, bufVars
<1>2. pc'[ES] = "clean_list" /\ \A u \in Tasks : u # ES => UNCHANGED pc[u]
  BY <1>1 DEF TasksOK
<1>3. \A u \in Tasks : /\ pc'[u] \in Creating <=> pc[u] \in Creating
                       /\ pc'[u] \in Deleting <=> pc[u] \in Deleting
                       /\ Claims(u)' <=> Claims(u)
  BY <1>1, <1>2 DEF Creating, Deleting, Claims
<1>4. pc'[ES] \notin Deleting
  BY <1>2 DEF Deleting
<1>5. ReservedHasOwner' /\ OwnersOK'
  BY <1>1, <1>3, <1>4 DEF ReservedHasOwner, OwnersOK
<1>6. \A c \in Apps : appState'[c] = "gone" => appState[c] = "gone"
  BY <1>1 DEF CleanUpOK
<1>7. CleanOK'
  BY <1>1, <1>2, <1>6 DEF CleanOK, InHand
<1> QED
  BY <1>5, <1>7

\* The buffers the application still holds are given up, and its pipes are gone.
LEMMA CleanUpZeroCopyLost ==
  ASSUME IInv, CallInv, UseInv, LostInv, CleanUpZeroCopy
  PROVE  LostInv'
<1> USE TaskAssumption DEF IInv, TypeOK, CallInv, LostInv
<1>1. /\ pc[ES] = "clean_pipes" /\ pc' = [pc EXCEPT ![ES] = "clean_tasks"] /\ delList = {}
      /\ UNCHANGED <<pipeId, pipeApp, creator, bufApp, pid, esVars>>
  BY DEF CleanUpZeroCopy, GoTo, pipeVars
<1>2. pc'[ES] = "clean_tasks" /\ \A u \in Tasks : u # ES => UNCHANGED pc[u]
  BY <1>1 DEF TasksOK
<1>3. \A u \in Tasks : /\ pc'[u] \in Creating <=> pc[u] \in Creating
                       /\ pc'[u] \in Deleting <=> pc[u] \in Deleting
                       /\ Claims(u)' <=> Claims(u)
  BY <1>1, <1>2 DEF Creating, Deleting, Claims
<1>4. ReservedHasOwner' /\ OwnersOK'
  BY <1>1, <1>3 DEF ReservedHasOwner, OwnersOK, esVars
<1>5. \A r \in Slots : ~InHand(r)
  BY <1>1 DEF InHand, Deleting
<1>6. ASSUME NEW b \in Bufs, list'[b] = "zerocopy"
      PROVE  list[b] = "zerocopy" /\ bufApp[b] # victim
  <2> DEFINE B == {c \in Bufs : list[c] = "zerocopy" /\ bufApp[c] = victim}
  <2>1. Drop(B)
    BY DEF CleanUpZeroCopy
  <2> HIDE DEF B
  <2>2. list[b] = "zerocopy"
    BY <1>6, <2>1, DropList
  <2>3. use[b] = 1
    BY <2>2 DEF UseInv, HandsOK
  <2>4. b \notin B
    BY <1>6, <2>1, <2>3 DEF Drop, BufsOK
  <2> QED
    BY <2>2, <2>4 DEF B
<1>7. CleanOK'
  <2>1. \A r \in Slots, a \in Apps :
          pipeId'[r] # FREE /\ pipeApp'[r] = a => appState'[a] # "gone" /\ victim' # a
    BY <1>1, <1>5 DEF CleanOK, esVars
  <2>2. \A b \in Bufs, a \in Apps :
          list'[b] = "zerocopy" /\ bufApp'[b] = a => appState'[a] # "gone" /\ victim' # a
    BY <1>1, <1>6 DEF CleanOK, esVars
  <2> QED
    BY <1>2, <2>1, <2>2 DEF CleanOK
<1> QED
  BY <1>4, <1>7

\* The tasks of the application are deleted, and with them the application.
LEMMA CleanUpTasksLost ==
  ASSUME IInv, CallInv, LostInv, CleanUpTasks
  PROVE  LostInv'
<1> USE TaskAssumption DEF IInv, TypeOK, CallInv, LostInv
<1>1. pc[ES] = "clean_tasks" /\ victim \in Apps /\ appState[victim] = "cleaning" /\ AppOf[ES] # victim
  BY DoomedAssumption DEF CleanUpTasks, AppsOK
<1>2. /\ UNCHANGED <<pipeId, pipeApp, creator, list, bufApp, delList>> /\ victim' = NoApp
      /\ appState' = [appState EXCEPT ![victim] = "gone"]
  BY DEF CleanUpTasks, pipeVars, bufVars
<1>3. \A u \in Tasks : /\ pc'[u] = IF u = ES THEN "idle" ELSE IF AppOf[u] = victim THEN "dead" ELSE pc[u]
                       /\ pid'[u] = IF AppOf[u] = victim THEN FREE ELSE pid[u]
  BY DEF CleanUpTasks, TasksOK
<1>4. \A u \in Tasks : AppOf[u] = victim => pc[u] \in Ended
  BY <1>1 DEF AppsOK
<1>5. \A u \in Tasks : /\ pc'[u] \in Creating <=> pc[u] \in Creating
                       /\ pc'[u] \in Deleting <=> pc[u] \in Deleting
                       /\ Claims(u)' <=> Claims(u)
                       /\ Claims(u) => pid'[u] = pid[u] /\ u # ES
  BY <1>1, <1>3, <1>4 DEF Creating, Deleting, Claims, Ended
<1>6. ReservedHasOwner'
  BY <1>2, <1>5 DEF ReservedHasOwner
<1>7. OwnersOK'
  <2>1. ASSUME NEW u \in Tasks
        PROVE  /\ pc'[u] \in Creating => pipeApp'[SlotOf(pid'[u])] = NoApp
               /\ pc'[u] \in Deleting => pipeApp'[SlotOf(pid'[u])] = IF u = ES THEN victim' ELSE AppOf[u]
    BY <1>2, <1>5 DEF OwnersOK, Claims
  <2> QED
    BY <1>2, <2>1 DEF OwnersOK
<1>8. CleanOK'
  <2>1. pc'[ES] = "idle"
    BY <1>3
  <2>2. \A r \in Slots, a \in Apps : pipeId[r] # FREE /\ pipeApp[r] = a => appState[a] # "gone" /\ victim # a
    BY <1>1 DEF CleanOK, InHand
  <2>3. \A b \in Bufs, a \in Apps : list[b] = "zerocopy" /\ bufApp[b] = a => appState[a] # "gone" /\ victim # a
    BY <1>1 DEF CleanOK
  <2>4. \A a \in Apps : appState'[a] = "gone" => appState[a] = "gone" \/ a = victim
    BY <1>2 DEF CleanUpOK
  <2> QED
    BY <1>2, <2>1, <2>2, <2>3, <2>4, NullAssumption DEF CleanOK
<1> QED
  BY <1>6, <1>7, <1>8

\* At first there is nothing to leave behind.
LEMMA InitLost == Init => LostInv
<1> SUFFICES ASSUME Init PROVE LostInv
  OBVIOUS
<1>1. ReservedHasOwner
  BY DEF Init, ReservedHasOwner, FREE, RESERVED
<1>2. OwnersOK
  BY DEF Init, OwnersOK, Creating, Deleting, FREE, PipeIds
<1>3. CleanOK
  BY DEF Init, CleanOK
<1> QED
  BY <1>1, <1>2, <1>3 DEF LostInv

\* No step leaves anything behind.
LEMMA NextLost == IInv /\ CallInv /\ UseInv /\ LostInv /\ [Next]_vars => LostInv'
<1> SUFFICES ASSUME IInv, CallInv, UseInv, LostInv, [Next]_vars PROVE LostInv'
  OBVIOUS
<1>1. ASSUME NEW t \in Tasks, CallBegins(t) PROVE LostInv'
  <2>1. ASSUME NEW p \in PipeIds, NEW m \in MsgIds, NEW lim \in MsgLims, Subscribe(t, m, p, lim) PROVE LostInv'
    BY <2>1, UntouchedLost DEF Subscribe, pipeVars, bufVars, taskVars
  <2>2. ASSUME NEW p \in PipeIds, NEW m \in MsgIds, Unsubscribe(t, m, p) PROVE LostInv'
    BY <2>2, UntouchedLost DEF Unsubscribe, pipeVars, bufVars, taskVars
  <2>3. ASSUME NEW p \in PipeIds, NEW on \in BOOLEAN, SetPipeOpts(t, p, on) PROVE LostInv'
    BY <2>3, UntouchedLost DEF SetPipeOpts, bufVars, taskVars
  <2> QED
    BY <1>1, <2>1, <2>2, <2>3, CreateReserveLost, PassiveLost, BuffersLost, ExitLost, DeleteBeginLost, ReceiveLost
       DEF CallBegins
<1>2. ASSUME NEW t \in Tasks, Proceed(t) \/ ReceiveNothing(t) PROVE LostInv'
  BY <1>2, PassiveLost, BuffersLost, ReceiveLost, CreateEndLost DEF Proceed
<1>3. ASSUME CleanUp PROVE LostInv'
  BY <1>3, CleanUpBeginLost, CleanUpListLost, CleanUpPipeLost, CleanUpZeroCopyLost, CleanUpTasksLost DEF CleanUp
<1>4. ASSUME NEW m \in MsgIds, NEW p \in PipeIds, NEW on \in BOOLEAN, RouteCmd(m, p, on) PROVE LostInv'
  BY <1>4, UntouchedLost DEF RouteCmd, pipeVars, bufVars, taskVars
<1>5. ASSUME UNCHANGED vars PROVE LostInv'
  BY <1>5, UntouchedLost DEF vars, pipeVars, bufVars, taskVars
<1> QED
  BY <1>1, <1>2, <1>3, <1>4, <1>5 DEF Next

\* Who has gone left no pipe, no zero-copy buffer and, as every route is live and every
\* message is on the queue of a live pipe, no subscription and nothing to be read.
LEMMA LeftClean ==
  ASSUME IInv, CallInv, QueueInv, LostInv
  PROVE  CleanedUp
<1> USE DEF IInv, TypeOK, QueueInv, LostInv
<1>1. ASSUME NEW a \in Apps, appState[a] = "gone", NEW p \in PipeIds, AppOf[creator[p]] = a
      PROVE  ~Live(p)
  <2> SUFFICES ASSUME Live(p) PROVE FALSE
    OBVIOUS
  <2>1. SlotOf(p) \in Slots
    BY SlotInRange DEF PipeIds
  <2>2. pipeId[SlotOf(p)] # FREE
    BY DEF Live, Match, SlotClaims, Claims, Deleting, PipeIds, FREE, RESERVED
  <2>3. pipeApp[SlotOf(p)] = a
    BY <1>1 DEF LiveOK
  <2> QED
    BY <1>1, <2>1, <2>2, <2>3 DEF CleanOK
<1>2. ASSUME NEW a \in Apps, appState[a] = "gone", NEW m \in MsgIds, NEW i \in DOMAIN dest[m]
      PROVE  AppOf[creator[dest[m][i].pipe]] # a
  <2>1. Match(dest[m][i].pipe)
    BY DEF RoutesLive
  <2> QED
    BY <1>1, <1>2, <2>1 DEF Live, Match
<1>3. ASSUME NEW a \in Apps, appState[a] = "gone", NEW p \in PipeIds, AppOf[creator[p]] = a
      PROVE  queue[p] = <<>>
  BY <1>1, <1>3 DEF LiveOK
<1>4. NothingLeftBehind
  BY <1>2, <1>3 DEF NothingLeftBehind, CleanOK
<1> QED
  BY <1>4 DEF CleanedUp

-----------------------------------------------------------------------------
(* The statistics                                                          *)

PipesCounted == pipesInUse = Cardinality(LivePipes) + Cardinality(DeletingTasks)
SubsCounted  == subsInUse = Cardinality(Subscriptions)
BufsCounted  == bufsInUse = Cardinality(UsedBufs)

\* What the statistics count is finite, before a step and after it.
LEMMA StatsCountable ==
  /\ IsFiniteSet(LivePipes) /\ IsFiniteSet(DeletingTasks) /\ IsFiniteSet(Subscriptions) /\ IsFiniteSet(UsedBufs)
  /\ Cardinality(LivePipes) \in Nat /\ Cardinality(DeletingTasks) \in Nat
  /\ Cardinality(Subscriptions) \in Nat /\ Cardinality(UsedBufs) \in Nat
<1>1. IsFiniteSet(Tasks) /\ IsFiniteSet(PipeIds) /\ IsFiniteSet(Slots) /\ IsFiniteSet(Bufs) /\ IsFiniteSet(MsgIds)
  BY FiniteAssumption, SerialAssumption, PipesAssumption, FS_Interval DEF PipeIds, Slots
<1>2. IsFiniteSet(MsgIds \X PipeIds)
  BY <1>1, FS_Product
<1>3. /\ LivePipes \in SUBSET Slots /\ DeletingTasks \in SUBSET Tasks
      /\ Subscriptions \in SUBSET (MsgIds \X PipeIds) /\ UsedBufs \in SUBSET Bufs
  BY DEF LivePipes, DeletingTasks, Subscriptions, UsedBufs
<1>4. IsFiniteSet(LivePipes) /\ IsFiniteSet(DeletingTasks) /\ IsFiniteSet(Subscriptions) /\ IsFiniteSet(UsedBufs)
  BY <1>1, <1>2, <1>3, FS_Subset
<1> QED
  BY <1>4, FS_CardinalityType

\* References given up leave the statistics of buffers right.
LEMMA DropCounted ==
  ASSUME BufsOK, BufsCounted, NEW B, Drop(B)
  PROVE  BufsCounted'
<1> DEFINE last == {b \in Bufs : b \in B /\ use[b] = 1}
<1>1. use' = [b \in Bufs |-> IF b \in B /\ use[b] > 0 THEN use[b] - 1 ELSE use[b]]
      /\ bufsInUse' = bufsInUse - Cardinality(last)
  BY DEF Drop
<1>2. \A b \in Bufs : use[b] \in Int /\ use[b] >= 0
  BY DEF BufsOK
<1>3. ASSUME NEW b \in Bufs PROVE use'[b] > 0 <=> (use[b] > 0 /\ b \notin last)
  <2>1. use'[b] = IF b \in B /\ use[b] > 0 THEN use[b] - 1 ELSE use[b]
    BY <1>1
  <2>2. b \in last <=> b \in B /\ use[b] = 1
    OBVIOUS
  <2> HIDE DEF last
  <2> QED
    BY <1>2, <2>1, <2>2
<1>4. UsedBufs' = UsedBufs \ last
  BY <1>3 DEF UsedBufs
<1>5. UsedBufs \cap last = last
  BY DEF UsedBufs
<1> HIDE DEF last
<1>6. Cardinality(UsedBufs \ last) = Cardinality(UsedBufs) - Cardinality(last)
  BY <1>5, StatsCountable, FS_Difference
<1> QED
  BY <1>1, <1>4, <1>6 DEF BufsCounted

\* A list has a finite number of places.
LEMMA ListFinite ==
  ASSUME NEW S, NEW s \in Seq(S)
  PROVE  IsFiniteSet(DOMAIN s)
<1>1. DOMAIN s = 1 .. Len(s) /\ Len(s) \in Int
  OBVIOUS
<1> QED
  BY <1>1, FS_Interval

\* The number of buffers in use changes with the first reference and the last.
LEMMA BufsCountedNext ==
  IInv /\ CallInv /\ UseInv /\ BufsCounted /\ [Next]_vars => BufsCounted'
<1> SUFFICES ASSUME IInv, CallInv, UseInv, BufsCounted, [Next]_vars PROVE BufsCounted'
  OBVIOUS
<1> USE DEF IInv, TypeOK
<1>1. ASSUME UNCHANGED <<use, bufsInUse>> PROVE BufsCounted'
  BY <1>1 DEF BufsCounted, UsedBufs
<1>2. ASSUME NEW t \in Tasks, NEW p, SetPipeId(t, p) PROVE BufsCounted'
  BY <1>1, <1>2, DropCounted DEF SetPipeId
<1>3. ASSUME NEW t \in Tasks, CallBegins(t) PROVE BufsCounted'
  <2>1. ASSUME ReleaseBuffer(t) PROVE BufsCounted'
    BY <1>1, <2>1, DropCounted DEF ReleaseBuffer
  <2>2. ASSUME CreateReserve(t) \/ AllocateBegin(t) \/ Exit(t) PROVE BufsCounted'
    BY <1>1, <2>2 DEF CreateReserve, AllocateBegin, Exit, bufVars
  <2>3. ASSUME NEW p \in PipeIds, DeleteBegin(t, p) \/ \E on \in BOOLEAN : SetPipeOpts(t, p, on) PROVE BufsCounted'
    BY <1>1, <2>3 DEF DeleteBegin, TearDown, SetPipeOpts, bufVars
  <2>4. ASSUME NEW p \in PipeIds, NEW m \in MsgIds, Unsubscribe(t, m, p) \/ TransmitBuffer(t, m) PROVE BufsCounted'
    BY <1>1, <2>4 DEF Unsubscribe, TransmitBuffer, bufVars
  <2>5. ASSUME NEW p \in PipeIds, NEW m \in MsgIds, NEW lim \in MsgLims, Subscribe(t, m, p, lim) PROVE BufsCounted'
    BY <1>1, <2>5 DEF Subscribe, bufVars
  <2>6. ASSUME NEW m \in MsgIds, TransmitBuffer(t, m) PROVE BufsCounted'
    BY <1>1, <2>6 DEF TransmitBuffer, bufVars
  <2>7. ASSUME NEW p \in PipeIds, ReceiveBegin(t, p) PROVE BufsCounted'
    BY <1>2, <2>7 DEF ReceiveBegin
  <2> QED
    BY <1>3, <2>1, <2>2, <2>3, <2>4, <2>5, <2>6, <2>7 DEF CallBegins
<1>4. ASSUME NEW t \in Tasks, Allocate(t) PROVE BufsCounted'
  <2>1. ASSUME NEW b \in Bufs, use[b] = 0, use' = [use EXCEPT ![b] = 1], bufsInUse' = bufsInUse + 1
        PROVE  BufsCounted'
    <3>1. UsedBufs' = UsedBufs \cup {b} /\ b \notin UsedBufs
      BY <2>1 DEF UsedBufs, BufsOK
    <3>2. Cardinality(UsedBufs') = Cardinality(UsedBufs) + 1
      BY <3>1, OneMore, StatsCountable
    <3> QED
      BY <2>1, <3>2 DEF BufsCounted
  <2> QED
    BY <1>1, <1>4, <2>1 DEF Allocate, bufVars
<1>5. ASSUME NEW t \in Tasks, FindDestinations(t) PROVE BufsCounted'
  <2> DEFINE write == {i \in Targets(msg[t], AppIdOf(t)) : dest[msg[t]][i].cnt < dest[msg[t]][i].lim}
  <2>1. pc[t] = "tx_find" /\ use' = [use EXCEPT ![own[t]] = Raised(own[t], Cardinality(write))] /\ UNCHANGED bufsInUse
    BY <1>5 DEF FindDestinations
  <2>2. own[t] \in Bufs /\ msg[t] \in MsgIds
    BY <2>1 DEF SendingHasBuffer, Sending
  <2>3. IsFiniteSet(write) /\ Cardinality(write) \in Nat
    <3>1. dest[msg[t]] \in Seq(DestType) /\ write \subseteq DOMAIN dest[msg[t]]
      BY <2>2 DEF RoutesOK, Targets
    <3> HIDE DEF write
    <3>2. IsFiniteSet(DOMAIN dest[msg[t]])
      BY <3>1, ListFinite
    <3>3. IsFiniteSet(write)
      BY <3>1, <3>2, FS_Subset
    <3> QED
      BY <3>3, FS_CardinalityType
  <2> HIDE DEF write
  <2>4. use[own[t]] = 1
    BY <2>1, <2>2, NullAssumption DEF UseInv, HandsOK, Writing
  <2>5. Raised(own[t], Cardinality(write)) > 0
    BY <2>3, <2>4 DEF Raised, UseMax
  <2>6. UsedBufs' = UsedBufs
    BY <2>1, <2>4, <2>5 DEF UsedBufs, BufsOK
  <2> QED
    BY <2>1, <2>6 DEF BufsCounted
<1>6. ASSUME NEW t \in Tasks, Proceed(t) \/ ReceiveNothing(t) PROVE BufsCounted'
  <2>1. ASSUME CreateQueue(t) \/ CreateFinish(t) \/ CreateAbort(t) \/ DrainGet(t) \/ QueueDelete(t) \/ DeleteFinish(t)
        PROVE  BufsCounted'
    BY <1>1, <2>1 DEF CreateQueue, CreateFinish, CreateAbort, DrainGet, QueueDelete, DeleteFinish, bufVars
  <2>2. ASSUME QueuePut(t) \/ QueueGet(t) \/ ReceiveAccept(t) \/ ReceiveNothing(t) PROVE BufsCounted'
    BY <1>1, <2>2 DEF QueuePut, QueueGet, ReceiveAccept, ReceiveNothing, bufVars
  <2>3. ASSUME DrainRelease(t) \/ UndoPut(t) \/ TransmitDone(t) PROVE BufsCounted'
    BY <2>3, DropCounted DEF DrainRelease, UndoPut, TransmitDone
  <2>4. ASSUME ExportReference(t) PROVE BufsCounted'
    BY <1>1, <2>4, DropCounted DEF ExportReference
  <2>5. ASSUME ReceiveReject(t) PROVE BufsCounted'
    BY <1>1, <1>2, <2>5 DEF ReceiveReject, bufVars
  <2> QED
    BY <1>4, <1>5, <1>6, <2>1, <2>2, <2>3, <2>4, <2>5 DEF Proceed
<1>7. ASSUME CleanUp PROVE BufsCounted'
  <2>1. ASSUME NEW a \in Apps, CleanUpBegin(a) PROVE BufsCounted'
    BY <1>1, <2>1 DEF CleanUpBegin, bufVars
  <2>2. ASSUME CleanUpList \/ CleanUpTasks PROVE BufsCounted'
    BY <1>1, <2>2 DEF CleanUpList, CleanUpTasks, bufVars
  <2>3. ASSUME NEW p \in delList, CleanUpPipe(p) PROVE BufsCounted'
    BY <1>1, <2>3 DEF CleanUpPipe, TearDown, bufVars
  <2>4. ASSUME CleanUpZeroCopy PROVE BufsCounted'
    BY <2>4, DropCounted DEF CleanUpZeroCopy
  <2> QED
    BY <1>7, <2>1, <2>2, <2>3, <2>4 DEF CleanUp
<1>8. ASSUME NEW m \in MsgIds, NEW p \in PipeIds, NEW on \in BOOLEAN, RouteCmd(m, p, on) PROVE BufsCounted'
  BY <1>1, <1>8 DEF RouteCmd, bufVars
<1>9. ASSUME UNCHANGED vars PROVE BufsCounted'
  BY <1>1, <1>9 DEF vars, bufVars
<1> QED
  BY <1>3, <1>6, <1>7, <1>8, <1>9 DEF Next

\* A step that makes no pipe and ends none.
LEMMA PipesFrame ==
  ASSUME PipesCounted, UNCHANGED pipesInUse,
         \A s \in Slots : pipeId'[s] \in PipeIds <=> pipeId[s] \in PipeIds,
         \A u \in Tasks : pc'[u] \in Deleting <=> pc[u] \in Deleting
  PROVE  PipesCounted'
<1>1. LivePipes' = LivePipes /\ DeletingTasks' = DeletingTasks
  BY DEF LivePipes, DeletingTasks
<1> QED
  BY <1>1 DEF PipesCounted

\* The slot a creation had claimed becomes a pipe, or is given back.
LEMMA CreatePipes ==
  ASSUME IInv, PipesCounted, NEW t \in Tasks,
         CreateReserve(t) \/ CreateQueue(t) \/ CreateFinish(t) \/ CreateAbort(t)
  PROVE  PipesCounted'
<1> USE DEF IInv, TypeOK
<1>1. FREE \notin PipeIds /\ RESERVED \notin PipeIds
  BY DEF FREE, RESERVED, PipeIds
<1>2. /\ pc[t] \in {"idle"} \cup Creating
      /\ \E l \in {"create", "created", "create_failed", "idle"} : pc' = [pc EXCEPT ![t] = l]
  <2>1. CASE CreateReserve(t)
    BY <2>1 DEF CreateReserve, Begins, GoTo
  <2>2. CASE CreateQueue(t)
    BY <2>2 DEF CreateQueue, GoTo, Creating
  <2>3. CASE CreateFinish(t)
    BY <2>3 DEF CreateFinish, GoTo, Creating
  <2>4. CASE CreateAbort(t)
    BY <2>4 DEF CreateAbort, GoTo, Creating
  <2> QED
    BY <2>1, <2>2, <2>3, <2>4
<1>3. \A u \in Tasks : pc'[u] \in Deleting <=> pc[u] \in Deleting
  BY <1>2 DEF TasksOK, Creating, Deleting
<1>4. ASSUME CreateReserve(t) PROVE PipesCounted'
  <2>1. FindNext \in PipeIds
    BY <1>4 DEF CreateReserve
  <2>2. SlotOf(FindNext) \in Slots /\ pipeId[SlotOf(FindNext)] = FREE
    BY <2>1, NextIsNew
  <2>3. pipeId' = [pipeId EXCEPT ![SlotOf(FindNext)] = RESERVED] /\ UNCHANGED pipesInUse
    BY <1>4 DEF CreateReserve
  <2>4. \A s \in Slots : pipeId'[s] \in PipeIds <=> pipeId[s] \in PipeIds
    BY <1>1, <2>2, <2>3 DEF PipesOK
  <2> QED
    BY <1>3, <2>3, <2>4, PipesFrame
<1>5. ASSUME CreateQueue(t) PROVE PipesCounted'
  BY <1>3, <1>5, PipesFrame DEF CreateQueue, pipeVars
<1>6. ASSUME CreateFinish(t) \/ CreateAbort(t)
      PROVE  pid[t] \in PipeIds /\ SlotOf(pid[t]) \in Slots /\ pipeId[SlotOf(pid[t])] = RESERVED
  BY <1>6, SlotInRange DEF CreateFinish, CreateAbort, SlotClaims, Claims, Creating, PipeIds
<1>7. ASSUME CreateFinish(t) PROVE PipesCounted'
  <2>1. pipeId' = [pipeId EXCEPT ![SlotOf(pid[t])] = pid[t]] /\ pipesInUse' = pipesInUse + 1
    BY <1>7 DEF CreateFinish
  <2>2. LivePipes' = LivePipes \cup {SlotOf(pid[t])} /\ SlotOf(pid[t]) \notin LivePipes
    BY <1>1, <1>6, <1>7, <2>1 DEF PipesOK, LivePipes
  <2>3. DeletingTasks' = DeletingTasks
    BY <1>3 DEF DeletingTasks
  <2>4. Cardinality(LivePipes') = Cardinality(LivePipes) + 1
    BY <2>2, OneMore, StatsCountable
  <2> QED
    BY <2>1, <2>3, <2>4, StatsCountable DEF PipesCounted
<1>8. ASSUME CreateAbort(t) PROVE PipesCounted'
  <2>1. pipeId' = [pipeId EXCEPT ![SlotOf(pid[t])] = FREE] /\ UNCHANGED pipesInUse
    BY <1>8 DEF CreateAbort
  <2>2. \A s \in Slots : pipeId'[s] \in PipeIds <=> pipeId[s] \in PipeIds
    BY <1>1, <1>6, <1>8, <2>1 DEF PipesOK
  <2> QED
    BY <1>3, <2>1, <2>2, PipesFrame
<1> QED
  BY <1>4, <1>5, <1>7, <1>8

\* A pipe that is being deleted is counted until it is gone.
LEMMA DeletePipes ==
  ASSUME IInv, PipesCounted, NEW t \in Tasks,
         (\E p \in PipeIds : Match(p) /\ pc[t] \notin Deleting /\ TearDown(t, p)) \/ DeleteFinish(t)
  PROVE  PipesCounted'
<1> USE DEF IInv, TypeOK
<1>1. FREE \notin PipeIds /\ RESERVED \notin PipeIds
  BY DEF FREE, RESERVED, PipeIds
<1>2. ASSUME NEW p \in PipeIds, Match(p), pc[t] \notin Deleting, TearDown(t, p) PROVE PipesCounted'
  <2>1. SlotOf(p) \in Slots /\ pipeId[SlotOf(p)] = p
    BY <1>2, SlotInRange DEF Match, PipeIds
  <2>2. /\ pipeId' = [pipeId EXCEPT ![SlotOf(p)] = RESERVED] /\ pc' = [pc EXCEPT ![t] = "drain"]
        /\ UNCHANGED pipesInUse
    BY <1>2 DEF TearDown, GoTo
  <2>3. LivePipes' = LivePipes \ {SlotOf(p)} /\ SlotOf(p) \in LivePipes
    BY <1>1, <2>1, <2>2 DEF PipesOK, LivePipes
  <2>4. DeletingTasks' = DeletingTasks \cup {t} /\ t \notin DeletingTasks
    BY <1>2, <2>2 DEF TasksOK, DeletingTasks, Deleting
  <2>5. /\ Cardinality(LivePipes') = Cardinality(LivePipes) - 1
        /\ Cardinality(DeletingTasks') = Cardinality(DeletingTasks) + 1
    BY <2>3, <2>4, OneMore, OneFewer, StatsCountable
  <2> QED
    BY <2>2, <2>5, StatsCountable DEF PipesCounted
<1>3. ASSUME DeleteFinish(t) PROVE PipesCounted'
  <2>1. /\ pc[t] = "delete_finish" /\ pipeId' = [pipeId EXCEPT ![SlotOf(pid[t])] = FREE]
        /\ pipesInUse' = pipesInUse - 1
        /\ pc' = [pc EXCEPT ![t] = IF t = ES THEN "clean_pipes" ELSE "idle"]
    BY <1>3 DEF DeleteFinish, GoTo
  <2>2. pid[t] \in PipeIds /\ SlotOf(pid[t]) \in Slots /\ pipeId[SlotOf(pid[t])] = RESERVED
    BY <2>1, SlotInRange DEF SlotClaims, Claims, Deleting, PipeIds
  <2>3. LivePipes' = LivePipes
    BY <1>1, <2>1, <2>2 DEF PipesOK, LivePipes
  <2>4. DeletingTasks' = DeletingTasks \ {t} /\ t \in DeletingTasks
    BY <2>1 DEF TasksOK, DeletingTasks, Deleting
  <2>5. Cardinality(DeletingTasks') = Cardinality(DeletingTasks) - 1
    BY <2>4, OneFewer, StatsCountable
  <2> QED
    BY <2>1, <2>3, <2>5, StatsCountable DEF PipesCounted
<1> QED
  BY <1>2, <1>3

\* The number of pipes is right, the ones being made and the ones being deleted included.
LEMMA PipesCountedNext ==
  IInv /\ CallInv /\ PipesCounted /\ [Next]_vars => PipesCounted'
<1> SUFFICES ASSUME IInv, CallInv, PipesCounted, [Next]_vars PROVE PipesCounted'
  OBVIOUS
<1> USE DEF IInv, TypeOK
<1>1. ASSUME NEW t \in Tasks, UNCHANGED <<pipeId, pipesInUse>>,
             \A u \in Tasks : u # t => UNCHANGED pc[u],
             pc'[t] \in Deleting <=> pc[t] \in Deleting
      PROVE  PipesCounted'
  BY <1>1, PipesFrame
<1>2. ASSUME NEW t \in Tasks, pc[t] \notin Deleting, NEW p, SetPipeId(t, p) PROVE PipesCounted'
  BY <1>1, <1>2 DEF SetPipeId, GoTo, Deleting, TasksOK
<1>3. ASSUME NEW t \in Tasks, CallBegins(t) PROVE PipesCounted'
  <2>1. ASSUME AllocateBegin(t) \/ ReleaseBuffer(t) \/ Exit(t) \/ \E m \in MsgIds : TransmitBuffer(t, m)
        PROVE PipesCounted'
    BY <1>1, <2>1 DEF AllocateBegin, ReleaseBuffer, Exit, TransmitBuffer, Begins, GoTo, Deleting, TasksOK, pipeVars
  <2>2. ASSUME NEW p \in PipeIds, DeleteBegin(t, p) PROVE PipesCounted'
    BY <2>2, DeletePipes DEF DeleteBegin, Begins, Deleting
  <2>3. ASSUME NEW p \in PipeIds, ReceiveBegin(t, p) PROVE PipesCounted'
    BY <1>2, <2>3 DEF ReceiveBegin, Begins, Deleting
  <2>4. ASSUME NEW p \in PipeIds, NEW on \in BOOLEAN, SetPipeOpts(t, p, on) PROVE PipesCounted'
    BY <1>1, <2>4 DEF SetPipeOpts, taskVars
  <2>5. ASSUME NEW p \in PipeIds, NEW m \in MsgIds,
               Unsubscribe(t, m, p) \/ \E lim \in MsgLims : Subscribe(t, m, p, lim)
        PROVE PipesCounted'
    BY <1>1, <2>5 DEF Unsubscribe, Subscribe, taskVars, pipeVars
  <2>6. ASSUME CreateReserve(t) PROVE PipesCounted'
    BY <2>6, CreatePipes
  <2> QED
    BY <1>3, <2>1, <2>2, <2>3, <2>4, <2>5, <2>6 DEF CallBegins
<1>4. ASSUME NEW t \in Tasks, Proceed(t) \/ ReceiveNothing(t) PROVE PipesCounted'
  <2>1. ASSUME CreateQueue(t) \/ CreateFinish(t) \/ CreateAbort(t) \/ DeleteFinish(t) PROVE PipesCounted'
    BY <2>1, CreatePipes, DeletePipes
  <2>2. ASSUME DrainRelease(t) \/ DrainGet(t) \/ QueueDelete(t) PROVE PipesCounted'
    BY <1>1, <2>2 DEF DrainRelease, DrainGet, QueueDelete, GoTo, Deleting, TasksOK, pipeVars
  <2>3. ASSUME Allocate(t) \/ FindDestinations(t) \/ QueuePut(t) PROVE PipesCounted'
    BY <1>1, <2>3 DEF Allocate, FindDestinations, QueuePut, GoTo, Deleting, TasksOK, pipeVars
  <2>4. ASSUME UndoPut(t) \/ TransmitDone(t) \/ QueueGet(t) PROVE PipesCounted'
    BY <1>1, <2>4 DEF UndoPut, TransmitDone, QueueGet, GoTo, Deleting, TasksOK, pipeVars
  <2>5. ASSUME ExportReference(t) \/ ReceiveAccept(t) \/ ReceiveNothing(t) PROVE PipesCounted'
    BY <1>1, <2>5 DEF ExportReference, ReceiveAccept, ReceiveNothing, GoTo, Deleting, TasksOK, pipeVars
  <2>6. ASSUME ReceiveReject(t) PROVE PipesCounted'
    BY <1>1, <1>2, <2>6 DEF ReceiveReject, GoTo, Deleting, TasksOK, pipeVars
  <2> QED
    BY <1>4, <2>1, <2>2, <2>3, <2>4, <2>5, <2>6 DEF Proceed
<1>5. ASSUME CleanUp PROVE PipesCounted'
  <2>1. ASSUME (\E a \in Apps : CleanUpBegin(a)) \/ CleanUpList \/ CleanUpZeroCopy PROVE PipesCounted'
    BY <1>1, <2>1, TaskAssumption DEF CleanUpBegin, CleanUpList, CleanUpZeroCopy, GoTo, Deleting, TasksOK, pipeVars
  <2>2. ASSUME NEW p \in delList, CleanUpPipe(p) PROVE PipesCounted'
    BY <1>1, <2>2, TaskAssumption, DeletePipes DEF CleanUpPipe, Match, Deleting, taskVars, pipeVars
  <2>3. ASSUME CleanUpTasks PROVE PipesCounted'
    <3>1. \A u \in Tasks : AppOf[u] = victim => pc[u] \in Ended
      BY <2>3 DEF CleanUpTasks, CallInv, AppsOK
    <3>2. \A u \in Tasks : /\ pc'[u] = pc[u] \/ pc'[u] \in {"dead", "idle"}
                           /\ pc'[u] # pc[u] => pc[u] \in Ended \cup {"clean_tasks"}
      BY <2>3, <3>1 DEF CleanUpTasks, TasksOK
    <3>3. \A u \in Tasks : pc'[u] \in Deleting <=> pc[u] \in Deleting
      BY <3>2 DEF Deleting, Ended
    <3> QED
      BY <2>3, <3>3, PipesFrame DEF CleanUpTasks, pipeVars
  <2> QED
    BY <1>5, <2>1, <2>2, <2>3 DEF CleanUp
<1>6. ASSUME NEW m \in MsgIds, NEW p \in PipeIds, NEW on \in BOOLEAN, RouteCmd(m, p, on) PROVE PipesCounted'
  BY <1>6, PipesFrame DEF RouteCmd, pipeVars, taskVars
<1>7. ASSUME UNCHANGED vars PROVE PipesCounted'
  BY <1>7, PipesFrame DEF vars, pipeVars, taskVars
<1> QED
  BY <1>3, <1>4, <1>5, <1>6, <1>7 DEF Next

\* A route cut short at pipe p: its other nodes, and no other.
LEMMA RouteCut ==
  ASSUME RoutesOK, RoutesLive, NEW m \in MsgIds, NEW p \in PipeIds, Subscribed(m, p),
         NEW left, left = Without(dest[m], DestPtr(m, p))
  PROVE  /\ \A j \in DOMAIN left : left[j].pipe # p /\ \E k \in DOMAIN dest[m] : left[j] = dest[m][k]
         /\ \A k \in DOMAIN dest[m] : dest[m][k].pipe # p => \E j \in DOMAIN left : left[j] = dest[m][k]
<1> DEFINE d == DestPtr(m, p)
<1>1. d \in DOMAIN dest[m] /\ dest[m][d].pipe = p /\ dest[m] \in Seq(DestType)
  BY DestPtrFound DEF RoutesOK
<1>2. left = Without(dest[m], d)
  OBVIOUS
<1> HIDE DEF d
<1>3. \A j \in DOMAIN left : \E k \in DOMAIN dest[m] : k # d /\ left[j] = dest[m][k]
  BY <1>1, <1>2, WithoutType
<1>4. \A k \in DOMAIN dest[m] : dest[m][k].pipe = p => k = d
  BY <1>1 DEF RoutesLive
<1>5. ASSUME NEW k \in DOMAIN dest[m], k # d PROVE \E j \in DOMAIN left : left[j] = dest[m][k]
  <2>1. /\ DOMAIN left = 1 .. Len(dest[m]) - 1 /\ Len(dest[m]) \in Nat
        /\ \A j \in DOMAIN left : left[j] = IF j < d THEN dest[m][j] ELSE dest[m][j + 1]
    BY <1>1, <1>2 DEF Without
  <2>2. k \in 1 .. Len(dest[m]) /\ d \in 1 .. Len(dest[m])
    BY <1>1
  <2>3. CASE k < d
    <3>1. k \in DOMAIN left /\ left[k] = dest[m][k]
      BY <2>1, <2>2, <2>3
    <3> QED
      BY <3>1
  <2>4. CASE ~ (k < d)
    <3>1. k - 1 \in DOMAIN left /\ ~ (k - 1 < d) /\ (k - 1) + 1 = k
      BY <1>5, <2>1, <2>2, <2>4
    <3>2. left[k - 1] = dest[m][k]
      BY <2>1, <3>1
    <3> QED
      BY <3>1, <3>2
  <2> QED
    BY <2>3, <2>4
<1> QED
  BY <1>1, <1>3, <1>4, <1>5

\* A message down, or up to a bound: the count of the one destination meant changes.
LEMMA CountDownCount ==
  ASSUME RoutesOK, RoutesLive, NEW m, NEW p, NEW n \in MsgIds, NEW i \in DOMAIN dest[n]
  PROVE  /\ CountDown(m, p)[n][i].cnt \in Nat /\ dest[n][i].cnt \in Nat
         /\ CountDown(m, p)[n][i].cnt <= dest[n][i].cnt
         /\ n = m /\ dest[n][i].pipe = p /\ dest[n][i].cnt > 0 =>
              CountDown(m, p)[n][i].cnt = dest[n][i].cnt - 1
<1> DEFINE k == DestPtr(m, p)
           d == Fewer(dest[m][k])
<1>0. dest[n][i] \in DestType /\ dest[n][i].cnt \in Nat
  <2>1. dest[n] \in Seq(DestType)
    BY DEF RoutesOK
  <2>2. dest[n][i] \in DestType
    BY <2>1
  <2> QED
    BY <2>2 DEF DestType
<1>1. CASE m \notin MsgIds \/ ~Subscribed(m, p)
  <2>1. CountDown(m, p)[n] = dest[n]
    BY <1>1 DEF CountDown, RoutesOK
  <2>2. ~ (n = m /\ dest[n][i].pipe = p)
    BY <1>1 DEF Subscribed, Positions
  <2> QED
    BY <1>0, <2>1, <2>2
<1>2. CASE m \in MsgIds /\ Subscribed(m, p)
  <2>1. k \in DOMAIN dest[m] /\ dest[m] \in Seq(DestType) /\ dest[m][k].pipe = p
    BY <1>2, DestPtrFound DEF RoutesOK
  <2>2. dest[m][k] \in DestType
    BY <2>1
  <2>3. d.cnt = IF dest[m][k].cnt > 0 THEN dest[m][k].cnt - 1 ELSE dest[m][k].cnt
    BY <2>2 DEF Fewer, DestType
  <2>4. CountDown(m, p) = [dest EXCEPT ![m] = [dest[m] EXCEPT ![k] = d]]
    BY <1>2 DEF CountDown
  <2> HIDE DEF k, d
  <2>5. \A j \in DOMAIN dest[m] : dest[m][j].pipe = p => j = k
    BY <1>2, <2>1 DEF RoutesLive
  <2>6. CountDown(m, p)[n][i] = IF n = m /\ i = k THEN d ELSE dest[n][i]
    BY <1>2, <2>1, <2>4 DEF RoutesOK
  <2>7. CASE n = m /\ i = k
    BY <1>0, <2>3, <2>6, <2>7
  <2>8. CASE ~ (n = m /\ i = k)
    BY <1>0, <2>5, <2>6, <2>8
  <2> QED
    BY <2>7, <2>8
<1> QED
  BY <1>1, <1>2

\* What FindDestinations counts up: a destination for each write to be made.
LEMMA CountedUp ==
  ASSUME IInv, NEW t \in Tasks, FindDestinations(t), NEW n \in MsgIds
  PROVE  /\ DOMAIN dest'[n] = DOMAIN dest[n]
         /\ \A i \in DOMAIN dest[n] :
              /\ dest'[n][i].pipe = dest[n][i].pipe
              /\ \/ dest'[n][i].cnt = dest[n][i].cnt
                 \/ /\ n = msg[t] /\ dest'[n][i].cnt = dest[n][i].cnt + 1
                    /\ \E w \in todo'[t] : w[2] = dest[n][i].pipe
<1> USE DEF IInv, TypeOK
<1> DEFINE m == msg[t]
           write == {i \in Targets(m, AppIdOf(t)) : dest[m][i].cnt < dest[m][i].lim}
           s == [i \in DOMAIN dest[m] |-> IF i \in write THEN More(dest[m][i]) ELSE dest[m][i]]
<1>1. m \in MsgIds
  BY DEF FindDestinations, SendingHasBuffer, Sending
<1>2. dest[m] \in Seq(DestType) /\ write \subseteq DOMAIN dest[m]
  BY <1>1 DEF RoutesOK, Targets
<1>3. dest' = [dest EXCEPT ![m] = s] /\ todo'[t] = {<<i, dest[m][i].pipe>> : i \in write}
  BY DEF FindDestinations, TasksOK
<1>4. \A i \in write : \E w \in todo'[t] : w[2] = dest[m][i].pipe
  <2> HIDE DEF write, m
  <2>1. \A i \in write : <<i, dest[m][i].pipe>> \in todo'[t] /\ <<i, dest[m][i].pipe>>[2] = dest[m][i].pipe
    BY <1>3
  <2> QED
    BY <2>1
<1> HIDE DEF write
<1>5. \A i \in DOMAIN dest[m] : /\ More(dest[m][i]).pipe = dest[m][i].pipe
                               /\ More(dest[m][i]).cnt = dest[m][i].cnt + 1
  BY <1>2 DEF More, DestType
<1> HIDE DEF m
<1>6. DOMAIN s = DOMAIN dest[m] /\ \A i \in DOMAIN dest[m] :
        /\ s[i].pipe = dest[m][i].pipe
        /\ s[i].cnt = dest[m][i].cnt \/ (i \in write /\ s[i].cnt = dest[m][i].cnt + 1)
  BY <1>5
<1> HIDE DEF s
<1>7. dest'[n] = IF n = m THEN s ELSE dest[n]
  BY <1>1, <1>3 DEF RoutesOK
<1>8. CASE n = m
  <2>1. msg[t] = m
    BY DEF m
  <2>2. DOMAIN dest'[n] = DOMAIN dest[n]
    BY <1>6, <1>7, <1>8
  <2>3. ASSUME NEW i \in DOMAIN dest[n]
        PROVE  /\ dest'[n][i].pipe = dest[n][i].pipe
               /\ \/ dest'[n][i].cnt = dest[n][i].cnt
                  \/ dest'[n][i].cnt = dest[n][i].cnt + 1 /\ \E w \in todo'[t] : w[2] = dest[n][i].pipe
    BY <1>4, <1>6, <1>7, <1>8
  <2> QED
    BY <1>8, <2>1, <2>2, <2>3
<1> QED
  BY <1>7, <1>8

\* A step that begins no subscription and ends none.
LEMMA SubsFrame ==
  ASSUME SubsCounted, UNCHANGED subsInUse,
         \A m \in MsgIds : /\ DOMAIN dest'[m] = DOMAIN dest[m]
                           /\ \A i \in DOMAIN dest[m] : dest'[m][i].pipe = dest[m][i].pipe
  PROVE  SubsCounted'
<1>1. \A m \in MsgIds, p \in PipeIds :
        (\E i \in DOMAIN dest'[m] : dest'[m][i].pipe = p) <=> \E i \in DOMAIN dest[m] : dest[m][i].pipe = p
  OBVIOUS
<1>2. \A m \in MsgIds, p \in PipeIds : Subscribed(m, p)' <=> Subscribed(m, p)
  BY <1>1 DEF Subscribed, Positions
<1>3. Subscriptions' = Subscriptions
  BY <1>2 DEF Subscriptions
<1> QED
  BY <1>3 DEF SubsCounted

\* One subscription more, or one less.
LEMMA SubscribeSubs ==
  ASSUME IInv, SubsCounted, NEW t \in Tasks, NEW m \in MsgIds, NEW p \in PipeIds,
         Unsubscribe(t, m, p) \/ \E lim \in MsgLims : Subscribe(t, m, p, lim)
  PROVE  SubsCounted'
<1> USE DEF IInv, TypeOK
<1>0. /\ \A n \in MsgIds, q \in PipeIds : Subscribed(n, q) <=> \E i \in DOMAIN dest[n] : dest[n][i].pipe = q
      /\ \A n \in MsgIds, q \in PipeIds : Subscribed(n, q)' <=> \E i \in DOMAIN dest'[n] : dest'[n][i].pipe = q
  BY DEF Subscribed, Positions
<1>1. ASSUME NEW lim \in MsgLims, Subscribe(t, m, p, lim) PROVE SubsCounted'
  <2>1. CASE UNCHANGED <<dest, subsInUse>>
    BY <2>1, SubsFrame
  <2>2. CASE ~ UNCHANGED <<dest, subsInUse>>
    <3>1. /\ ~Subscribed(m, p) /\ dest' = [dest EXCEPT ![m] = <<Dest(p, lim)>> \o @]
          /\ subsInUse' = subsInUse + 1
      BY <1>1, <2>2 DEF Subscribe
    <3>2. Dest(p, lim) \in DestType /\ Dest(p, lim).pipe = p
      BY DepthAssumption DEF Dest, DestType
    <3>3. dest[m] \in Seq(DestType)
      BY DEF RoutesOK
    <3> DEFINE new == <<Dest(p, lim)>> \o dest[m]
    <3>4. /\ DOMAIN dest[m] = 1 .. Len(dest[m]) /\ Len(dest[m]) \in Nat
          /\ DOMAIN new = 1 .. Len(dest[m]) + 1 /\ new[1] = Dest(p, lim)
          /\ \A i \in 1 .. Len(dest[m]) : new[i + 1] = dest[m][i]
      BY <3>2, <3>3
    <3>5. dest' = [dest EXCEPT ![m] = new]
      BY <3>1
    <3> HIDE DEF new
    <3>6. ASSUME NEW q \in PipeIds
          PROVE  (\E i \in DOMAIN new : new[i].pipe = q) <=> q = p \/ \E i \in DOMAIN dest[m] : dest[m][i].pipe = q
      <4>1. ASSUME NEW i \in DOMAIN new, new[i].pipe = q, q # p PROVE \E k \in DOMAIN dest[m] : dest[m][k].pipe = q
        <5>1. i \in 1 .. Len(dest[m]) + 1 /\ i # 1
          BY <3>2, <3>4, <4>1
        <5>2. i - 1 \in 1 .. Len(dest[m]) /\ (i - 1) + 1 = i
          BY <3>4, <5>1
        <5> QED
          BY <3>4, <4>1, <5>2
      <4>2. 1 \in DOMAIN new /\ new[1].pipe = p
        BY <3>2, <3>4
      <4>3. ASSUME NEW k \in DOMAIN dest[m], dest[m][k].pipe = q PROVE \E i \in DOMAIN new : new[i].pipe = q
        <5>1. k + 1 \in DOMAIN new /\ new[k + 1] = dest[m][k]
          BY <3>4
        <5> QED
          BY <4>3, <5>1
      <4> QED
        BY <4>1, <4>2, <4>3
    <3>7. \A n \in MsgIds : dest'[n] = IF n = m THEN new ELSE dest[n]
      BY <3>5 DEF RoutesOK
    <3>8. \A n \in MsgIds, q \in PipeIds : Subscribed(n, q)' <=> Subscribed(n, q) \/ (n = m /\ q = p)
      BY <1>0, <3>6, <3>7
    <3>9. Subscriptions' = Subscriptions \cup {<<m, p>>} /\ <<m, p>> \notin Subscriptions
      BY <3>1, <3>8 DEF Subscriptions
    <3>10. Cardinality(Subscriptions') = Cardinality(Subscriptions) + 1
      BY <3>9, OneMore, StatsCountable
    <3> QED
      BY <3>1, <3>10 DEF SubsCounted
  <2> QED
    BY <2>1, <2>2
<1>2. ASSUME Unsubscribe(t, m, p) PROVE SubsCounted'
  <2> DEFINE left == Without(dest[m], DestPtr(m, p))
  <2>1. Subscribed(m, p) /\ dest' = [dest EXCEPT ![m] = left] /\ subsInUse' = subsInUse - 1
    BY <1>2 DEF Unsubscribe
  <2>2. /\ \A j \in DOMAIN left : left[j].pipe # p /\ \E k \in DOMAIN dest[m] : left[j] = dest[m][k]
        /\ \A k \in DOMAIN dest[m] : dest[m][k].pipe # p => \E j \in DOMAIN left : left[j] = dest[m][k]
    BY <2>1, RouteCut
  <2> HIDE DEF left
  <2>3. \A n \in MsgIds : dest'[n] = IF n = m THEN left ELSE dest[n]
    BY <2>1 DEF RoutesOK
  <2>4. \A n \in MsgIds, q \in PipeIds : Subscribed(n, q)' <=> Subscribed(n, q) /\ ~ (n = m /\ q = p)
    BY <1>0, <2>2, <2>3
  <2>5. Subscriptions' = Subscriptions \ {<<m, p>>} /\ <<m, p>> \in Subscriptions
    BY <2>1, <2>4 DEF Subscriptions
  <2>6. Cardinality(Subscriptions') = Cardinality(Subscriptions) - 1
    BY <2>5, OneFewer, StatsCountable
  <2> QED
    BY <2>1, <2>6 DEF SubsCounted
<1> QED
  BY <1>1, <1>2

\* A pipe that is deleted loses its subscriptions, and they are no longer counted.
LEMMA TearDownSubs ==
  ASSUME IInv, SubsCounted, NEW t \in Tasks, NEW p \in PipeIds, TearDown(t, p)
  PROVE  SubsCounted'
<1> USE DEF IInv, TypeOK
<1> DEFINE gone == {m \in MsgIds : Subscribed(m, p)}
<1>0. /\ \A n \in MsgIds, q \in PipeIds : Subscribed(n, q) <=> \E i \in DOMAIN dest[n] : dest[n][i].pipe = q
      /\ \A n \in MsgIds, q \in PipeIds : Subscribed(n, q)' <=> \E i \in DOMAIN dest'[n] : dest'[n][i].pipe = q
  BY DEF Subscribed, Positions
<1>1. /\ \A m \in MsgIds : dest'[m] = IF m \in gone THEN Without(dest[m], DestPtr(m, p)) ELSE dest[m]
      /\ subsInUse' = subsInUse - Cardinality(gone)
  BY DEF TearDown
<1>2. ASSUME NEW m \in MsgIds, NEW q \in PipeIds PROVE Subscribed(m, q)' <=> Subscribed(m, q) /\ q # p
  <2>1. CASE m \in gone
    <3>1. PICK left : left = Without(dest[m], DestPtr(m, p))
      OBVIOUS
    <3>2. /\ \A j \in DOMAIN left : left[j].pipe # p /\ \E k \in DOMAIN dest[m] : left[j] = dest[m][k]
          /\ \A k \in DOMAIN dest[m] : dest[m][k].pipe # p => \E j \in DOMAIN left : left[j] = dest[m][k]
      BY <2>1, <3>1, RouteCut
    <3>3. dest'[m] = left
      BY <1>1, <2>1, <3>1
    <3> QED
      BY <1>0, <3>2, <3>3
  <2>2. CASE m \notin gone
    BY <1>0, <1>1, <2>2
  <2> QED
    BY <2>1, <2>2
<1>3. Subscriptions' = Subscriptions \ (gone \X {p}) /\ Subscriptions \cap (gone \X {p}) = gone \X {p}
  BY <1>2 DEF Subscriptions
<1>4. Cardinality(gone \X {p}) = Cardinality(gone)
  <2>1. IsFiniteSet(gone) /\ Cardinality(gone) \in Nat
    BY FiniteAssumption, FS_Subset, FS_CardinalityType
  <2>2. IsFiniteSet({p}) /\ Cardinality({p}) = 1
    BY FS_Singleton
  <2> HIDE DEF gone
  <2>3. Cardinality(gone \X {p}) = Cardinality(gone) * Cardinality({p})
    BY <2>1, <2>2, FS_Product
  <2> QED
    BY <2>1, <2>2, <2>3
<1> HIDE DEF gone
<1>5. Cardinality(Subscriptions') = Cardinality(Subscriptions) - Cardinality(gone)
  <2>1. Cardinality(Subscriptions \ (gone \X {p})) = Cardinality(Subscriptions) - Cardinality(Subscriptions \cap (gone \X {p}))
    BY StatsCountable, FS_Difference
  <2> QED
    BY <1>3, <1>4, <2>1
<1> QED
  BY <1>1, <1>5 DEF SubsCounted

\* A route command switches a destination, and counts nothing.
LEMMA SwitchedRoute ==
  ASSUME IInv, NEW m \in MsgIds, NEW p \in PipeIds, NEW on \in BOOLEAN, RouteCmd(m, p, on), NEW n \in MsgIds
  PROVE  /\ DOMAIN dest'[n] = DOMAIN dest[n]
         /\ \A i \in DOMAIN dest[n] : dest'[n][i].pipe = dest[n][i].pipe /\ dest'[n][i].cnt = dest[n][i].cnt
<1> USE DEF IInv, TypeOK
<1> DEFINE k == DestPtr(m, p)
           d == [dest[m][k] EXCEPT !.active = on]
           s == [dest[m] EXCEPT ![k] = d]
<1>1. k \in DOMAIN dest[m] /\ dest[m] \in Seq(DestType)
  BY DestPtrFound DEF RouteCmd, RoutesOK
<1>2. dest[m][k] \in DestType
  BY <1>1
<1>3. d.pipe = dest[m][k].pipe /\ d.cnt = dest[m][k].cnt
  BY <1>2 DEF DestType
<1>4. dest' = [dest EXCEPT ![m] = s]
  BY DEF RouteCmd
<1> HIDE DEF k, d
<1>5. DOMAIN s = DOMAIN dest[m] /\ \A i \in DOMAIN dest[m] : s[i].pipe = dest[m][i].pipe /\ s[i].cnt = dest[m][i].cnt
  BY <1>1, <1>3
<1> HIDE DEF s
<1>6. dest'[n] = IF n = m THEN s ELSE dest[n]
  BY <1>4 DEF RoutesOK
<1> QED
  BY <1>5, <1>6

\* The number of subscriptions is right.
LEMMA SubsCountedNext ==
  IInv /\ CallInv /\ SubsCounted /\ [Next]_vars => SubsCounted'
<1> SUFFICES ASSUME IInv, CallInv, SubsCounted, [Next]_vars PROVE SubsCounted'
  OBVIOUS
<1> USE DEF IInv, TypeOK
<1>1. ASSUME UNCHANGED <<dest, subsInUse>> PROVE SubsCounted'
  BY <1>1, SubsFrame
<1>2. ASSUME NEW m, NEW p, dest' = CountDown(m, p), UNCHANGED subsInUse PROVE SubsCounted'
  BY <1>2, CountDownType, SubsFrame
<1>3. ASSUME NEW t \in Tasks, CallBegins(t) PROVE SubsCounted'
  <2>1. ASSUME AllocateBegin(t) \/ ReleaseBuffer(t) \/ Exit(t) \/ CreateReserve(t) \/ \E m \in MsgIds : TransmitBuffer(t, m)
        PROVE SubsCounted'
    BY <1>1, <2>1 DEF AllocateBegin, ReleaseBuffer, Exit, CreateReserve, TransmitBuffer, routeVars
  <2>2. ASSUME NEW p \in PipeIds, DeleteBegin(t, p) PROVE SubsCounted'
    BY <2>2, TearDownSubs DEF DeleteBegin
  <2>3. ASSUME NEW p \in PipeIds, ReceiveBegin(t, p) PROVE SubsCounted'
    BY <1>1, <2>3 DEF ReceiveBegin, SetPipeId, routeVars
  <2>4. ASSUME NEW p \in PipeIds, NEW on \in BOOLEAN, SetPipeOpts(t, p, on) PROVE SubsCounted'
    BY <1>1, <2>4 DEF SetPipeOpts, routeVars
  <2>5. ASSUME NEW p \in PipeIds, NEW m \in MsgIds,
               Unsubscribe(t, m, p) \/ \E lim \in MsgLims : Subscribe(t, m, p, lim)
        PROVE SubsCounted'
    BY <2>5, SubscribeSubs
  <2> QED
    BY <1>3, <2>1, <2>2, <2>3, <2>4, <2>5 DEF CallBegins
<1>4. ASSUME NEW t \in Tasks, FindDestinations(t) PROVE SubsCounted'
  <2>1. \A n \in MsgIds : /\ DOMAIN dest'[n] = DOMAIN dest[n]
                          /\ \A i \in DOMAIN dest[n] : dest'[n][i].pipe = dest[n][i].pipe
    BY <1>4, CountedUp
  <2> QED
    BY <1>4, <2>1, SubsFrame DEF FindDestinations
<1>5. ASSUME NEW t \in Tasks, Proceed(t) \/ ReceiveNothing(t) PROVE SubsCounted'
  <2>1. ASSUME CreateQueue(t) \/ CreateFinish(t) \/ CreateAbort(t) \/ DrainRelease(t) \/ DrainGet(t)
               \/ QueueDelete(t) \/ DeleteFinish(t) \/ Allocate(t)
        PROVE SubsCounted'
    BY <1>1, <2>1 DEF CreateQueue, CreateFinish, CreateAbort, DrainRelease, DrainGet, QueueDelete,
                      DeleteFinish, Allocate, routeVars
  <2>2. ASSUME QueuePut(t) \/ TransmitDone(t) \/ QueueGet(t) \/ ReceiveAccept(t) \/ ReceiveReject(t) \/ ReceiveNothing(t)
        PROVE SubsCounted'
    BY <1>1, <2>2 DEF QueuePut, TransmitDone, QueueGet, ReceiveAccept, ReceiveReject, SetPipeId, ReceiveNothing, routeVars
  <2>3. ASSUME UndoPut(t) \/ ExportReference(t) PROVE SubsCounted'
    BY <1>1, <1>2, <2>3 DEF UndoPut, ExportReference
  <2> QED
    BY <1>4, <1>5, <2>1, <2>2, <2>3 DEF Proceed
<1>6. ASSUME CleanUp PROVE SubsCounted'
  <2>1. ASSUME (\E a \in Apps : CleanUpBegin(a)) \/ CleanUpList \/ CleanUpZeroCopy \/ CleanUpTasks PROVE SubsCounted'
    BY <1>1, <2>1 DEF CleanUpBegin, CleanUpList, CleanUpZeroCopy, CleanUpTasks, routeVars
  <2>2. ASSUME NEW p \in delList, CleanUpPipe(p) PROVE SubsCounted'
    BY <1>1, <2>2, TaskAssumption, TearDownSubs DEF CleanUpPipe, Match, routeVars
  <2> QED
    BY <1>6, <2>1, <2>2 DEF CleanUp
<1>7. ASSUME NEW m \in MsgIds, NEW p \in PipeIds, NEW on \in BOOLEAN, RouteCmd(m, p, on) PROVE SubsCounted'
  BY <1>7, SwitchedRoute, SubsFrame DEF RouteCmd
<1>8. ASSUME UNCHANGED vars PROVE SubsCounted'
  BY <1>1, <1>8 DEF vars, routeVars
<1> QED
  BY <1>3, <1>5, <1>6, <1>7, <1>8 DEF Next

-----------------------------------------------------------------------------
(* The messages on their way to a pipe                                     *)

\* What is on its way to a pipe is finite.
LEMMA OutCountable ==
  ASSUME QueuesOK, NEW p \in PipeIds, NEW B
  PROVE  \A S \in {Queued(p, B), Writers(p, B), Failing(p, B), Readers(p, B)} :
           IsFiniteSet(S) /\ Cardinality(S) \in Nat /\ (Cardinality(S) = 0 <=> S = {})
<1>1. IsFiniteSet(Tasks) /\ DOMAIN queue[p] = 1 .. Len(queue[p]) /\ IsFiniteSet(1 .. Len(queue[p]))
  BY FiniteAssumption, FS_Interval DEF QueuesOK
<1>2. /\ Queued(p, B) \in SUBSET (1 .. Len(queue[p])) /\ Writers(p, B) \in SUBSET Tasks
      /\ Failing(p, B) \in SUBSET Tasks /\ Readers(p, B) \in SUBSET Tasks
  BY <1>1 DEF Queued, Writers, Failing, Readers
<1>3. IsFiniteSet(Queued(p, B)) /\ IsFiniteSet(Writers(p, B)) /\ IsFiniteSet(Failing(p, B)) /\ IsFiniteSet(Readers(p, B))
  BY <1>1, <1>2, FS_Subset
<1>4. \A S : IsFiniteSet(S) => Cardinality(S) \in Nat /\ (Cardinality(S) = 0 <=> S = {})
  BY FS_CardinalityType, FS_EmptySet
<1> QED
  BY <1>3, <1>4

\* The same, after a step.
LEMMA OutCountableNext ==
  ASSUME QueuesOK', NEW p \in PipeIds, NEW B
  PROVE  \A S \in {Queued(p, B)', Writers(p, B)', Failing(p, B)', Readers(p, B)'} :
           IsFiniteSet(S) /\ Cardinality(S) \in Nat /\ (Cardinality(S) = 0 <=> S = {})
<1>1. IsFiniteSet(Tasks) /\ DOMAIN queue'[p] = 1 .. Len(queue'[p]) /\ IsFiniteSet(1 .. Len(queue'[p]))
  BY FiniteAssumption, FS_Interval DEF QueuesOK
<1>2. /\ Queued(p, B)' \in SUBSET (1 .. Len(queue'[p])) /\ Writers(p, B)' \in SUBSET Tasks
      /\ Failing(p, B)' \in SUBSET Tasks /\ Readers(p, B)' \in SUBSET Tasks
  BY <1>1 DEF Queued, Writers, Failing, Readers
<1>3. IsFiniteSet(Queued(p, B)') /\ IsFiniteSet(Writers(p, B)') /\ IsFiniteSet(Failing(p, B)') /\ IsFiniteSet(Readers(p, B)')
  BY <1>1, <1>2, FS_Subset
<1>4. \A S : IsFiniteSet(S) => Cardinality(S) \in Nat /\ (Cardinality(S) = 0 <=> S = {})
  BY FS_CardinalityType, FS_EmptySet
<1> QED
  BY <1>3, <1>4

\* There is never less than nothing on its way.
LEMMA OutType ==
  ASSUME QueuesOK, NEW p \in PipeIds, NEW B
  PROVE  Outstanding(p, B) \in Nat
<1>1. /\ Cardinality(Queued(p, B)) \in Nat /\ Cardinality(Writers(p, B)) \in Nat
      /\ Cardinality(Failing(p, B)) \in Nat /\ Cardinality(Readers(p, B)) \in Nat
  BY OutCountable
<1> QED
  BY <1>1 DEF Outstanding

\* Nor after a step.
LEMMA OutTypeNext ==
  ASSUME QueuesOK', NEW p \in PipeIds, NEW B
  PROVE  Outstanding(p, B)' \in Nat
<1>1. /\ Cardinality(Queued(p, B)') \in Nat /\ Cardinality(Writers(p, B)') \in Nat
      /\ Cardinality(Failing(p, B)') \in Nat /\ Cardinality(Readers(p, B)') \in Nat
  BY OutCountableNext
<1> QED
  BY <1>1 DEF Outstanding

\* A step that leaves the four kinds of messages on their way as they are.
LEMMA OutKept ==
  ASSUME NEW p \in PipeIds, NEW B, queue'[p] = queue[p],
         \A u \in Tasks : /\ Pending(u, p)' /\ own'[u] \in B <=> Pending(u, p) /\ own[u] \in B
                          /\ pc'[u] = "tx_undo" /\ pid'[u] = p /\ own'[u] \in B
                             <=> pc[u] = "tx_undo" /\ pid[u] = p /\ own[u] \in B
                          /\ pc'[u] = "rx_export" /\ pid'[u] = p /\ got'[u] \in B
                             <=> pc[u] = "rx_export" /\ pid[u] = p /\ got[u] \in B
  PROVE  Outstanding(p, B)' = Outstanding(p, B)
<1>1. /\ Queued(p, B)' = Queued(p, B) /\ Writers(p, B)' = Writers(p, B)
      /\ Failing(p, B)' = Failing(p, B) /\ Readers(p, B)' = Readers(p, B)
  BY DEF Queued, Writers, Failing, Readers
<1> QED
  BY <1>1 DEF Outstanding

\* A step of a task that has nothing on its way before it, and nothing after it.
LEMMA OutFrame ==
  ASSUME NEW t \in Tasks, UNCHANGED queue,
         \A u \in Tasks : u # t => UNCHANGED <<pc[u], pid[u], own[u], got[u], todo[u]>>,
         todo[t] = {} /\ pc[t] \notin {"tx_undo", "rx_export"},
         todo'[t] = {} /\ pc'[t] \notin {"tx_undo", "rx_export"}
  PROVE  \A p \in PipeIds, B \in SUBSET Bufs : Outstanding(p, B)' = Outstanding(p, B)
<1> SUFFICES ASSUME NEW p \in PipeIds, NEW B \in SUBSET Bufs PROVE Outstanding(p, B)' = Outstanding(p, B)
  OBVIOUS
<1>1. ~Pending(t, p) /\ ~Pending(t, p)' /\ \A u \in Tasks : u # t => (Pending(u, p)' <=> Pending(u, p))
  BY DEF Pending
<1> QED
  BY <1>1, OutKept

\* Which buffers hold message m does not depend on one that nothing is doing with.
LEMMA OutElsewhere ==
  ASSUME QueuesOK, LengthOK, NEW c \in Bufs, PlacesOf(c) = {}, WritesOf(c) = {}, FailedOf(c) = {}, ReadBy(c) = {},
         NEW p \in PipeIds, NEW B, NEW C, \A b : b # c => (b \in B <=> b \in C)
  PROVE  Outstanding(p, B) = Outstanding(p, C)
<1>1. \A i \in DOMAIN queue[p] : queue[p][i] # c
  <2>1. queue[p] \in Seq(Bufs) /\ Len(queue[p]) <= MaxDepth
    BY DEF QueuesOK, LengthOK
  <2>2. \A i \in DOMAIN queue[p] : i \in 1 .. MaxDepth /\ i <= Len(queue[p])
    BY <2>1, DepthAssumption
  <2>3. ASSUME NEW i \in DOMAIN queue[p], queue[p][i] = c PROVE FALSE
    <3>1. i \in 1 .. MaxDepth /\ i <= Len(queue[p])
      BY <2>2
    <3>2. PICK x \in PipeIds \X (1 .. MaxDepth) : x[1] = p /\ x[2] = i
      <4>1. <<p, i>> \in PipeIds \X (1 .. MaxDepth) /\ <<p, i>>[1] = p /\ <<p, i>>[2] = i
        BY <3>1
      <4> QED
        BY <4>1
    <3>3. x \in PlacesOf(c)
      BY <2>3, <3>1, <3>2 DEF PlacesOf
    <3> QED
      BY <3>3
  <2> QED
    BY <2>3
<1>2. ASSUME NEW u \in Tasks
      PROVE  (Pending(u, p) => own[u] # c) /\ (pc[u] = "tx_undo" => own[u] # c) /\ got[u] # c
  <2>1. <<u, p>> \notin WritesOf(c)
    OBVIOUS
  <2>2. Pending(u, p) => own[u] # c
    BY <2>1 DEF WritesOf
  <2> QED
    BY <2>2 DEF FailedOf, ReadBy
<1>3. /\ Queued(p, B) = Queued(p, C) /\ Writers(p, B) = Writers(p, C)
      /\ Failing(p, B) = Failing(p, C) /\ Readers(p, B) = Readers(p, C)
  BY <1>1, <1>2 DEF Queued, Writers, Failing, Readers
<1> QED
  BY <1>3 DEF Outstanding

\* The messages that move from one place to another.
LEMMA TailCount ==
  ASSUME NEW s \in Seq(Bufs), s # <<>>, NEW B
  PROVE  Cardinality({i \in DOMAIN Tail(s) : Tail(s)[i] \in B})
           = Cardinality({i \in DOMAIN s : s[i] \in B}) - (IF Head(s) \in B THEN 1 ELSE 0)
<1> DEFINE A == {i \in DOMAIN Tail(s) : Tail(s)[i] \in B}
           C == {i \in DOMAIN s : s[i] \in B}
           up == [i \in A |-> i + 1]
<1>1. /\ DOMAIN s = 1 .. Len(s) /\ Len(s) \in Nat /\ Len(s) > 0 /\ DOMAIN Tail(s) = 1 .. Len(s) - 1
      /\ \A i \in DOMAIN Tail(s) : Tail(s)[i] = s[i + 1]
      /\ Head(s) = s[1]
  OBVIOUS
<1>2. A \subseteq 1 .. Len(s) - 1 /\ C \subseteq 1 .. Len(s)
  BY <1>1
<1>3. IsFiniteSet(A) /\ IsFiniteSet(C)
  <2>1. IsFiniteSet(1 .. Len(s) - 1) /\ IsFiniteSet(1 .. Len(s))
    BY <1>1, FS_Interval
  <2> QED
    BY <1>2, <2>1, FS_Subset
<1>4. \A i \in A : i \in Nat /\ i + 1 \in C /\ i + 1 # 1
  BY <1>1
<1>5. \A j \in C : j # 1 => j - 1 \in A /\ (j - 1) + 1 = j
  BY <1>1
<1>6. 1 \in C <=> Head(s) \in B
  BY <1>1
<1> HIDE DEF A, C
<1>7. up \in Bijection(A, C \ {1})
  <2>1. up \in [A -> C \ {1}]
    BY <1>4
  <2>2. \A i, j \in A : up[i] = up[j] => i = j
    BY <1>4
  <2>3. \A j \in C \ {1} : \E i \in A : up[i] = j
    BY <1>5
  <2> HIDE DEF up
  <2> QED
    BY <2>1, <2>2, <2>3 DEF Bijection, Injection, Surjection, IsInjective
<1>8. Cardinality(A) = Cardinality(C \ {1})
  BY <1>3, <1>7, FS_Bijection DEF ExistsBijection
<1>9. CASE Head(s) \in B
  <2>1. Cardinality(C \ {1}) = Cardinality(C) - 1
    BY <1>3, <1>6, <1>9, OneFewer
  <2> QED
    BY <1>8, <1>9, <2>1 DEF A, C
<1>10. CASE Head(s) \notin B
  <2>1. C \ {1} = C /\ Cardinality(C) \in Nat
    BY <1>3, <1>6, <1>10, FS_CardinalityType
  <2>2. Cardinality(A) = Cardinality(C)
    BY <1>8, <2>1, Zenon
  <2>3. Cardinality(A) = Cardinality(C) - 0
    BY <2>1, <2>2
  <2> QED
    BY <1>10, <2>3 DEF A, C
<1> QED
  BY <1>9, <1>10

\* A message appended is one more.
LEMMA AppendCount ==
  ASSUME NEW s \in Seq(Bufs), NEW c \in Bufs, NEW B
  PROVE  Cardinality({i \in DOMAIN Append(s, c) : Append(s, c)[i] \in B})
           = Cardinality({i \in DOMAIN s : s[i] \in B}) + (IF c \in B THEN 1 ELSE 0)
<1> DEFINE A == {i \in DOMAIN Append(s, c) : Append(s, c)[i] \in B}
           C == {i \in DOMAIN s : s[i] \in B}
           n == Len(s) + 1
<1>1. /\ DOMAIN s = 1 .. Len(s) /\ Len(s) \in Nat /\ DOMAIN Append(s, c) = 1 .. n
      /\ \A i \in 1 .. n : Append(s, c)[i] = IF i = n THEN c ELSE s[i]
  OBVIOUS
<1>2. IsFiniteSet(C) /\ Cardinality(C) \in Nat
  <2>1. IsFiniteSet(1 .. Len(s)) /\ C \subseteq 1 .. Len(s)
    BY <1>1, FS_Interval
  <2> QED
    BY <2>1, FS_Subset, FS_CardinalityType
<1>3. n \notin C /\ A = IF c \in B THEN C \cup {n} ELSE C
  BY <1>1
<1> HIDE DEF A, C, n
<1>4. CASE c \in B
  <2>1. Cardinality(A) = Cardinality(C) + 1
    BY <1>2, <1>3, <1>4, OneMore
  <2> QED
    BY <1>4, <2>1 DEF A, C
<1>5. CASE c \notin B
  <2>1. Cardinality(A) = Cardinality(C) + 0
    BY <1>2, <1>3, <1>5
  <2> QED
    BY <1>5, <2>1 DEF A, C
<1> QED
  BY <1>4, <1>5

\* A message taken from its queue by a reader is still on its way.
LEMMA QueueGetOut ==
  ASSUME IInv, CallInv, NEW t \in Tasks, QueueGet(t)
  PROVE  \A p \in PipeIds, B \in SUBSET Bufs : Outstanding(p, B)' = Outstanding(p, B)
<1> USE DEF IInv, TypeOK, CallInv
<1> SUFFICES ASSUME NEW p \in PipeIds, NEW B \in SUBSET Bufs PROVE Outstanding(p, B)' = Outstanding(p, B)
  OBVIOUS
<1>1. /\ pc[t] = "rx_get" /\ pid[t] \in PipeIds /\ queue[pid[t]] # <<>>
      /\ got' = [got EXCEPT ![t] = Head(queue[pid[t]])] /\ queue' = [queue EXCEPT ![pid[t]] = Tail(@)]
      /\ pc' = [pc EXCEPT ![t] = "rx_export"] /\ UNCHANGED <<pid, own, todo>>
  BY DEF QueueGet, RunningHasPipe, Receiving, GoTo
<1>2. Writers(p, B)' = Writers(p, B) /\ Failing(p, B)' = Failing(p, B)
  BY <1>1 DEF Writers, Failing, Pending, TasksOK
<1>3. CASE p = pid[t]
  <2> DEFINE h == IF Head(queue[p]) \in B THEN 1 ELSE 0
  <2>1. queue[p] \in Seq(Bufs) /\ queue[p] # <<>> /\ queue'[p] = Tail(queue[p])
    BY <1>1, <1>3 DEF QueuesOK
  <2>2. /\ Queued(p, B) = {i \in DOMAIN queue[p] : queue[p][i] \in B}
        /\ Queued(p, B)' = {i \in DOMAIN Tail(queue[p]) : Tail(queue[p])[i] \in B}
    BY <2>1 DEF Queued
  <2>3. Cardinality(Queued(p, B)') = Cardinality(Queued(p, B)) - h
    <3>1. PICK s \in Seq(Bufs) : s = queue[p]
      BY <2>1
    <3>2. Cardinality({i \in DOMAIN Tail(s) : Tail(s)[i] \in B})
            = Cardinality({i \in DOMAIN s : s[i] \in B}) - (IF Head(s) \in B THEN 1 ELSE 0)
      BY <2>1, <3>1, TailCount
    <3> QED
      BY <2>2, <3>1, <3>2
  <2>4. Cardinality(Readers(p, B)') = Cardinality(Readers(p, B)) + h
    <3>1. CASE Head(queue[p]) \in B
      <4>1. Readers(p, B)' = Readers(p, B) \cup {t} /\ t \notin Readers(p, B)
        BY <1>1, <1>3, <3>1 DEF Readers, TasksOK
      <4>2. Cardinality(Readers(p, B)') = Cardinality(Readers(p, B)) + 1
        BY <4>1, OneMore, OutCountable
      <4> QED
        BY <3>1, <4>2
    <3>2. CASE Head(queue[p]) \notin B
      <4>1. Readers(p, B)' = Readers(p, B)
        BY <1>1, <1>3, <3>2 DEF Readers, TasksOK
      <4>2. Cardinality(Readers(p, B)') = Cardinality(Readers(p, B)) + 0
        BY <4>1, OutCountable
      <4> QED
        BY <3>2, <4>2
    <3> QED
      BY <3>1, <3>2
  <2>5. h \in Int
    OBVIOUS
  <2> HIDE DEF h
  <2>6. /\ Cardinality(Queued(p, B)) \in Nat /\ Cardinality(Writers(p, B)) \in Nat
        /\ Cardinality(Failing(p, B)) \in Nat /\ Cardinality(Readers(p, B)) \in Nat
    BY OutCountable
  <2>7. /\ Cardinality(Writers(p, B)') = Cardinality(Writers(p, B))
        /\ Cardinality(Failing(p, B)') = Cardinality(Failing(p, B))
    BY <1>2
  <2> QED
    BY <2>3, <2>4, <2>5, <2>6, <2>7 DEF Outstanding
<1>4. CASE p # pid[t]
  <2>1. queue'[p] = queue[p]
    BY <1>1, <1>4 DEF QueuesOK
  <2>2. Queued(p, B)' = Queued(p, B) /\ Readers(p, B)' = Readers(p, B)
    BY <1>1, <1>4, <2>1 DEF Queued, Readers, TasksOK
  <2> QED
    BY <1>2, <2>2 DEF Outstanding
<1> QED
  BY <1>3, <1>4

\* A message that is written, or that cannot be, is still on its way.
LEMMA QueuePutOut ==
  ASSUME IInv, CallInv, NEW t \in Tasks, QueuePut(t)
  PROVE  \A p \in PipeIds, B \in SUBSET Bufs : Outstanding(p, B)' = Outstanding(p, B)
<1> USE DEF IInv, TypeOK, CallInv
<1> SUFFICES ASSUME NEW p \in PipeIds, NEW B \in SUBSET Bufs PROVE Outstanding(p, B)' = Outstanding(p, B)
  OBVIOUS
<1>1. pc[t] = "tx_put" /\ todo[t] # {} /\ own[t] \in Bufs /\ UNCHANGED <<own, got>>
  BY DEF QueuePut, SendingHasBuffer, Sending
<1>2. NextWrite(t) \in todo[t] /\ NextWrite(t)[2] \in PipeIds
  BY <1>1, NextWriteFound
<1> PICK c \in Bufs : own[t] = c
  BY <1>1
<1> PICK w \in todo[t] : w = NextWrite(t)
  BY <1>2
<1>3. todo' = [todo EXCEPT ![t] = @ \ {w}] /\ w[2] \in PipeIds
  BY <1>2 DEF QueuePut
<1>4. \A v \in todo[t] : v[2] = w[2] => v = w
  BY DEF CallsOK, CallOK
<1>5. \A u \in Tasks : Pending(u, p)' <=> Pending(u, p) /\ ~ (u = t /\ p = w[2])
  BY <1>3, <1>4 DEF Pending, TasksOK
<1>6. p = w[2] => Pending(t, p)
  BY DEF Pending
<1>7. UNCHANGED pid \/ pid' = [pid EXCEPT ![t] = w[2]]
  BY DEF QueuePut
<1>8. pc' = pc \/ pc' = [pc EXCEPT ![t] = "tx_undo"]
  BY DEF QueuePut, GoTo
<1>9. Readers(p, B)' = Readers(p, B)
  BY <1>1, <1>7, <1>8 DEF Readers, TasksOK
<1>10. CASE p = w[2]
  <2> DEFINE h == IF c \in B THEN 1 ELSE 0
  <2>1. Cardinality(Writers(p, B)') = Cardinality(Writers(p, B)) - h
    <3>1. CASE c \in B
      <4>1. Writers(p, B)' = Writers(p, B) \ {t} /\ t \in Writers(p, B)
        BY <1>1, <1>5, <1>6, <1>10, <3>1 DEF Writers
      <4>2. Cardinality(Writers(p, B)') = Cardinality(Writers(p, B)) - 1
        BY <4>1, OneFewer, OutCountable
      <4> QED
        BY <3>1, <4>2
    <3>2. CASE c \notin B
      <4>1. Writers(p, B)' = Writers(p, B)
        BY <1>1, <1>5, <3>2 DEF Writers
      <4>2. Cardinality(Writers(p, B)') = Cardinality(Writers(p, B)) - 0
        BY <4>1, OutCountable
      <4> QED
        BY <3>2, <4>2
    <3> QED
      BY <3>1, <3>2
  <2>2. CASE Len(queue[p]) < qcap[p]
    <3>1. queue' = [queue EXCEPT ![p] = Append(@, c)] /\ UNCHANGED <<pc, pid>>
      BY <1>10, <2>2 DEF QueuePut
    <3>2. queue[p] \in Seq(Bufs) /\ queue'[p] = Append(queue[p], c)
      BY <3>1 DEF QueuesOK
    <3>3. /\ Queued(p, B) = {i \in DOMAIN queue[p] : queue[p][i] \in B}
          /\ Queued(p, B)' = {i \in DOMAIN Append(queue[p], c) : Append(queue[p], c)[i] \in B}
      BY <3>2 DEF Queued
    <3>4. Cardinality(Queued(p, B)') = Cardinality(Queued(p, B)) + h
      <4>1. PICK s \in Seq(Bufs) : s = queue[p]
        BY <3>2
      <4>2. Cardinality({i \in DOMAIN Append(s, c) : Append(s, c)[i] \in B})
              = Cardinality({i \in DOMAIN s : s[i] \in B}) + h
        BY AppendCount
      <4> HIDE DEF h
      <4> QED
        BY <3>3, <4>1, <4>2
    <3>5. Failing(p, B)' = Failing(p, B)
      BY <1>1, <3>1 DEF Failing
    <3>6. /\ Cardinality(Queued(p, B)) \in Nat /\ Cardinality(Writers(p, B)) \in Nat
          /\ Cardinality(Failing(p, B)) \in Nat /\ Cardinality(Readers(p, B)) \in Nat
      BY OutCountable
    <3>7. h \in Int
      OBVIOUS
    <3> HIDE DEF h
    <3> QED
      BY <1>9, <2>1, <3>4, <3>5, <3>6, <3>7 DEF Outstanding
  <2>3. CASE ~ (Len(queue[p]) < qcap[p])
    <3>1. pc' = [pc EXCEPT ![t] = "tx_undo"] /\ pid' = [pid EXCEPT ![t] = p] /\ UNCHANGED queue
      BY <1>10, <2>3 DEF QueuePut, GoTo
    <3>2. Queued(p, B)' = Queued(p, B)
      BY <3>1 DEF Queued
    <3>3. Cardinality(Failing(p, B)') = Cardinality(Failing(p, B)) + h
      <4>1. CASE c \in B
        <5>1. Failing(p, B)' = Failing(p, B) \cup {t} /\ t \notin Failing(p, B)
          BY <1>1, <3>1, <4>1 DEF Failing, TasksOK
        <5>2. Cardinality(Failing(p, B)') = Cardinality(Failing(p, B)) + 1
          BY <5>1, OneMore, OutCountable
        <5> QED
          BY <4>1, <5>2
      <4>2. CASE c \notin B
        <5>1. Failing(p, B)' = Failing(p, B)
          BY <1>1, <3>1, <4>2 DEF Failing, TasksOK
        <5>2. Cardinality(Failing(p, B)') = Cardinality(Failing(p, B)) + 0
          BY <5>1, OutCountable
        <5> QED
          BY <4>2, <5>2
      <4> QED
        BY <4>1, <4>2
    <3>6. /\ Cardinality(Queued(p, B)) \in Nat /\ Cardinality(Writers(p, B)) \in Nat
          /\ Cardinality(Failing(p, B)) \in Nat /\ Cardinality(Readers(p, B)) \in Nat
      BY OutCountable
    <3>7. h \in Int
      OBVIOUS
    <3> HIDE DEF h
    <3> QED
      BY <1>9, <2>1, <3>2, <3>3, <3>6, <3>7 DEF Outstanding
  <2> QED
    BY <2>2, <2>3
<1>11. CASE p # w[2]
  <2>1. queue'[p] = queue[p]
    BY <1>11 DEF QueuePut, QueuesOK
  <2>2. Queued(p, B)' = Queued(p, B)
    BY <2>1 DEF Queued
  <2>3. Writers(p, B)' = Writers(p, B)
    BY <1>1, <1>5, <1>11 DEF Writers
  <2>4. Failing(p, B)' = Failing(p, B)
    BY <1>1, <1>11 DEF QueuePut, GoTo, Failing, TasksOK
  <2> QED
    BY <1>9, <2>2, <2>3, <2>4 DEF Outstanding
<1> QED
  BY <1>10, <1>11

\* A write that is taken back is no longer on its way.
LEMMA UndoPutOut ==
  ASSUME IInv, CallInv, NEW t \in Tasks, UndoPut(t), NEW p \in PipeIds, NEW B \in SUBSET Bufs
  PROVE  /\ pid[t] = p /\ own[t] \in B =>
              Outstanding(p, B) > 0 /\ Outstanding(p, B)' = Outstanding(p, B) - 1
         /\ ~ (pid[t] = p /\ own[t] \in B) => Outstanding(p, B)' = Outstanding(p, B)
<1> USE DEF IInv, TypeOK, CallInv
<1>1. /\ pc[t] = "tx_undo" /\ pc' = [pc EXCEPT ![t] = "tx_put"] /\ pid' = [pid EXCEPT ![t] = FREE]
      /\ UNCHANGED <<queue, own, got, todo>>
  BY DEF UndoPut, GoTo, queueVars
<1>2. /\ Queued(p, B)' = Queued(p, B) /\ Writers(p, B)' = Writers(p, B) /\ Readers(p, B)' = Readers(p, B)
  BY <1>1 DEF Queued, Writers, Readers, Pending, TasksOK
<1>3. /\ Cardinality(Queued(p, B)) \in Nat /\ Cardinality(Writers(p, B)) \in Nat
      /\ Cardinality(Failing(p, B)) \in Nat /\ Cardinality(Readers(p, B)) \in Nat
  BY OutCountable
<1>4. CASE pid[t] = p /\ own[t] \in B
  <2>1. Failing(p, B)' = Failing(p, B) \ {t} /\ t \in Failing(p, B)
    BY <1>1, <1>4 DEF Failing, TasksOK
  <2>2. Cardinality(Failing(p, B)') = Cardinality(Failing(p, B)) - 1
    BY <2>1, OneFewer, OutCountable
  <2>3. Cardinality(Failing(p, B)) # 0
    BY <2>1, OutCountable
  <2> QED
    BY <1>2, <1>3, <1>4, <2>2, <2>3 DEF Outstanding
<1>5. CASE ~ (pid[t] = p /\ own[t] \in B)
  <2>1. Failing(p, B)' = Failing(p, B)
    BY <1>1, <1>5 DEF Failing, TasksOK
  <2> QED
    BY <1>2, <1>5, <2>1 DEF Outstanding
<1> QED
  BY <1>4, <1>5

\* A message that has been read and accounted for is no longer on its way.
LEMMA ExportOut ==
  ASSUME IInv, CallInv, NEW t \in Tasks, ExportReference(t), NEW p \in PipeIds, NEW B \in SUBSET Bufs
  PROVE  /\ pid[t] = p /\ got[t] \in B =>
              Outstanding(p, B) > 0 /\ Outstanding(p, B)' = Outstanding(p, B) - 1
         /\ ~ (pid[t] = p /\ got[t] \in B) => Outstanding(p, B)' = Outstanding(p, B)
<1> USE DEF IInv, TypeOK, CallInv
<1>1. /\ pc[t] = "rx_export" /\ got' = [got EXCEPT ![t] = NoBuf]
      /\ \E l \in {"rx_verify", "idle"} : pc' = [pc EXCEPT ![t] = l]
      /\ pid' = pid \/ pid' = [pid EXCEPT ![t] = FREE]
      /\ UNCHANGED <<queue, own, todo>>
  BY DEF ExportReference, GoTo, queueVars
<1>2. /\ Queued(p, B)' = Queued(p, B) /\ Writers(p, B)' = Writers(p, B) /\ Failing(p, B)' = Failing(p, B)
  BY <1>1 DEF Queued, Writers, Failing, Pending, TasksOK
<1>3. /\ Cardinality(Queued(p, B)) \in Nat /\ Cardinality(Writers(p, B)) \in Nat
      /\ Cardinality(Failing(p, B)) \in Nat /\ Cardinality(Readers(p, B)) \in Nat
  BY OutCountable
<1>4. CASE pid[t] = p /\ got[t] \in B
  <2>1. Readers(p, B)' = Readers(p, B) \ {t} /\ t \in Readers(p, B)
    BY <1>1, <1>4 DEF Readers, TasksOK
  <2>2. Cardinality(Readers(p, B)') = Cardinality(Readers(p, B)) - 1
    BY <2>1, OneFewer, OutCountable
  <2>3. Cardinality(Readers(p, B)) # 0
    BY <2>1, OutCountable
  <2> QED
    BY <1>2, <1>3, <1>4, <2>2, <2>3 DEF Outstanding
<1>5. CASE ~ (pid[t] = p /\ got[t] \in B)
  <2>1. Readers(p, B)' = Readers(p, B)
    BY <1>1, <1>5 DEF Readers, TasksOK
  <2> QED
    BY <1>2, <1>5, <2>1 DEF Outstanding
<1> QED
  BY <1>4, <1>5

\* A message that is sent is on its way to each of the pipes it is to be written to.
LEMMA FindOut ==
  ASSUME IInv, CallInv, NEW t \in Tasks, FindDestinations(t), NEW p \in PipeIds, NEW B \in SUBSET Bufs
  PROVE  /\ own[t] \in B /\ (\E w \in todo'[t] : w[2] = p) => Outstanding(p, B)' = Outstanding(p, B) + 1
         /\ ~ (own[t] \in B /\ \E w \in todo'[t] : w[2] = p) => Outstanding(p, B)' = Outstanding(p, B)
<1> USE DEF IInv, TypeOK, CallInv
<1>1. /\ pc[t] = "tx_find" /\ pc' = [pc EXCEPT ![t] = "tx_put"] /\ todo[t] = {}
      /\ \A u \in Tasks : u # t => todo'[u] = todo[u]
      /\ UNCHANGED <<queue, own, got, pid>>
  BY DEF FindDestinations, GoTo, queueVars, CallsOK, CallOK, Writing, TasksOK
<1>2. /\ Queued(p, B)' = Queued(p, B) /\ Failing(p, B)' = Failing(p, B) /\ Readers(p, B)' = Readers(p, B)
  BY <1>1 DEF Queued, Failing, Readers, TasksOK
<1>3. /\ Cardinality(Queued(p, B)) \in Nat /\ Cardinality(Writers(p, B)) \in Nat
      /\ Cardinality(Failing(p, B)) \in Nat /\ Cardinality(Readers(p, B)) \in Nat
  BY OutCountable
<1>4. /\ ~Pending(t, p) /\ (Pending(t, p)' <=> \E w \in todo'[t] : w[2] = p)
      /\ \A u \in Tasks : u # t => (Pending(u, p)' <=> Pending(u, p))
  BY <1>1 DEF Pending
<1>5. CASE own[t] \in B /\ \E w \in todo'[t] : w[2] = p
  <2>1. Writers(p, B)' = Writers(p, B) \cup {t} /\ t \notin Writers(p, B)
    BY <1>1, <1>4, <1>5 DEF Writers
  <2>2. Cardinality(Writers(p, B)') = Cardinality(Writers(p, B)) + 1
    BY <2>1, OneMore, OutCountable
  <2> QED
    BY <1>2, <1>3, <1>5, <2>2 DEF Outstanding
<1>6. CASE ~ (own[t] \in B /\ \E w \in todo'[t] : w[2] = p)
  <2>1. ASSUME NEW u \in Tasks PROVE Pending(u, p)' /\ own'[u] \in B <=> Pending(u, p) /\ own[u] \in B
    <3>1. CASE u = t
      BY <1>1, <1>4, <1>6, <3>1
    <3>2. CASE u # t
      BY <1>1, <1>4, <3>2
    <3> QED
      BY <3>1, <3>2
  <2>2. Writers(p, B)' = Writers(p, B)
    BY <2>1 DEF Writers
  <2> QED
    BY <1>2, <1>6, <2>2 DEF Outstanding
<1> QED
  BY <1>5, <1>6

\* Emptying or deleting the queue of a pipe that does not exist any more is no concern of the others.
LEMMA DrainOut ==
  ASSUME IInv, CallInv, NEW t \in Tasks, DrainGet(t) \/ QueueDelete(t)
  PROVE  \A p \in PipeIds, B \in SUBSET Bufs : Match(p) => Outstanding(p, B)' = Outstanding(p, B)
<1> USE DEF IInv, TypeOK, CallInv
<1> SUFFICES ASSUME NEW p \in PipeIds, NEW B \in SUBSET Bufs, Match(p) PROVE Outstanding(p, B)' = Outstanding(p, B)
  OBVIOUS
<1>1. /\ pc[t] \in {"drain", "queue_delete"} /\ pid[t] \in PipeIds /\ pipeId[SlotOf(pid[t])] = RESERVED
      /\ UNCHANGED <<own, todo, pid>>
      /\ \A u \in Tasks : pc'[u] = pc[u] \/ (u = t /\ pc'[u] \in {"queue_delete", "delete_finish"})
      /\ \A u \in Tasks : u # t => got'[u] = got[u]
  BY DEF DrainGet, QueueDelete, GoTo, SlotClaims, Claims, Deleting, TasksOK
<1>2. p # pid[t]
  BY <1>1 DEF Match, PipeIds, RESERVED
<1>3. queue'[p] = queue[p]
  BY <1>2 DEF DrainGet, QueueDelete, QueuesOK
<1>4. \A u \in Tasks : Pending(u, p)' <=> Pending(u, p)
  BY <1>1 DEF Pending
<1> QED
  BY <1>1, <1>3, <1>4, OutKept

-----------------------------------------------------------------------------
(* The depth of a pipe, and the limits of its subscriptions                *)

\* A subscription counts no more than the messages of its own that are on their way.
LEMMA LimitIs ==
  ASSUME LimitNotStuck, NEW m \in MsgIds, NEW i \in DOMAIN dest[m], NEW p, NEW B,
         dest[m][i].pipe = p, BuffersOf(m) = B
  PROVE  dest[m][i].cnt <= Outstanding(p, B)
BY DEF LimitNotStuck

\* The same of the next state, from a statement about each destination.
LEMMA LimitNext ==
  ASSUME RoutesLive', \A m \in MsgIds : BuffersOf(m)' \in SUBSET Bufs,
         \A m \in MsgIds : \A i \in DOMAIN dest'[m] : \A p \in PipeIds, B \in SUBSET Bufs :
           dest'[m][i].pipe = p /\ BuffersOf(m)' = B => dest'[m][i].cnt <= Outstanding(p, B)'
  PROVE  LimitNotStuck'
<1> SUFFICES ASSUME NEW m \in MsgIds, NEW i \in DOMAIN dest'[m]
             PROVE  dest'[m][i].cnt <= Outstanding(dest[m][i].pipe, BuffersOf(m))'
  BY DEF LimitNotStuck
<1>1. dest'[m][i].pipe \in PipeIds
  BY DEF RoutesLive, Match
<1> PICK p \in PipeIds : dest'[m][i].pipe = p
  BY <1>1
<1> PICK B \in SUBSET Bufs : BuffersOf(m)' = B
  OBVIOUS
<1>2. dest'[m][i].cnt <= Outstanding(p, B)'
  OBVIOUS
<1>3. Outstanding(dest[m][i].pipe, BuffersOf(m))' = Outstanding(p, B)'
  <2>1. /\ Queued(dest[m][i].pipe, BuffersOf(m))' = Queued(p, B)'
        /\ Writers(dest[m][i].pipe, BuffersOf(m))' = Writers(p, B)'
        /\ Failing(dest[m][i].pipe, BuffersOf(m))' = Failing(p, B)'
        /\ Readers(dest[m][i].pipe, BuffersOf(m))' = Readers(p, B)'
    BY DEF Queued, Writers, Failing, Readers, Pending
  <2> QED
    BY <2>1 DEF Outstanding
<1> QED
  BY <1>2, <1>3

\* The pipes that exist are as they were, and so is what is on its way to them.
LEMMA DepthKept ==
  ASSUME DepthExact,
         \A p \in PipeIds : Match(p)' => /\ Match(p) /\ curDepth'[SlotOf(p)] = curDepth[SlotOf(p)]
                                         /\ Outstanding(p, Bufs)' = Outstanding(p, Bufs)
  PROVE  DepthExact'
BY DEF DepthExact

\* A destination counts no more than before, or nothing.
LEMMA LimitKept ==
  ASSUME LimitNotStuck, RoutesOK, RoutesLive, RoutesOK', RoutesLive', QueuesOK', UNCHANGED bufMsg,
         \A p \in PipeIds, B \in SUBSET Bufs : Match(p) => Outstanding(p, B)' = Outstanding(p, B),
         \A m \in MsgIds : \A i \in DOMAIN dest'[m] :
           \/ dest'[m][i].cnt = 0
           \/ \E k \in DOMAIN dest[m] : dest'[m][i].pipe = dest[m][k].pipe /\ dest'[m][i].cnt <= dest[m][k].cnt
  PROVE  LimitNotStuck'
<1>1. \A m \in MsgIds : BuffersOf(m)' = BuffersOf(m) /\ BuffersOf(m) \in SUBSET Bufs
  BY DEF BuffersOf
<1>2. ASSUME NEW m \in MsgIds, NEW i \in DOMAIN dest'[m], NEW p \in PipeIds, NEW B \in SUBSET Bufs,
             dest'[m][i].pipe = p, BuffersOf(m)' = B
      PROVE  dest'[m][i].cnt <= Outstanding(p, B)'
  <2>1. Outstanding(p, B)' \in Nat
    BY OutTypeNext
  <2>2. CASE dest'[m][i].cnt = 0
    BY <2>1, <2>2
  <2>3. ASSUME NEW k \in DOMAIN dest[m], dest'[m][i].pipe = dest[m][k].pipe, dest'[m][i].cnt <= dest[m][k].cnt
        PROVE  dest'[m][i].cnt <= Outstanding(p, B)'
    <3>1. Match(p)
      BY <1>2, <2>3 DEF RoutesLive
    <3>2. dest[m][k].cnt <= Outstanding(p, B)
      BY <1>1, <1>2, <2>3, LimitIs
    <3>3. dest[m][k].cnt \in Nat /\ dest'[m][i].cnt \in Nat
      <4>1. dest[m] \in Seq(DestType) /\ dest'[m] \in Seq(DestType)
        BY DEF RoutesOK
      <4>2. dest[m][k] \in DestType /\ dest'[m][i] \in DestType
        BY <4>1
      <4> QED
        BY <4>2 DEF DestType
    <3>4. Outstanding(p, B)' = Outstanding(p, B)
      BY <3>1
    <3> QED
      BY <2>1, <2>3, <3>2, <3>3, <3>4
  <2> QED
    BY <2>2, <2>3
<1>3. \A m \in MsgIds : BuffersOf(m)' \in SUBSET Bufs
  BY <1>1
<1> QED
  BY <1>2, <1>3, LimitNext

\* Nothing has happened to a pipe or to a message on its way.
LEMMA CountsKept ==
  ASSUME IInv, IInv', DepthExact, LimitNotStuck, UNCHANGED bufMsg,
         \A p \in PipeIds, B \in SUBSET Bufs : Match(p) => Outstanding(p, B)' = Outstanding(p, B),
         \A p \in PipeIds : Match(p)' => Match(p) /\ curDepth'[SlotOf(p)] = curDepth[SlotOf(p)],
         \A m \in MsgIds : \A i \in DOMAIN dest'[m] :
           \/ dest'[m][i].cnt = 0
           \/ \E k \in DOMAIN dest[m] : dest'[m][i].pipe = dest[m][k].pipe /\ dest'[m][i].cnt <= dest[m][k].cnt
  PROVE  DepthExact' /\ LimitNotStuck'
<1>1. Bufs \in SUBSET Bufs
  OBVIOUS
<1>2. DepthExact'
  BY <1>1, DepthKept
<1>3. LimitNotStuck'
  BY LimitKept DEF IInv, TypeOK
<1> QED
  BY <1>2, <1>3

\* The same, when the destinations are left alone.
LEMMA CountsFrame ==
  ASSUME IInv, IInv', DepthExact, LimitNotStuck, UNCHANGED <<bufMsg, dest, curDepth>>,
         \A p \in PipeIds, B \in SUBSET Bufs : Match(p) => Outstanding(p, B)' = Outstanding(p, B),
         \A p \in PipeIds : Match(p)' => Match(p)
  PROVE  DepthExact' /\ LimitNotStuck'
<1>1. \A m \in MsgIds : \A i \in DOMAIN dest'[m] :
        \E k \in DOMAIN dest[m] : dest'[m][i].pipe = dest[m][k].pipe /\ dest'[m][i].cnt <= dest[m][k].cnt
  <2> SUFFICES ASSUME NEW m \in MsgIds, NEW i \in DOMAIN dest[m] PROVE dest[m][i].cnt <= dest[m][i].cnt
    OBVIOUS
  <2>1. dest[m] \in Seq(DestType)
    BY DEF IInv, TypeOK, RoutesOK
  <2>2. dest[m][i] \in DestType
    BY <2>1
  <2> QED
    BY <2>2 DEF DestType
<1> QED
  BY <1>1, CountsKept

\* A step of a task that sends nothing and accounts for nothing.
LEMMA QuietCounts ==
  ASSUME IInv, IInv', CallInv, DepthExact, LimitNotStuck, NEW t \in Tasks,
         UNCHANGED <<bufMsg, dest, curDepth, queue>>,
         \A u \in Tasks : u # t => UNCHANGED <<pc[u], pid[u], own[u], got[u], todo[u]>>,
         pc[t] \notin Writing \cup {"rx_export"}, pc'[t] \notin {"tx_undo", "rx_export"}, todo'[t] = todo[t],
         \A p \in PipeIds : Match(p)' => Match(p)
  PROVE  DepthExact' /\ LimitNotStuck'
<1>1. todo[t] = {} /\ pc[t] \notin {"tx_undo", "rx_export"}
  BY DEF CallInv, CallsOK, CallOK, Writing
<1>2. \A p \in PipeIds, B \in SUBSET Bufs : Outstanding(p, B)' = Outstanding(p, B)
  BY <1>1, OutFrame
<1> QED
  BY <1>2, CountsFrame

\* A pipe is made, and nothing is on its way to it yet.
LEMMA CreateCounts ==
  ASSUME IInv, IInv', CallInv, DepthExact, LimitNotStuck, NEW t \in Tasks,
         CreateReserve(t) \/ CreateQueue(t) \/ CreateFinish(t) \/ CreateAbort(t)
  PROVE  DepthExact' /\ LimitNotStuck'
<1> USE DEF IInv, TypeOK, CallInv
<1>0. FREE \notin PipeIds /\ RESERVED \notin PipeIds
  BY DEF FREE, RESERVED, PipeIds
<1>1. /\ UNCHANGED <<bufMsg, dest, queue, own, got, todo>>
      /\ \E l \in {"create", "created", "create_failed", "idle"} : pc' = [pc EXCEPT ![t] = l]
      /\ pc[t] \in {"idle"} \cup Creating
      /\ \A u \in Tasks : u # t => UNCHANGED pid[u]
  BY DEF CreateReserve, CreateQueue, CreateFinish, CreateAbort, Begins, GoTo, Creating, routeVars, bufVars, queueVars, TasksOK
<1>2. /\ pc[t] \notin Writing \cup {"rx_export"} /\ pc'[t] \notin {"tx_undo", "rx_export"}
      /\ \A u \in Tasks : u # t => UNCHANGED <<pc[u], pid[u], own[u], got[u], todo[u]>>
  BY <1>1 DEF Writing, Creating, TasksOK
<1>3. \A p \in PipeIds, B \in SUBSET Bufs : Outstanding(p, B)' = Outstanding(p, B)
  <2>1. todo[t] = {}
    BY <1>2 DEF CallsOK, CallOK
  <2>2. pc[t] \notin {"tx_undo", "rx_export"} /\ todo'[t] = {}
    BY <1>1, <1>2, <2>1 DEF Writing
  <2> QED
    BY <1>1, <1>2, <2>1, <2>2, OutFrame
<1>4. \A m \in MsgIds : \A i \in DOMAIN dest'[m] :
        \E k \in DOMAIN dest[m] : dest'[m][i].pipe = dest[m][k].pipe /\ dest'[m][i].cnt <= dest[m][k].cnt
  <2> SUFFICES ASSUME NEW m \in MsgIds, NEW i \in DOMAIN dest[m] PROVE dest[m][i].cnt <= dest[m][i].cnt
    BY <1>1
  <2>1. dest[m] \in Seq(DestType)
    BY DEF RoutesOK
  <2>2. dest[m][i] \in DestType
    BY <2>1
  <2> QED
    BY <2>2 DEF DestType
<1>5. LimitNotStuck'
  BY <1>1, <1>3, <1>4, LimitKept
<1>6. ASSUME CreateQueue(t) \/ CreateAbort(t) PROVE DepthExact'
  <2>1. UNCHANGED curDepth
    BY <1>6 DEF CreateQueue, CreateAbort, pipeVars
  <2>2. \A p \in PipeIds : Match(p)' => Match(p)
    <3>1. CASE CreateQueue(t)
      BY <3>1 DEF CreateQueue, pipeVars, Match
    <3>2. CASE CreateAbort(t)
      BY <1>0, <3>2 DEF CreateAbort, Match, PipesOK
    <3> QED
      BY <1>6, <3>1, <3>2
  <2> QED
    BY <1>3, <2>1, <2>2, DepthKept
<1>7. ASSUME CreateReserve(t) PROVE DepthExact'
  <2>1. FindNext \in PipeIds
    BY <1>7 DEF CreateReserve
  <2>2. SlotOf(FindNext) \in Slots /\ pipeId[SlotOf(FindNext)] = FREE
    BY <2>1, NextIsNew
  <2>3. /\ pipeId' = [pipeId EXCEPT ![SlotOf(FindNext)] = RESERVED]
        /\ curDepth' = [curDepth EXCEPT ![SlotOf(FindNext)] = 0]
    BY <1>7 DEF CreateReserve
  <2> PICK s \in Slots : s = SlotOf(FindNext)
    BY <2>2
  <2>4. ASSUME NEW p \in PipeIds, Match(p)' PROVE Match(p) /\ curDepth'[SlotOf(p)] = curDepth[SlotOf(p)]
    <3>1. SlotOf(p) \in Slots
      BY SlotInRange DEF PipeIds
    <3> HIDE DEF SlotOf, FindNext
    <3>2. SlotOf(p) # s
      BY <1>0, <2>2, <2>3, <2>4, <3>1 DEF Match, PipesOK
    <3> QED
      BY <2>2, <2>3, <2>4, <3>1, <3>2 DEF Match, PipesOK
  <2> QED
    BY <1>3, <2>4, DepthKept
<1>8. ASSUME CreateFinish(t) PROVE DepthExact'
  <2>1. /\ pc[t] \in Creating /\ pid[t] \in PipeIds /\ curDepth' = curDepth
        /\ pipeId' = [pipeId EXCEPT ![SlotOf(pid[t])] = pid[t]]
    BY <1>8 DEF CreateFinish, Creating, SlotClaims, Claims
  <2> PICK q \in PipeIds : q = pid[t]
    BY <2>1
  <2>2. SlotOf(q) \in Slots
    BY SlotInRange DEF PipeIds
  <2>3. curDepth[SlotOf(q)] = 0
    BY <2>1 DEF ReadOK
  <2>4. Fresh(q)
    BY <2>1 DEF Fresh
  <2>5. Outstanding(q, Bufs) = 0
    <3>1. /\ queue[q] = <<>>
          /\ \A u \in Tasks : ~Pending(u, q) /\ (pc[u] \notin Creating => pid[u] # q)
      BY <2>4 DEF FreshOK
    <3>2. Queued(q, Bufs) = {} /\ Writers(q, Bufs) = {} /\ Failing(q, Bufs) = {} /\ Readers(q, Bufs) = {}
      BY <3>1 DEF Queued, Writers, Failing, Readers, Creating
    <3>3. /\ Cardinality(Queued(q, Bufs)) = 0 /\ Cardinality(Writers(q, Bufs)) = 0
          /\ Cardinality(Failing(q, Bufs)) = 0 /\ Cardinality(Readers(q, Bufs)) = 0
      BY <3>2, FS_EmptySet
    <3> QED
      BY <3>3 DEF Outstanding
  <2>6. ASSUME NEW p \in PipeIds, Match(p)' PROVE curDepth'[SlotOf(p)] = Outstanding(p, Bufs)'
    <3>1. CASE p = q
      BY <1>3, <2>1, <2>3, <2>5, <3>1
    <3>2. CASE p # q
      <4>1. Match(p)
        BY <2>1, <2>2, <2>6, <3>2 DEF Match, PipesOK
      <4> QED
        BY <1>3, <2>1, <4>1 DEF DepthExact
    <3> QED
      BY <3>1, <3>2
  <2> QED
    BY <2>6 DEF DepthExact
<1> QED
  BY <1>5, <1>6, <1>7, <1>8

\* A destination that is added counts nothing yet; one that is removed counts nothing any more.
LEMMA RouteCounts ==
  ASSUME IInv, IInv', CallInv, DepthExact, LimitNotStuck, NEW t \in Tasks, NEW p \in PipeIds,
         \/ TearDown(t, p) /\ Match(p) /\ pc[t] \notin Writing \cup {"rx_export"}
         \/ \E m \in MsgIds : \/ Unsubscribe(t, m, p) \/ \E on \in BOOLEAN : RouteCmd(m, p, on)
                              \/ \E lim \in MsgLims : Subscribe(t, m, p, lim)
  PROVE  DepthExact' /\ LimitNotStuck'
<1> USE DEF IInv, TypeOK
<1>0. RESERVED \notin PipeIds
  BY DEF RESERVED, PipeIds
<1>1. \A m \in MsgIds : \A i \in DOMAIN dest[m] : dest[m][i].cnt <= dest[m][i].cnt
  <2> SUFFICES ASSUME NEW m \in MsgIds, NEW i \in DOMAIN dest[m] PROVE dest[m][i].cnt <= dest[m][i].cnt
    OBVIOUS
  <2>1. dest[m] \in Seq(DestType)
    BY DEF RoutesOK
  <2>2. dest[m][i] \in DestType
    BY <2>1
  <2> QED
    BY <2>2 DEF DestType
<1>2. ASSUME \A m \in MsgIds : \A i \in DOMAIN dest'[m] :
                dest'[m][i].cnt = 0 \/ \E k \in DOMAIN dest[m] : dest'[m][i] = dest[m][k]
      PROVE  \A m \in MsgIds : \A i \in DOMAIN dest'[m] :
               \/ dest'[m][i].cnt = 0
               \/ \E k \in DOMAIN dest[m] : dest'[m][i].pipe = dest[m][k].pipe /\ dest'[m][i].cnt <= dest[m][k].cnt
  BY <1>1, <1>2
<1>3. ASSUME UNCHANGED <<bufMsg, queue, curDepth, pipeId, taskVars>>,
             \A m \in MsgIds : \A i \in DOMAIN dest'[m] :
               \/ dest'[m][i].cnt = 0
               \/ \E k \in DOMAIN dest[m] : dest'[m][i].pipe = dest[m][k].pipe /\ dest'[m][i].cnt <= dest[m][k].cnt
      PROVE  DepthExact' /\ LimitNotStuck'
  <2>1. \A q \in PipeIds, B \in SUBSET Bufs : Outstanding(q, B)' = Outstanding(q, B)
    BY <1>3, OutKept DEF taskVars, Pending
  <2> QED
    BY <1>3, <2>1, CountsKept DEF Match
<1>4. ASSUME TearDown(t, p), Match(p), pc[t] \notin Writing \cup {"rx_export"}
      PROVE  DepthExact' /\ LimitNotStuck'
  <2>1. /\ UNCHANGED <<bufMsg, queue, curDepth, own, todo>>
        /\ pipeId' = [pipeId EXCEPT ![SlotOf(p)] = RESERVED]
        /\ pc' = [pc EXCEPT ![t] = "drain"] /\ pid' = [pid EXCEPT ![t] = p]
        /\ \A u \in Tasks : u # t => got'[u] = got[u]
    BY <1>4 DEF TearDown, GoTo, bufVars, queueVars, TasksOK
  <2>2. todo[t] = {} /\ todo'[t] = {} /\ pc[t] \notin {"tx_undo", "rx_export"} /\ pc'[t] \notin {"tx_undo", "rx_export"}
    BY <1>4, <2>1 DEF CallInv, CallsOK, CallOK, Writing, TasksOK
  <2>3. \A q \in PipeIds, B \in SUBSET Bufs : Outstanding(q, B)' = Outstanding(q, B)
    BY <2>1, <2>2, OutFrame DEF TasksOK
  <2>4. \A q \in PipeIds : Match(q)' => Match(q)
    BY <1>0, <2>1 DEF Match, PipesOK
  <2>5. \A m \in MsgIds : \A i \in DOMAIN dest'[m] : \E k \in DOMAIN dest[m] : dest'[m][i] = dest[m][k]
    <3> SUFFICES ASSUME NEW m \in MsgIds, NEW i \in DOMAIN dest'[m] PROVE \E k \in DOMAIN dest[m] : dest'[m][i] = dest[m][k]
      OBVIOUS
    <3>1. dest'[m] = IF Subscribed(m, p) THEN Without(dest[m], DestPtr(m, p)) ELSE dest[m]
      BY <1>4 DEF TearDown
    <3>2. CASE Subscribed(m, p)
      <4>1. PICK left : left = Without(dest[m], DestPtr(m, p))
        OBVIOUS
      <4>2. \A j \in DOMAIN left : \E k \in DOMAIN dest[m] : left[j] = dest[m][k]
        BY <3>2, <4>1, RouteCut
      <4> QED
        BY <3>1, <3>2, <4>1, <4>2
    <3>3. CASE ~Subscribed(m, p)
      BY <3>1, <3>3
    <3> QED
      BY <3>2, <3>3
  <2> QED
    BY <1>2, <2>1, <2>3, <2>4, <2>5, CountsKept
<1>5. ASSUME NEW m \in MsgIds, Unsubscribe(t, m, p) PROVE DepthExact' /\ LimitNotStuck'
  <2>1. /\ dest' = [dest EXCEPT ![m] = Without(dest[m], DestPtr(m, p))] /\ Subscribed(m, p)
        /\ UNCHANGED <<bufMsg, queue, curDepth, pipeId, taskVars>>
    BY <1>5 DEF Unsubscribe, pipeVars, bufVars, queueVars
  <2>2. PICK left : left = Without(dest[m], DestPtr(m, p))
    OBVIOUS
  <2>3. \A j \in DOMAIN left : \E k \in DOMAIN dest[m] : left[j] = dest[m][k]
    BY <2>1, <2>2, RouteCut
  <2>4. \A n \in MsgIds : dest'[n] = IF n = m THEN left ELSE dest[n]
    BY <2>1, <2>2 DEF RoutesOK
  <2>5. \A n \in MsgIds : \A i \in DOMAIN dest'[n] : \E k \in DOMAIN dest[n] : dest'[n][i] = dest[n][k]
    BY <2>3, <2>4
  <2> QED
    BY <1>2, <1>3, <2>1, <2>5
<1>6. ASSUME NEW m \in MsgIds, NEW on \in BOOLEAN, RouteCmd(m, p, on) PROVE DepthExact' /\ LimitNotStuck'
  <2>1. UNCHANGED <<bufMsg, queue, curDepth, pipeId, taskVars>>
    BY <1>6 DEF RouteCmd, pipeVars, bufVars, queueVars
  <2>2. \A n \in MsgIds : /\ DOMAIN dest'[n] = DOMAIN dest[n]
                          /\ \A i \in DOMAIN dest[n] : dest'[n][i].pipe = dest[n][i].pipe /\ dest'[n][i].cnt = dest[n][i].cnt
    BY <1>6, SwitchedRoute
  <2> QED
    BY <1>1, <1>3, <2>1, <2>2
<1>7. ASSUME NEW m \in MsgIds, NEW lim \in MsgLims, Subscribe(t, m, p, lim) PROVE DepthExact' /\ LimitNotStuck'
  <2>1. UNCHANGED <<bufMsg, queue, curDepth, pipeId, taskVars>>
    BY <1>7 DEF Subscribe, pipeVars, bufVars, queueVars
  <2>2. CASE UNCHANGED dest
    BY <1>1, <1>3, <2>1, <2>2
  <2>3. CASE ~ UNCHANGED dest
    <3> DEFINE new == <<Dest(p, lim)>> \o dest[m]
    <3>1. dest' = [dest EXCEPT ![m] = new]
      BY <1>7, <2>3 DEF Subscribe
    <3>2. Dest(p, lim) \in DestType /\ Dest(p, lim).cnt = 0 /\ dest[m] \in Seq(DestType)
      BY DepthAssumption DEF Dest, DestType, RoutesOK
    <3>3. /\ DOMAIN dest[m] = 1 .. Len(dest[m]) /\ Len(dest[m]) \in Nat
          /\ DOMAIN new = 1 .. Len(dest[m]) + 1 /\ new[1] = Dest(p, lim)
          /\ \A i \in 1 .. Len(dest[m]) + 1 : i # 1 => i - 1 \in 1 .. Len(dest[m]) /\ new[i] = dest[m][i - 1]
      BY <3>2
    <3> HIDE DEF new
    <3>4. \A n \in MsgIds : dest'[n] = IF n = m THEN new ELSE dest[n]
      BY <3>1 DEF RoutesOK
    <3>5. ASSUME NEW n \in MsgIds, NEW i \in DOMAIN dest'[n]
          PROVE  dest'[n][i].cnt = 0 \/ \E k \in DOMAIN dest[n] : dest'[n][i] = dest[n][k]
      <4>1. CASE n = m /\ i = 1
        BY <3>2, <3>3, <3>4, <4>1
      <4>2. CASE n = m /\ i # 1
        <5>1. i \in 1 .. Len(dest[m]) + 1
          BY <3>3, <3>4, <4>2
        <5>2. i - 1 \in DOMAIN dest[m] /\ new[i] = dest[m][i - 1]
          BY <3>3, <4>2, <5>1
        <5> QED
          BY <3>4, <4>2, <5>2
      <4>3. CASE n # m
        BY <3>4, <4>3
      <4> QED
        BY <4>1, <4>2, <4>3
    <3> QED
      BY <1>2, <1>3, <2>1, <3>5
  <2> QED
    BY <2>2, <2>3
<1> QED
  BY <1>4, <1>5, <1>6, <1>7

\* Nothing is doing with a buffer that is allocated, whatever message it last held.
LEMMA AllocateCounts ==
  ASSUME IInv, IInv', CallInv, UseInv, DepthExact, LimitNotStuck, NEW t \in Tasks, Allocate(t)
  PROVE  DepthExact' /\ LimitNotStuck'
<1> USE DEF IInv, TypeOK, CallInv
<1>1. /\ pc[t] \in {"allocate", "tx_allocate"} /\ own[t] = NoBuf
      /\ \E l \in {"idle", "tx_find"} : pc' = [pc EXCEPT ![t] = l]
      /\ \A u \in Tasks : u # t => own'[u] = own[u]
      /\ UNCHANGED <<dest, curDepth, pipeId, queue, pid, got, todo>>
  BY DEF Allocate, GoTo, CallsOK, CallOK, Allocating, pipeVars, routeVars, queueVars, TasksOK
<1>2. todo[t] = {} /\ todo'[t] = {} /\ pc[t] \notin {"tx_undo", "rx_export"} /\ pc'[t] \notin {"tx_undo", "rx_export"}
  BY <1>1 DEF CallsOK, CallOK, Writing, TasksOK
<1>3. \A p \in PipeIds, B \in SUBSET Bufs : Outstanding(p, B)' = Outstanding(p, B)
  BY <1>1, <1>2, OutFrame DEF TasksOK
<1>4. \A p \in PipeIds : Match(p)' => Match(p)
  BY <1>1 DEF Match
<1>5. CASE UNCHANGED bufMsg
  BY <1>1, <1>3, <1>4, <1>5, CountsFrame
<1>6. ASSUME NEW c \in Bufs, use[c] = 0, bufMsg' = [bufMsg EXCEPT ![c] = NoMsg] PROVE DepthExact' /\ LimitNotStuck'
  <2>1. WritesOf(c) = {} /\ FailedOf(c) = {} /\ ReadBy(c) = {} /\ PlacesOf(c) = {}
    BY <1>6, Alone
  <2>2. ASSUME NEW m \in MsgIds, NEW i \in DOMAIN dest'[m], NEW p \in PipeIds, NEW B \in SUBSET Bufs,
               dest'[m][i].pipe = p, BuffersOf(m)' = B
        PROVE  dest'[m][i].cnt <= Outstanding(p, B)'
    <3>1. BuffersOf(m) \in SUBSET Bufs
      BY DEF BuffersOf
    <3> PICK C \in SUBSET Bufs : BuffersOf(m) = C
      BY <3>1
    <3>2. \A b : b # c => (b \in B <=> b \in C)
      BY <1>6, <2>2 DEF BuffersOf, BufsOK
    <3>3. Outstanding(p, B) = Outstanding(p, C)
      BY <2>1, <3>2, OutElsewhere
    <3>4. dest[m][i].cnt <= Outstanding(p, C)
      BY <1>1, <2>2, LimitIs
    <3> QED
      BY <1>1, <1>3, <3>3, <3>4
  <2>3. \A m \in MsgIds : BuffersOf(m)' \in SUBSET Bufs
    BY DEF BuffersOf
  <2>4. LimitNotStuck'
    BY <2>2, <2>3, LimitNext
  <2>5. DepthExact'
    BY <1>1, <1>3, <1>4, DepthKept
  <2> QED
    BY <2>4, <2>5
<1> QED
  BY <1>5, <1>6 DEF Allocate, bufVars


\* A message fewer on its way to a pipe, in its depth and in the count of its subscription.
LEMMA CountedDown ==
  ASSUME IInv, IInv', DepthExact, LimitNotStuck, UNCHANGED <<bufMsg, pipeId>>,
         NEW p \in PipeIds, NEW b \in Bufs, NEW m, m = bufMsg[b], dest' = CountDown(m, p), curDepth' = DepthDown(p),
         \A q \in PipeIds, B \in SUBSET Bufs :
           /\ q = p /\ b \in B => Outstanding(q, B) > 0 /\ Outstanding(q, B)' = Outstanding(q, B) - 1
           /\ ~ (q = p /\ b \in B) => Outstanding(q, B)' = Outstanding(q, B)
  PROVE  DepthExact' /\ LimitNotStuck'
<1> USE DEF IInv, TypeOK
<1>1. ASSUME NEW q \in PipeIds, Match(q)' PROVE curDepth'[SlotOf(q)] = Outstanding(q, Bufs)'
  <2>1. Match(q) /\ curDepth[SlotOf(q)] = Outstanding(q, Bufs)
    BY <1>1 DEF Match, DepthExact
  <2>2. SlotOf(q) \in Slots /\ SlotOf(p) \in Slots
    BY SlotInRange DEF PipeIds
  <2>3. b \in Bufs /\ Bufs \in SUBSET Bufs
    OBVIOUS
  <2>4. CASE q = p
    <3>1. Outstanding(q, Bufs) > 0 /\ Outstanding(q, Bufs)' = Outstanding(q, Bufs) - 1
      BY <2>3, <2>4
    <3>2. DepthDown(p)[SlotOf(q)] = curDepth[SlotOf(q)] - 1
      BY <2>1, <2>2, <2>4, <3>1 DEF DepthDown, PipesOK
    <3> QED
      BY <2>1, <3>1, <3>2
  <2>5. CASE q # p
    <3>1. Outstanding(q, Bufs)' = Outstanding(q, Bufs)
      BY <2>3, <2>5
    <3>2. Match(p) => SlotOf(q) # SlotOf(p)
      BY <2>1, <2>5 DEF Match
    <3>3. DepthDown(p)[SlotOf(q)] = curDepth[SlotOf(q)]
      BY <2>2, <3>2 DEF DepthDown, PipesOK
    <3> QED
      BY <2>1, <3>1, <3>3
  <2> QED
    BY <2>4, <2>5
<1>2. ASSUME NEW n \in MsgIds, NEW i \in DOMAIN dest'[n], NEW q \in PipeIds, NEW B \in SUBSET Bufs,
             dest'[n][i].pipe = q, BuffersOf(n)' = B
      PROVE  dest'[n][i].cnt <= Outstanding(q, B)'
  <2>1. BuffersOf(n) = B /\ (b \in B <=> n = m)
    BY <1>2 DEF BuffersOf
  <2>2. i \in DOMAIN dest[n] /\ dest[n][i].pipe = q
    BY <1>2, CountDownType
  <2>3. dest[n][i].cnt <= Outstanding(q, B)
    BY <2>1, <2>2, LimitIs
  <2>4. /\ dest'[n][i].cnt \in Nat /\ dest[n][i].cnt \in Nat /\ dest'[n][i].cnt <= dest[n][i].cnt
        /\ n = m /\ q = p /\ dest[n][i].cnt > 0 => dest'[n][i].cnt = dest[n][i].cnt - 1
    BY <2>2, CountDownCount
  <2>5. Outstanding(q, B) \in Nat
    BY OutType
  <2>6. CASE q = p /\ n = m
    <3>1. Outstanding(q, B) > 0 /\ Outstanding(q, B)' = Outstanding(q, B) - 1
      BY <2>1, <2>6
    <3> QED
      BY <2>3, <2>4, <2>5, <2>6, <3>1
  <2>7. CASE ~ (q = p /\ n = m)
    <3>1. Outstanding(q, B)' = Outstanding(q, B)
      BY <2>1, <2>7
    <3> QED
      BY <2>3, <2>4, <2>5, <3>1
  <2> QED
    BY <2>6, <2>7
<1>3. \A n \in MsgIds : BuffersOf(n)' \in SUBSET Bufs
  BY DEF BuffersOf
<1> QED
  BY <1>1, <1>2, <1>3, LimitNext DEF DepthExact

\* What FindDestinations counted for a write that failed is taken back.
LEMMA UndoPutCounts ==
  ASSUME IInv, IInv', CallInv, UseInv, DepthExact, LimitNotStuck, NEW t \in Tasks, UndoPut(t)
  PROVE  DepthExact' /\ LimitNotStuck'
<1> USE DEF IInv, TypeOK
<1>1. /\ pc[t] = "tx_undo" /\ pid[t] \in PipeIds /\ own[t] \in Bufs
      /\ curDepth' = DepthDown(pid[t]) /\ dest' = CountDown(msg[t], pid[t])
      /\ UNCHANGED <<bufMsg, pipeId>>
  BY DEF UndoPut, RunningHasPipe, SendingHasBuffer, Sending
<1>2. msg[t] = bufMsg[own[t]]
  BY <1>1, NullAssumption DEF UseInv, HandsOK, Writing
<1> PICK p \in PipeIds, b \in Bufs : p = pid[t] /\ b = own[t]
  BY <1>1
<1> PICK m : m = msg[t]
  OBVIOUS
<1>3. \A q \in PipeIds, B \in SUBSET Bufs :
        /\ q = p /\ b \in B => Outstanding(q, B) > 0 /\ Outstanding(q, B)' = Outstanding(q, B) - 1
        /\ ~ (q = p /\ b \in B) => Outstanding(q, B)' = Outstanding(q, B)
  BY UndoPutOut
<1>4. m = bufMsg[b] /\ dest' = CountDown(m, p) /\ curDepth' = DepthDown(p)
  BY <1>1, <1>2
<1> QED
  BY <1>1, <1>3, <1>4, CountedDown

\* A reader accounts for the message it has read, unless the pipe has gone.
LEMMA ExportReferenceCounts ==
  ASSUME IInv, IInv', CallInv, DepthExact, LimitNotStuck, NEW t \in Tasks, ExportReference(t)
  PROVE  DepthExact' /\ LimitNotStuck'
<1> USE DEF IInv, TypeOK
<1>1. /\ pc[t] = "rx_export" /\ pid[t] \in PipeIds /\ got[t] \in Bufs
      /\ UNCHANGED <<bufMsg, pipeId>>
  BY DEF ExportReference, RunningHasPipe, Receiving, CallInv, CallsOK, CallOK, TasksOK
<1> PICK p \in PipeIds, b \in Bufs : p = pid[t] /\ b = got[t]
  BY <1>1
<1>2. \A q \in PipeIds, B \in SUBSET Bufs :
        /\ q = p /\ b \in B => Outstanding(q, B) > 0 /\ Outstanding(q, B)' = Outstanding(q, B) - 1
        /\ ~ (q = p /\ b \in B) => Outstanding(q, B)' = Outstanding(q, B)
  BY ExportOut
<1>3. CASE Match(p)
  <2> PICK m : m = bufMsg[b]
    OBVIOUS
  <2>1. dest' = CountDown(m, p) /\ curDepth' = DepthDown(p)
    BY <1>3 DEF ExportReference
  <2> QED
    BY <1>1, <1>2, <2>1, CountedDown
<1>4. CASE ~Match(p)
  <2>1. UNCHANGED <<dest, curDepth>>
    BY <1>4 DEF ExportReference
  <2>2. \A q \in PipeIds, B \in SUBSET Bufs : Match(q) => Outstanding(q, B)' = Outstanding(q, B)
    BY <1>2, <1>4
  <2>3. \A q \in PipeIds : Match(q)' => Match(q)
    BY <1>1 DEF Match
  <2> QED
    BY <1>1, <2>1, <2>2, <2>3, CountsFrame
<1> QED
  BY <1>3, <1>4


\* What a sender has counted is what it is about to write.
LEMMA FindDestinationsCounts ==
  ASSUME IInv, IInv', CallInv, UseInv, DepthExact, LimitNotStuck, NEW t \in Tasks, FindDestinations(t)
  PROVE  DepthExact' /\ LimitNotStuck'
<1> USE DEF IInv, TypeOK
<1> DEFINE m == msg[t]
           write == {i \in Targets(m, AppIdOf(t)) : dest[m][i].cnt < dest[m][i].lim}
           slots == {SlotOf(dest[m][i].pipe) : i \in write}
<1>1. /\ pc[t] = "tx_find" /\ own[t] \in Bufs /\ m \in MsgIds
      /\ bufMsg' = [bufMsg EXCEPT ![own[t]] = m] /\ UNCHANGED pipeId
      /\ curDepth' = [s \in Slots |-> IF s \in slots THEN curDepth[s] + 1 ELSE curDepth[s]]
      /\ todo'[t] = {<<i, dest[m][i].pipe>> : i \in write}
      /\ write \subseteq DOMAIN dest[m]
  BY DEF FindDestinations, SendingHasBuffer, Sending, TasksOK, Targets
<1> PICK b \in Bufs : b = own[t]
  BY <1>1
<1>2. PlacesOf(b) = {} /\ WritesOf(b) = {} /\ FailedOf(b) = {} /\ ReadBy(b) = {}
  <2>1. list[b] = "zerocopy"
    BY <1>1, NullAssumption DEF UseInv, HandsOK, Writing
  <2> QED
    BY <2>1, Alone
<1> HIDE DEF write
<1>3. \A q \in PipeIds : (\E w \in todo'[t] : w[2] = q) <=> \E i \in write : dest[m][i].pipe = q
  <2> SUFFICES ASSUME NEW q \in PipeIds PROVE (\E w \in todo'[t] : w[2] = q) <=> \E i \in write : dest[m][i].pipe = q
    OBVIOUS
  <2>1. ASSUME NEW w \in todo'[t], w[2] = q PROVE \E i \in write : dest[m][i].pipe = q
    BY <1>1, <2>1
  <2>2. ASSUME NEW i \in write, dest[m][i].pipe = q PROVE \E w \in todo'[t] : w[2] = q
    <3>1. <<i, dest[m][i].pipe>> \in todo'[t] /\ <<i, dest[m][i].pipe>>[2] = q
      BY <1>1, <2>2
    <3> QED
      BY <3>1
  <2> QED
    BY <2>1, <2>2
<1>4. ASSUME NEW q \in PipeIds, Match(q)
      PROVE  SlotOf(q) \in slots <=> \E i \in write : dest[m][i].pipe = q
  <2>1. ASSUME NEW i \in write PROVE SlotOf(dest[m][i].pipe) = SlotOf(q) <=> dest[m][i].pipe = q
    <3>1. Match(dest[m][i].pipe)
      BY <1>1 DEF RoutesLive
    <3> HIDE DEF SlotOf, m
    <3> QED
      BY <1>4, <3>1 DEF Match
  <2> HIDE DEF SlotOf, m
  <2> QED
    BY <2>1
<1> HIDE DEF slots
<1>5. ASSUME NEW q \in PipeIds, Match(q)' PROVE curDepth'[SlotOf(q)] = Outstanding(q, Bufs)'
  <2>1. Match(q) /\ curDepth[SlotOf(q)] = Outstanding(q, Bufs)
    BY <1>1, <1>5 DEF Match, DepthExact
  <2>2. SlotOf(q) \in Slots
    BY SlotInRange DEF PipeIds
  <2>3. b \in Bufs /\ Bufs \in SUBSET Bufs
    OBVIOUS
  <2>4. CASE \E w \in todo'[t] : w[2] = q
    <3>1. Outstanding(q, Bufs)' = Outstanding(q, Bufs) + 1
      BY <2>3, <2>4, FindOut
    <3>2. SlotOf(q) \in slots
      BY <1>3, <1>4, <2>1, <2>4
    <3>3. curDepth'[SlotOf(q)] = curDepth[SlotOf(q)] + 1
      BY <1>1, <2>2, <3>2
    <3> QED
      BY <2>1, <3>1, <3>3
  <2>5. CASE ~ \E w \in todo'[t] : w[2] = q
    <3>1. Outstanding(q, Bufs)' = Outstanding(q, Bufs)
      BY <2>3, <2>5, FindOut
    <3>2. SlotOf(q) \notin slots
      BY <1>3, <1>4, <2>1, <2>5
    <3>3. curDepth'[SlotOf(q)] = curDepth[SlotOf(q)]
      BY <1>1, <2>2, <3>2
    <3> QED
      BY <2>1, <3>1, <3>3
  <2> QED
    BY <2>4, <2>5
<1>6. ASSUME NEW n \in MsgIds, NEW i \in DOMAIN dest'[n], NEW q \in PipeIds, NEW B \in SUBSET Bufs,
             dest'[n][i].pipe = q, BuffersOf(n)' = B
      PROVE  dest'[n][i].cnt <= Outstanding(q, B)'
  <2>1. /\ DOMAIN dest'[n] = DOMAIN dest[n] /\ dest'[n][i].pipe = dest[n][i].pipe
        /\ \/ dest'[n][i].cnt = dest[n][i].cnt
           \/ /\ n = msg[t] /\ dest'[n][i].cnt = dest[n][i].cnt + 1
              /\ \E w \in todo'[t] : w[2] = dest[n][i].pipe
    BY <1>6, CountedUp
  <2>2. BuffersOf(n) \in SUBSET Bufs
    BY DEF BuffersOf
  <2> PICK C \in SUBSET Bufs : BuffersOf(n) = C
    BY <2>2
  <2>3. (\A c : c # b => (c \in B <=> c \in C)) /\ (b \in B <=> n = msg[t])
    BY <1>1, <1>6 DEF BuffersOf, BufsOK
  <2>4. Outstanding(q, B) = Outstanding(q, C)
    BY <1>2, <2>3, OutElsewhere DEF CallInv
  <2>5. dest[n][i].cnt <= Outstanding(q, C)
    BY <1>6, <2>1, LimitIs
  <2>6. dest[n][i].cnt \in Nat
    <3>1. dest[n] \in Seq(DestType)
      BY DEF RoutesOK
    <3>2. dest[n][i] \in DestType
      BY <2>1, <3>1
    <3> QED
      BY <3>2 DEF DestType
  <2>7. Outstanding(q, C) \in Nat
    BY OutType
  <2>8. CASE own[t] \in B /\ \E w \in todo'[t] : w[2] = q
    <3>1. Outstanding(q, B)' = Outstanding(q, B) + 1
      BY <2>8, FindOut
    <3>2. dest'[n][i].cnt = dest[n][i].cnt \/ dest'[n][i].cnt = dest[n][i].cnt + 1
      BY <2>1
    <3> QED
      BY <2>4, <2>5, <2>6, <2>7, <3>1, <3>2
  <2>9. CASE ~ (own[t] \in B /\ \E w \in todo'[t] : w[2] = q)
    <3>1. Outstanding(q, B)' = Outstanding(q, B)
      BY <2>9, FindOut
    <3>2. dest'[n][i].cnt = dest[n][i].cnt
      BY <1>6, <2>1, <2>3, <2>9
    <3> QED
      BY <2>4, <2>5, <3>1, <3>2
  <2> QED
    BY <2>8, <2>9
<1>7. \A n \in MsgIds : BuffersOf(n)' \in SUBSET Bufs
  BY DEF BuffersOf
<1> QED
  BY <1>5, <1>6, <1>7, LimitNext DEF DepthExact

\* The tasks ES deletes have nothing on its way.
LEMMA CleanUpTasksCounts ==
  ASSUME IInv, IInv', CallInv, DepthExact, LimitNotStuck, CleanUpTasks
  PROVE  DepthExact' /\ LimitNotStuck'
<1> USE TaskAssumption DEF IInv, TypeOK, CallInv
<1> DEFINE dead == {t \in Tasks : AppOf[t] = victim}
<1>1. /\ pc[ES] = "clean_tasks" /\ ES \notin dead
      /\ \A t \in dead : pc[t] \in Ended
  BY VictimIsNotES DEF CleanUpTasks, AppsOK
<1>2. /\ \A t \in Tasks : t # ES => pc'[t] = IF t \in dead THEN "dead" ELSE pc[t]
      /\ pc'[ES] = "idle"
      /\ \A t \in Tasks : /\ own'[t] = IF t \in dead THEN NoBuf ELSE own[t]
                          /\ got'[t] = IF t \in dead THEN NoBuf ELSE got[t]
                          /\ todo'[t] = IF t \in dead THEN {} ELSE todo[t]
                          /\ pid'[t] = IF t \in dead THEN FREE ELSE pid[t]
      /\ UNCHANGED <<pipeId, curDepth, dest, bufMsg, queue>>
  BY DEF CleanUpTasks, pipeVars, routeVars, bufVars, queueVars
<1>3. \A t \in dead : own[t] = NoBuf /\ got[t] = NoBuf /\ todo[t] = {} /\ pc[t] \notin {"tx_undo", "rx_export"}
  BY <1>1 DEF CallsOK, CallOK, Writing, Ended, Allocating
<1> HIDE DEF dead
<1>4. \A u \in Tasks : UNCHANGED <<own[u], got[u], todo[u]>> /\ (u \notin dead => UNCHANGED pid[u])
  BY <1>2, <1>3
<1>5. \A u \in Tasks : /\ pc'[u] = "tx_undo" <=> pc[u] = "tx_undo" /\ u \notin dead
                       /\ pc'[u] = "rx_export" <=> pc[u] = "rx_export" /\ u \notin dead
  BY <1>1, <1>2, <1>3
<1>6. \A u \in Tasks, p \in PipeIds : Pending(u, p)' <=> Pending(u, p)
  BY <1>4 DEF Pending
<1>7. ASSUME NEW p \in PipeIds, NEW B \in SUBSET Bufs PROVE Outstanding(p, B)' = Outstanding(p, B)
  BY <1>2, <1>3, <1>4, <1>5, <1>6, OutKept
<1>8. \A p \in PipeIds : Match(p)' => Match(p)
  BY <1>2 DEF Match
<1> QED
  BY <1>2, <1>7, <1>8, CountsFrame


\* A message that moves from one place to another is as much on its way as before.
LEMMA MovedCounts ==
  ASSUME IInv, IInv', CallInv, DepthExact, LimitNotStuck, NEW t \in Tasks,
         QueueGet(t) \/ QueuePut(t) \/ DrainGet(t) \/ QueueDelete(t) \/ TransmitDone(t)
  PROVE  DepthExact' /\ LimitNotStuck'
<1> USE DEF IInv, TypeOK, CallInv
<1>1. UNCHANGED <<bufMsg, dest, curDepth, pipeId>>
  BY DEF QueueGet, QueuePut, DrainGet, QueueDelete, TransmitDone, pipeVars, routeVars, bufVars
<1>2. \A p \in PipeIds, B \in SUBSET Bufs : Match(p) => Outstanding(p, B)' = Outstanding(p, B)
  <2>1. CASE QueueGet(t)
    BY <2>1, QueueGetOut
  <2>2. CASE QueuePut(t)
    BY <2>2, QueuePutOut
  <2>3. CASE DrainGet(t) \/ QueueDelete(t)
    BY <2>3, DrainOut
  <2>4. CASE TransmitDone(t)
    <3>1. /\ pc[t] = "tx_put" /\ todo[t] = {} /\ pc' = [pc EXCEPT ![t] = "idle"] /\ own' = [own EXCEPT ![t] = NoBuf]
          /\ UNCHANGED <<queue, pid, got, todo>>
      BY <2>4 DEF TransmitDone, GoTo, queueVars
    <3>2. /\ pc'[t] = "idle" /\ todo'[t] = {}
          /\ \A u \in Tasks : u # t => UNCHANGED <<pc[u], pid[u], own[u], got[u], todo[u]>>
      BY <3>1 DEF TasksOK
    <3> QED
      BY <3>1, <3>2, OutFrame
  <2> QED
    BY <2>1, <2>2, <2>3, <2>4
<1>3. \A p \in PipeIds : Match(p)' => Match(p)
  BY <1>1 DEF Match
<1> QED
  BY <1>1, <1>2, <1>3, CountsFrame

\* A task that sends nothing and accounts for nothing.
LEMMA OtherCounts ==
  ASSUME IInv, IInv', CallInv, DepthExact, LimitNotStuck, NEW t \in Tasks,
         \/ AllocateBegin(t) \/ ReleaseBuffer(t) \/ Exit(t) \/ DrainRelease(t)
         \/ DeleteFinish(t) \/ ReceiveAccept(t) \/ ReceiveReject(t) \/ ReceiveNothing(t)
         \/ \E m \in MsgIds : TransmitBuffer(t, m)
         \/ \E p \in PipeIds : ReceiveBegin(t, p) \/ \E on \in BOOLEAN : SetPipeOpts(t, p, on)
         \/ t = ES /\ (CleanUpList \/ CleanUpZeroCopy \/ \E a \in Apps : CleanUpBegin(a))
  PROVE  DepthExact' /\ LimitNotStuck'
<1> USE TaskAssumption DEF IInv, TypeOK
<1>0. FREE \notin PipeIds
  BY DEF FREE, PipeIds
<1>1. ASSUME UNCHANGED <<bufMsg, dest, curDepth, queue>>, pc[t] \notin Writing \cup {"rx_export"},
             pc'[t] \notin {"tx_undo", "rx_export"}, todo' = todo, pipeId' = pipeId,
             \A u \in Tasks : u # t => UNCHANGED <<pc[u], pid[u], own[u], got[u]>>
      PROVE  DepthExact' /\ LimitNotStuck'
  BY <1>1, QuietCounts DEF Match
<1>2. CASE AllocateBegin(t) \/ Exit(t)
  BY <1>1, <1>2 DEF AllocateBegin, Exit, Begins, GoTo, Writing, TasksOK, pipeVars, routeVars, bufVars, queueVars
<1>3. CASE ReleaseBuffer(t)
  BY <1>1, <1>3 DEF ReleaseBuffer, Begins, Writing, TasksOK, pipeVars, routeVars, queueVars
<1>4. CASE DrainRelease(t)
  BY <1>1, <1>4 DEF DrainRelease, Writing, TasksOK, pipeVars, routeVars, queueVars
<1>5. CASE DeleteFinish(t)
  <2>1. /\ UNCHANGED <<bufMsg, dest, curDepth, queue, own, got, todo>>
        /\ pc[t] \notin Writing \cup {"rx_export"} /\ pc'[t] \notin {"tx_undo", "rx_export"}
        /\ \A u \in Tasks : u # t => UNCHANGED <<pc[u], pid[u]>>
    BY <1>5 DEF DeleteFinish, GoTo, Writing, TasksOK, routeVars, bufVars, queueVars
  <2>2. pipeId' = [pipeId EXCEPT ![SlotOf(pid[t])] = FREE]
    BY <1>5 DEF DeleteFinish
  <2>3. \A p \in PipeIds : Match(p)' => Match(p)
    BY <1>0, <2>2 DEF Match, PipesOK
  <2> QED
    BY <2>1, <2>3, QuietCounts
<1>6. CASE ReceiveAccept(t) \/ ReceiveNothing(t)
  BY <1>1, <1>6 DEF ReceiveAccept, ReceiveNothing, GoTo, Writing, TasksOK, pipeVars, routeVars, bufVars, queueVars
<1>7. ASSUME NEW p, SetPipeId(t, p), pc[t] \notin Writing \cup {"rx_export"} PROVE DepthExact' /\ LimitNotStuck'
  BY <1>1, <1>7 DEF SetPipeId, GoTo, TasksOK, routeVars, queueVars
<1>8. CASE ReceiveReject(t)
  <2>1. CASE Match(pid[t])
    BY <1>7, <1>8, <2>1 DEF ReceiveReject, Writing
  <2>2. CASE ~Match(pid[t])
    BY <1>1, <1>8, <2>2 DEF ReceiveReject, GoTo, Writing, TasksOK, pipeVars, routeVars, bufVars, queueVars
  <2> QED
    BY <2>1, <2>2
<1>9. ASSUME NEW m \in MsgIds, TransmitBuffer(t, m) PROVE DepthExact' /\ LimitNotStuck'
  BY <1>1, <1>9 DEF TransmitBuffer, Begins, GoTo, Writing, TasksOK, pipeVars, routeVars, bufVars, queueVars
<1>10. ASSUME NEW p \in PipeIds, ReceiveBegin(t, p) PROVE DepthExact' /\ LimitNotStuck'
  BY <1>7, <1>10 DEF ReceiveBegin, Begins, Writing
<1>11. ASSUME NEW p \in PipeIds, NEW on \in BOOLEAN, SetPipeOpts(t, p, on) PROVE DepthExact' /\ LimitNotStuck'
  BY <1>1, <1>11 DEF SetPipeOpts, Begins, Writing, TasksOK, taskVars, routeVars, bufVars, queueVars
<1>12. CASE t = ES /\ (CleanUpList \/ CleanUpZeroCopy)
  BY <1>1, <1>12 DEF CleanUpList, CleanUpZeroCopy, GoTo, Writing, TasksOK, pipeVars, routeVars, bufVars, queueVars
<1>13. ASSUME t = ES, NEW a \in Apps, CleanUpBegin(a) PROVE DepthExact' /\ LimitNotStuck'
  BY <1>1, <1>13 DEF CleanUpBegin, GoTo, Writing, TasksOK, pipeVars, routeVars, bufVars, queueVars
<1> QED
  BY <1>2, <1>3, <1>4, <1>5, <1>6, <1>8, <1>9, <1>10, <1>11, <1>12, <1>13

\* Nothing has changed that counts.
LEMMA StillCounts ==
  ASSUME IInv, IInv', DepthExact, LimitNotStuck, UNCHANGED <<pipeVars, routeVars, bufVars, queueVars, taskVars>>
  PROVE  DepthExact' /\ LimitNotStuck'
<1>1. UNCHANGED <<pipeId, curDepth, dest, bufMsg, queue, pc, pid, own, got, todo>>
  BY DEF pipeVars, routeVars, bufVars, queueVars, taskVars
<1>2. ASSUME NEW p \in PipeIds, NEW B \in SUBSET Bufs PROVE Outstanding(p, B)' = Outstanding(p, B)
  BY <1>1, OutKept DEF Pending
<1>3. \A p \in PipeIds : Match(p)' => Match(p)
  BY <1>1 DEF Match
<1> QED
  BY <1>1, <1>2, <1>3, CountsFrame

\* Every step keeps the depths exact, and no limit stuck.
LEMMA NextDepths ==
  IInv /\ CallInv /\ UseInv /\ DepthExact /\ LimitNotStuck /\ [Next]_vars => DepthExact' /\ LimitNotStuck'
<1> SUFFICES ASSUME IInv, CallInv, UseInv, DepthExact, LimitNotStuck, [Next]_vars PROVE DepthExact' /\ LimitNotStuck'
  OBVIOUS
<1>0. IInv'
  BY NextSafe
<1>1. ASSUME NEW t \in Tasks, CallBegins(t) PROVE DepthExact' /\ LimitNotStuck'
  <2>1. ASSUME NEW p \in PipeIds, DeleteBegin(t, p) PROVE DepthExact' /\ LimitNotStuck'
    <3>1. TearDown(t, p) /\ Match(p) /\ pc[t] \notin Writing \cup {"rx_export"}
      BY <2>1 DEF DeleteBegin, Begins, Writing
    <3> QED
      BY <1>0, <3>1, RouteCounts
  <2>2. ASSUME NEW p \in PipeIds, NEW m \in MsgIds, Unsubscribe(t, m, p) PROVE DepthExact' /\ LimitNotStuck'
    BY <1>0, <2>2, RouteCounts
  <2>3. ASSUME NEW p \in PipeIds, NEW m \in MsgIds, NEW lim \in MsgLims, Subscribe(t, m, p, lim)
        PROVE  DepthExact' /\ LimitNotStuck'
    BY <1>0, <2>3, RouteCounts
  <2>4. ASSUME NEW p \in PipeIds, \/ ReceiveBegin(t, p) \/ \E on \in BOOLEAN : SetPipeOpts(t, p, on)
        PROVE  DepthExact' /\ LimitNotStuck'
    BY <1>0, <2>4, OtherCounts
  <2>5. ASSUME \/ AllocateBegin(t) \/ ReleaseBuffer(t) \/ Exit(t) \/ \E m \in MsgIds : TransmitBuffer(t, m)
        PROVE  DepthExact' /\ LimitNotStuck'
    BY <1>0, <2>5, OtherCounts
  <2>6. CASE CreateReserve(t)
    BY <1>0, <2>6, CreateCounts
  <2> QED
    BY <1>1, <2>1, <2>2, <2>3, <2>4, <2>5, <2>6 DEF CallBegins
<1>2. ASSUME NEW t \in Tasks, Proceed(t) PROVE DepthExact' /\ LimitNotStuck'
  BY <1>0, <1>2, CreateCounts, OtherCounts, MovedCounts, AllocateCounts, FindDestinationsCounts, UndoPutCounts,
     ExportReferenceCounts
     DEF Proceed
<1>3. ASSUME NEW t \in Tasks, ReceiveNothing(t) PROVE DepthExact' /\ LimitNotStuck'
  BY <1>0, <1>3, OtherCounts
<1>4. CASE CleanUp
  <2>1. ASSUME NEW p \in delList, CleanUpPipe(p) PROVE DepthExact' /\ LimitNotStuck'
    <3>1. CASE Match(p) /\ pipeApp[SlotOf(p)] = victim
      <4>1. TearDown(ES, p) /\ p \in PipeIds /\ pc[ES] \notin Writing \cup {"rx_export"}
        BY <2>1, <3>1 DEF CleanUpPipe, Match, Writing
      <4> QED
        BY <1>0, <3>1, <4>1, TaskAssumption, RouteCounts
    <3>2. CASE ~ (Match(p) /\ pipeApp[SlotOf(p)] = victim)
      BY <1>0, <2>1, <3>2, StillCounts DEF CleanUpPipe
    <3> QED
      BY <3>1, <3>2
  <2>2. CASE CleanUpList \/ CleanUpZeroCopy \/ \E a \in Apps : CleanUpBegin(a)
    BY <1>0, <2>2, TaskAssumption, OtherCounts
  <2> QED
    BY <1>0, <1>4, <2>1, <2>2, CleanUpTasksCounts DEF CleanUp
<1>5. ASSUME NEW m \in MsgIds, NEW p \in PipeIds, NEW on \in BOOLEAN, RouteCmd(m, p, on)
      PROVE  DepthExact' /\ LimitNotStuck'
  BY <1>0, <1>5, TaskAssumption, RouteCounts
<1>6. CASE UNCHANGED vars
  BY <1>0, <1>6, StillCounts DEF vars
<1> QED
  BY <1>1, <1>2, <1>3, <1>4, <1>5, <1>6 DEF Next

-----------------------------------------------------------------------------
(* All the counts                                                          *)

\* At first there is nothing to count.
LEMMA InitCounts == Init => CountsExact
<1> SUFFICES ASSUME Init PROVE CountsExact
  OBVIOUS
<1> USE DEF Init
<1>1. \A p \in PipeIds : ~Match(p)
  BY SlotInRange DEF Match, PipeIds, FREE
<1>2. DepthExact
  BY <1>1 DEF DepthExact
<1>3. LimitNotStuck
  BY DEF LimitNotStuck
<1>4. LivePipes = {} /\ DeletingTasks = {} /\ UsedBufs = {}
  BY DEF LivePipes, DeletingTasks, UsedBufs, Deleting, PipeIds, FREE
<1>5. Subscriptions = {}
  BY DEF Subscriptions, Subscribed, Positions
<1>6. StatsExact
  BY <1>4, <1>5, FS_EmptySet DEF StatsExact
<1> QED
  BY <1>2, <1>3, <1>6 DEF CountsExact

\* Every step keeps all the counts exact.
LEMMA NextCounts == IInv /\ CallInv /\ UseInv /\ CountsExact /\ [Next]_vars => CountsExact'
<1> SUFFICES ASSUME IInv, CallInv, UseInv, CountsExact, [Next]_vars PROVE CountsExact'
  OBVIOUS
<1>1. PipesCounted /\ SubsCounted /\ BufsCounted
  BY DEF CountsExact, StatsExact, PipesCounted, SubsCounted, BufsCounted
<1>2. PipesCounted' /\ SubsCounted' /\ BufsCounted'
  BY <1>1, PipesCountedNext, SubsCountedNext, BufsCountedNext
<1>3. StatsExact'
  BY <1>2 DEF StatsExact, PipesCounted, SubsCounted, BufsCounted
<1> QED
  BY <1>3, NextDepths DEF CountsExact

-----------------------------------------------------------------------------
(* The theorems                                                            *)

\* The inductive invariant, with IInv.
BusInv == CallInv /\ QueueInv /\ UseInv /\ HeldOK /\ LostInv /\ CountsExact

\* What the calls rely on holds in every state that can be reached.
LEMMA BusInvariant ==
  ASSUME Orderly, RoomForDests
  PROVE  Spec => [](IInv /\ BusInv)
<1>1. Init => IInv /\ BusInv
  BY InitSafe, InitCalls, InitQueues, InitUse, InitHeld, InitLost, InitCounts DEF BusInv
<1>2. IInv /\ BusInv /\ [Next]_vars => (IInv /\ BusInv)'
  BY NextSafe, NextCalls, NextQueues, NextUse, NextHeld, NextLost, NextCounts DEF BusInv
<1> QED
  BY <1>1, <1>2, PTL DEF Spec

\* CFE_SB_IncrBufUseCnt and CFE_SB_DecrBufUseCnt are called at a dozen places, in
\* sections of their own: whatever the tasks do meanwhile, the use count of a buffer is
\* the number of places that hold it and of the writes of it that went with the queue of
\* a deleted pipe.  No buffer is recycled while something holds it, and with every
\* application left to exit nothing else leaks one.
THEOREM UseCountsAlwaysAccounted ==
  ASSUME Orderly, RoomForDests
  PROVE  Spec => []UseCountAccounted
<1>1. BusInv => UseCountAccounted
  BY DEF BusInv, UseInv
<1> QED
  BY <1>1, BusInvariant, PTL

\* A message that CFE_SB_ReceiveBuffer returned stays allocated, and the pipe's last
\* buffer, until its reader's next call or the end of the pipe; a buffer that a task fills
\* or sends is allocated, and no other task's.
THEOREM HoldersAlwaysKeepBuffers ==
  ASSUME Orderly, RoomForDests
  PROVE  Spec => []HoldersKeepBuffers
<1>1. IInv /\ BusInv => HoldersKeepBuffers
  BY HoldersSafe DEF BusInv
<1> QED
  BY <1>1, BusInvariant, PTL

\* No slot of the pipe table stays reserved by a call that has ended; nothing of an
\* application that CFE_ES_CleanUpApp has deleted is the bus's to give out any more: no
\* pipe, no message on a queue, no zero-copy buffer, no subscription; and the messages
\* that the deletion of a pipe throws away, and never accounts for, are at most one of
\* each task that sends, however deep the queue is and however often each of them sends.
THEOREM AlwaysCleanedUp ==
  ASSUME Orderly, RoomForDests
  PROVE  Spec => []CleanedUp
<1>1. IInv /\ BusInv => CleanedUp
  BY LeftClean DEF BusInv
<1> QED
  BY <1>1, BusInvariant, PTL

\* The depth of a pipe, the limit of a subscription and the statistics are raised and lowered
\* by several tasks, in sections of their own: the depth of a pipe that exists is the number
\* of messages on their way to it, no subscription counts more of its messages than there
\* are, and the statistics are those that the tables give.
THEOREM CountsAlwaysExact ==
  ASSUME Orderly, RoomForDests
  PROVE  Spec => []CountsExact
<1>1. BusInv => CountsExact
  BY DEF BusInv
<1> QED
  BY <1>1, BusInvariant, PTL

=============================================================================
