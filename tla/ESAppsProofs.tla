---------------------------- MODULE ESAppsProofs ----------------------------
(***************************************************************************)
(* Proofs about the life of applications and tasks, for any number of      *)
(* applications, tasks, names, tables of any size and any timer.           *)
(***************************************************************************)
EXTENDS ESApps, FiniteSetTheorems, WellFoundedInduction, TLAPS

-----------------------------------------------------------------------------
(* The invariant: the applications                                         *)

Busy(c) == step[c] # "idle"
Deleting(s) == scan = "tasks" /\ AppSlot(victim) = s

\* An ID that was given, is valid no more, and that nobody will make valid again.
Dead(a) == a \in 1 .. lastApp /\ ~IsMatch(a) /\ \A c \in Creators : Busy(c) => newApp[c] # a

\* An application that a scan has found to have ended.
Ending(a) == IsMatch(a) /\ appState[AppSlot(a)] \in {"waiting", "stopped"}

\* The records of the applications there are, and what was asked of each.
AppsOK ==
  \A s \in AppSlots : appId[s] \in AppIds =>
    /\ AppSlot(appId[s]) = s /\ appId[s] <= lastApp
    /\ asked[appId[s]] = request[s] \/ (asked[appId[s]] = "run" /\ request[s] = "exit")
    /\ appState[s] \in {"waiting", "stopped"} => request[s] # "run"
FreshIds == \A a \in AppIds : a > lastApp => asked[a] = "run"

\* Who creates an application has reserved a slot for it, alone, and it is as new.
CreationOK(c) ==
  LET s == AppSlot(newApp[c]) IN
  /\ newApp[c] \in 1 .. lastApp /\ appId[s] = RESERVED
  /\ appState[s] = "init" /\ request[s] = "run" /\ asked[newApp[c]] = "run"
  /\ ~Deleting(s)
  /\ \A d \in Creators : Busy(d) /\ AppSlot(newApp[d]) = s => d = c
CreationsOK ==
  /\ \A c \in Creators : Busy(c) => CreationOK(c)
  /\ Busy(Background) <=> scan = "creating"

\* A reserved slot has somebody at work on it.
ReservedOwned ==
  \A s \in AppSlots : appId[s] = RESERVED =>
    Deleting(s) \/ \E c \in Creators : Busy(c) /\ AppSlot(newApp[c]) = s

\* The background task works on applications that have ended, each once.
ScanOK ==
  /\ \A a \in due : Ending(a) /\ (scan # "process" => a # victim)
  /\ scan = "idle" => due = {}
  /\ scan \in {"clean", "tasks", "restart", "creating"} => victim \in AppIds
  /\ scan = "clean" => Ending(victim)
  /\ scan \in {"tasks", "restart", "creating"} => Dead(victim)
  /\ scan = "tasks" => appId[AppSlot(victim)] = RESERVED

AppsCounted == regApps = Cardinality({s \in AppSlots : appId[s] \in AppIds})

AppsInv ==
  /\ AppsOK /\ FreshIds /\ CreationsOK /\ ReservedOwned /\ ScanOK
  /\ NamesUnique /\ LastRequestWins /\ AppsCounted

-----------------------------------------------------------------------------
(* The invariant: the tasks                                                *)

\* Two tasks that there are have two slots.
TasksApart ==
  \A t, u \in TaskIds : Alive(t) /\ Alive(u) /\ TaskSlot(t) = TaskSlot(u) => t = u
FreshTasks ==
  /\ \A t \in TaskIds : t > lastTask => phase[t] = "none" /\ ~Busy(t)
  /\ \A s \in TaskSlots : taskId[s] <= lastTask
  /\ \A t \in taskList : t <= lastTask

\* Of which application a task is, a child like the task that creates it.
BornOK ==
  /\ \A t \in TaskIds : born[t] <= lastApp
  /\ \A c \in TaskIds : Busy(c) => newApp[c] = born[c] /\ newApp[c] \in 1 .. lastApp

\* The tasks that clean-up works on are of the application it deletes.
ListOK ==
  /\ \A t \in taskList : born[t] = victim
  /\ scan # "tasks" => taskList = {}

\* A record is of the task whose ID it has, or clean-up will free it.
RecordsOK ==
  /\ \A s \in TaskSlots : taskId[s] \in TaskIds =>
       TaskSlot(taskId[s]) = s /\ taskApp[s] = born[taskId[s]]
  /\ \A s \in TaskSlots : taskId[s] = RESERVED => \E t \in taskList : TaskSlot(t) = s

\* A task whose record is still to be written has not run, and is there unless
\* clean-up deletes its creator.
RecordingOK ==
  \A c \in Parents :
    /\ step[c] \in {"load", "finish", "abort"} => c \in Creators
    /\ step[c] = "record" =>
         LET t == newTask[c] IN
         /\ t \in 1 .. lastTask /\ creator[t] = c /\ born[t] = newApp[c]
         /\ t \notin taskList /\ taskId[TaskSlot(t)] # t
         /\ phase[t] = "poll" \/ (phase[t] = "gone" /\ c \in todo)

\* ContextKept, from the moment an application is being created.
Lost(s) == \E u \in TaskIds : taskId[s] = u /\ phase[u] = "gone" /\ Dead(born[u])
KeptOK ==
  \A t \in TaskIds : phase[t] \in {"run", "stopped"} /\ ~Dead(born[t]) =>
    \/ HasRecord(t) /\ ContextOf(t) = born[t]
    \/ Lost(TaskSlot(t))

TasksCounted == regTasks >= Cardinality({s \in TaskSlots : taskId[s] \in TaskIds})

TasksInv ==
  /\ TasksApart /\ FreshTasks /\ BornOK /\ ListOK
  /\ RecordsOK /\ RecordingOK /\ KeptOK /\ TasksCounted

IInv == TypeOK /\ AppsInv /\ TasksInv

-----------------------------------------------------------------------------
(* Constants, slots, least elements and counts                             *)

LEMMA Constants ==
  /\ MaxApps \in Nat \ {0} /\ MaxTasks \in Nat \ {0} /\ KillTime \in Nat \ {0}
  /\ LastApp \in Nat /\ LastTask \in Nat
  /\ NoName \notin Names /\ Background \notin Starters
  /\ (Starters \cup {Background}) \cap TaskIds = {}
BY TableAssumption, BoundAssumption, NamesAssumption, StartersAssumption

\* A slot is a remainder; what is in a table without being an ID.
LEMMA SlotTypes ==
  /\ \A a \in Nat : AppSlot(a) \in AppSlots
  /\ \A t \in Nat : TaskSlot(t) \in TaskSlots
BY Constants DEF AppSlot, AppSlots, TaskSlot, TaskSlots

LEMMA IdTypes ==
  /\ AppIds \subseteq Nat \ {0} /\ TaskIds \subseteq Nat \ {0}
  /\ FREE \notin AppIds /\ RESERVED \notin AppIds /\ FREE # RESERVED
  /\ FREE \notin TaskIds /\ RESERVED \notin TaskIds
  /\ \A a \in AppIds : AppSlot(a) \in AppSlots
  /\ \A t \in TaskIds : TaskSlot(t) \in TaskSlots
  /\ Creators \cap TaskIds = {} /\ Parents = Creators \cup TaskIds /\ Background \in Creators
  /\ Starters \subseteq Creators
BY Constants, SlotTypes DEF AppIds, TaskIds, FREE, RESERVED, Creators, Parents

\* The least ID of several is one of them.
LEMMA LowestOf ==
  ASSUME NEW S \in SUBSET Nat, S # {}
  PROVE  Lowest(S) \in S
<1>1. PICK x \in S : \A y \in S : <<y, x>> \notin OpToRel(<, Nat)
  BY WFMin, NatLessThanWellFounded
<1>2. \A y \in S : ~(y < x)
  BY <1>1, Zenon DEF OpToRel
<1>3. \A y \in S : x <= y
  BY <1>2
<1> QED
  BY <1>3 DEF Lowest

\* Slots are finitely many, and so are those of a set of them.
LEMMA SlotCount ==
  ASSUME NEW n \in Nat, NEW S \in SUBSET (0 .. n - 1)
  PROVE  IsFiniteSet(S) /\ Cardinality(S) \in Nat
<1>1. IsFiniteSet(0 .. n - 1)
  BY FS_Interval
<1> QED
  BY <1>1, FS_Subset, FS_CardinalityType

\* ... one more or one less, and without some of them.
LEMMA SlotCountStep ==
  ASSUME NEW n \in Nat, NEW S \in SUBSET (0 .. n - 1), NEW s \in 0 .. n - 1
  PROVE  /\ s \notin S => Cardinality(S \cup {s}) = Cardinality(S) + 1
         /\ s \in S => Cardinality(S \ {s}) = Cardinality(S) - 1
BY SlotCount, FS_AddElement, FS_RemoveElement

LEMMA SlotCountLess ==
  ASSUME NEW n \in Nat, NEW S \in SUBSET (0 .. n - 1), NEW M \in SUBSET S
  PROVE  Cardinality(S \ M) = Cardinality(S) - Cardinality(M)
<1>1. IsFiniteSet(S) /\ IsFiniteSet(M)
  BY SlotCount
<1>2. S \cap M = M
  OBVIOUS
<1> QED
  BY <1>1, <1>2, FS_Difference

-----------------------------------------------------------------------------
(* What the invariant says of the properties                               *)

\* Who is at work on a slot is one, and that it is reserved tells it.
LEMMA OwnersOfSlots ==
  ASSUME TypeOK, AppsInv
  PROVE  SlotsOwned
<1> SUFFICES ASSUME NEW s \in AppSlots
             PROVE  AtWork(s) = IF appId[s] = RESERVED THEN 1 ELSE 0
  BY DEF SlotsOwned
<1> DEFINE W == {c \in Creators : step[c] # "idle" /\ AppSlot(newApp[c]) = s}
<1>1. \A c \in W : W = {c} /\ appId[s] = RESERVED /\ ~Deleting(s)
  BY DEF AppsInv, CreationsOK, CreationOK, Busy
<1>2. Deleting(s) => appId[s] = RESERVED
  BY DEF AppsInv, ScanOK, Deleting
<1>3. W = {} /\ ~Deleting(s) => appId[s] # RESERVED
  BY DEF AppsInv, ReservedOwned, Busy
<1>4. Cardinality({}) = 0 /\ \A c \in W : Cardinality({c}) = 1
  BY FS_EmptySet, FS_Singleton
<1>5. AtWork(s) = Cardinality(W) + IF Deleting(s) THEN 1 ELSE 0
  BY DEF AtWork, Deleting
<1> HIDE DEF W
<1>6. CASE W = {}
  BY <1>2, <1>3, <1>4, <1>5, <1>6
<1>7. CASE W # {}
  BY <1>1, <1>4, <1>5, <1>7
<1> QED
  BY <1>6, <1>7

LEMMA Implied ==
  ASSUME IInv
  PROVE  RecordsSound /\ TasksKnown /\ LastRequestWins
<1>1. RecordsSound
  BY OwnersOfSlots DEF IInv, AppsInv, RecordsSound
<1>2. ContextKept
  <2>1. \A a \in Int : Dead(a) => ~IsMatch(a)
    BY DEF Dead
  <2> QED
    BY DEF IInv, TasksInv, KeptOK, ContextKept, Dead, Lost, Stray
<1>3. CountsCover
  BY DEF IInv, AppsInv, TasksInv, AppsCounted, TasksCounted, CountsCover
<1> QED
  BY <1>1, <1>2, <1>3 DEF IInv, AppsInv, TasksKnown

-----------------------------------------------------------------------------
(* What steps have in common                                               *)

\* An ID that is dead stays so: what is made valid is what was being created.
LEMMA DeadStays ==
  ASSUME TypeOK, lastApp' \in Nat, lastApp' >= lastApp,
         \A s \in AppSlots : appId'[s] \in AppIds =>
           \/ appId'[s] = appId[s]
           \/ \E c \in Creators : Busy(c) /\ appId'[s] = newApp[c],
         \A c \in Creators : Busy(c)' =>
           (Busy(c) /\ newApp'[c] = newApp[c]) \/ newApp'[c] > lastApp
  PROVE  \A a : Dead(a) => Dead(a)'
<1> SUFFICES ASSUME NEW a, Dead(a)
             PROVE  Dead(a)'
  OBVIOUS
<1>1. a \in 1 .. lastApp /\ a \in 1 .. lastApp'
  BY DEF Dead, TypeOK
<1>2. ~IsMatch(a)'
  BY IdTypes DEF Dead, IsMatch
<1>3. \A c \in Creators : Busy(c)' => newApp'[c] # a
  BY <1>1 DEF Dead, TypeOK
<1> QED
  BY <1>1, <1>2, <1>3 DEF Dead

\* Steps that have nothing to do with the applications.
LEMMA AppsFrame ==
  ASSUME TypeOK, AppsInv,
         UNCHANGED <<appId, appName, appState, request, lastApp, regApps,
                     scan, due, victim, snapshot, asked>>,
         \A c \in Creators : /\ Busy(c)' <=> Busy(c)
                             /\ Busy(c) => newApp'[c] = newApp[c]
  PROVE  AppsInv'
<1>1. \A a : Dead(a) => Dead(a)'
  BY DEF Dead, IsMatch
<1>2. AppsOK' /\ FreshIds' /\ NamesUnique' /\ LastRequestWins' /\ AppsCounted'
  BY DEF AppsInv, AppsOK, FreshIds, NamesUnique, LastRequestWins, AppsCounted
<1>3. CreationsOK' /\ ReservedOwned'
  BY IdTypes DEF AppsInv, CreationsOK, CreationOK, ReservedOwned, Deleting
<1>4. ScanOK'
  BY <1>1 DEF AppsInv, ScanOK, Ending, IsMatch
<1> QED
  BY <1>2, <1>3, <1>4 DEF AppsInv

\* Steps that have nothing to do with the tasks.
LEMMA TasksFrame ==
  ASSUME TypeOK, TasksInv, UNCHANGED <<recordVars, osVars, taskList, todo>>,
         lastApp' \in Nat, lastApp' >= lastApp,
         \A a : Dead(a) => Dead(a)',
         \/ UNCHANGED victim /\ (scan' = "tasks" <=> scan = "tasks")
         \/ taskList = {} /\ scan' # "tasks",
         \A c \in Parents :
           /\ step'[c] = "record" => step[c] = "record" /\ UNCHANGED <<newApp[c], newTask[c]>>
           /\ step'[c] \in {"load", "finish", "abort"} => c \in Creators
           /\ c \in TaskIds => UNCHANGED <<step[c], newApp[c]>> \/ ~Busy(c)'
  PROVE  TasksInv'
<1> USE DEF recordVars, osVars
<1>1. TasksApart' /\ FreshTasks' /\ ListOK' /\ RecordsOK' /\ TasksCounted'
  BY IdTypes DEF TasksInv, TasksApart, FreshTasks, ListOK, RecordsOK, TasksCounted, Alive, Busy
<1>2. BornOK'
  <2>1. \A t \in TaskIds : born[t] \in Int /\ born[t] <= lastApp /\ born'[t] = born[t]
    BY IdTypes DEF TasksInv, BornOK, TypeOK, AppIds, FREE
  <2>2. lastApp \in Nat
    BY DEF TypeOK
  <2> QED
    BY <2>1, <2>2, IdTypes DEF TasksInv, BornOK, Busy
<1>3. RecordingOK'
  BY DEF TasksInv, RecordingOK
<1>4. KeptOK'
  BY DEF TasksInv, KeptOK, Lost, HasRecord, ContextOf
<1> QED
  BY <1>1, <1>2, <1>3, <1>4 DEF TasksInv

LEMMA InitInv == Init => IInv
<1> SUFFICES ASSUME Init
             PROVE  IInv
  OBVIOUS
<1> USE DEF Init
<1>1. TypeOK
  BY Constants, IdTypes DEF TypeOK, Requests
<1>2. {s \in AppSlots : appId[s] \in AppIds} = {} /\ {s \in TaskSlots : taskId[s] \in TaskIds} = {}
  BY IdTypes
<1>3. AppsInv
  BY <1>2, IdTypes, FS_EmptySet DEF AppsInv, AppsOK, FreshIds, CreationsOK, ReservedOwned, ScanOK,
       NamesUnique, LastRequestWins, AppsCounted, Busy, FREE, RESERVED
<1>4. TasksInv
  <2>1. TasksApart /\ FreshTasks
    BY IdTypes DEF TasksApart, FreshTasks, Alive, Busy, FREE
  <2>2. BornOK /\ ListOK /\ RecordsOK /\ RecordingOK
    BY IdTypes DEF BornOK, ListOK, RecordsOK, RecordingOK, Busy, FREE, RESERVED
  <2>3. KeptOK
    BY DEF KeptOK
  <2>4. TasksCounted
    <3> DEFINE U == {s \in TaskSlots : taskId[s] \in TaskIds}
    <3>1. Cardinality(U) = 0
      BY <1>2, FS_EmptySet, Zenon
    <3>2. regTasks >= Cardinality(U)
      <4> HIDE DEF U
      <4> QED
        BY <3>1
    <3> QED
      BY <3>2 DEF TasksCounted
  <2> QED
    BY <2>1, <2>2, <2>3, <2>4 DEF TasksInv
<1> QED
  BY <1>1, <1>3, <1>4 DEF IInv

-----------------------------------------------------------------------------
(* Steps that change one task                                              *)

\* A task that is there goes to another place, and its record stays.
LEMMA PhaseStep ==
  ASSUME TypeOK, TasksInv, NEW u \in TaskIds, Alive(u),
         NEW p \in {"run", "stopped", "leaving", "gone"},
         phase' = [phase EXCEPT ![u] = p],
         UNCHANGED <<recordVars, lastTask, born, creator, createVars, taskList, todo, scan,
                     victim, lastApp>>,
         \A a : Dead(a) => Dead(a)',
         \A c \in Parents : step[c] = "record" /\ newTask[c] = u => p = "gone" /\ c \in todo,
         p \in {"run", "stopped"} => HasRecord(u)
  PROVE  TasksInv'
<1> USE DEF recordVars, createVars
<1>1. /\ phase'[u] = p /\ \A t \in TaskIds : t # u => phase'[t] = phase[t]
      /\ \A t \in TaskIds : Alive(t)' => Alive(t)
      /\ \A t \in TaskIds : phase[t] = "gone" => phase'[t] = "gone"
  BY DEF TypeOK, Alive
<1>2. TasksApart' /\ FreshTasks'
  BY <1>1 DEF TasksInv, TasksApart, FreshTasks, TaskSlot, Alive, Busy
<1>3. BornOK' /\ ListOK' /\ RecordsOK' /\ TasksCounted'
  BY DEF TasksInv, BornOK, ListOK, RecordsOK, TasksCounted, Busy
<1>4. RecordingOK'
  <2> SUFFICES ASSUME NEW c \in Parents, step[c] = "record"
               PROVE  phase'[newTask[c]] = "poll" \/ (phase'[newTask[c]] = "gone" /\ c \in todo)
    BY DEF TasksInv, RecordingOK
  <2>1. newTask[c] \in TaskIds
    BY Constants DEF TasksInv, RecordingOK, TypeOK, TaskIds
  <2> QED
    BY <1>1, <2>1 DEF TasksInv, RecordingOK
<1>5. KeptOK'
  <2> SUFFICES ASSUME NEW t \in TaskIds, phase'[t] \in {"run", "stopped"}, ~Dead(born[t])'
               PROVE  (HasRecord(t) /\ ContextOf(t) = born[t]) \/ Lost(TaskSlot(t))'
    BY DEF KeptOK, HasRecord, ContextOf
  <2>1. ~Dead(born[t])
    OBVIOUS
  <2>2. \A s : Lost(s) => Lost(s)'
    BY <1>1 DEF Lost
  <2>3. CASE t = u
    BY <1>1, <2>3, IdTypes DEF TasksInv, RecordsOK, HasRecord, ContextOf
  <2>4. CASE t # u
    BY <1>1, <2>1, <2>2, <2>4 DEF TasksInv, KeptOK
  <2> QED
    BY <2>3, <2>4
<1> QED
  BY <1>2, <1>3, <1>4, <1>5 DEF TasksInv

\* A task that is there ends, or begins to, and its record is free.
LEMMA RecordStep ==
  ASSUME TypeOK, TasksInv, NEW u \in TaskIds, Alive(u), HasRecord(u),
         NEW p \in {"leaving", "gone"},
         phase' = [phase EXCEPT ![u] = p],
         taskId' = [taskId EXCEPT ![TaskSlot(u)] = FREE], regTasks' = regTasks - 1,
         UNCHANGED <<taskApp, lastTask, born, creator, createVars, taskList, todo, scan,
                     victim, lastApp>>,
         \A a : Dead(a) => Dead(a)'
  PROVE  TasksInv' /\ regTasks' \in Nat
<1> USE DEF createVars
<1>1. /\ phase'[u] = p /\ \A t \in TaskIds : t # u => phase'[t] = phase[t]
      /\ \A t \in TaskIds : Alive(t)' => Alive(t)
      /\ \A t \in TaskIds : phase[t] = "gone" => phase'[t] = "gone"
  BY DEF TypeOK, Alive
<1>2. /\ TaskSlot(u) \in TaskSlots /\ taskId'[TaskSlot(u)] = FREE
      /\ \A s \in TaskSlots : s # TaskSlot(u) => taskId'[s] = taskId[s]
      /\ taskId[TaskSlot(u)] = u
  BY IdTypes DEF TypeOK, HasRecord
<1>3. TasksApart'
  BY <1>1 DEF TasksInv, TasksApart, TaskSlot
<1>4. FreshTasks'
  <2>1. u <= lastTask /\ lastTask \in Nat
    BY IdTypes DEF TasksInv, FreshTasks, TypeOK, Alive
  <2> QED
    BY <1>1, <1>2, <2>1, IdTypes DEF TasksInv, FreshTasks, FREE, Busy
<1>5. BornOK' /\ ListOK'
  BY DEF TasksInv, BornOK, ListOK, Busy
<1>6. RecordsOK'
  BY <1>2, IdTypes DEF TasksInv, RecordsOK
<1>7. RecordingOK'
  <2> SUFFICES ASSUME NEW c \in Parents, step[c] = "record"
               PROVE  /\ taskId'[TaskSlot(newTask[c])] # newTask[c]
                      /\ \/ phase'[newTask[c]] = "poll"
                         \/ phase'[newTask[c]] = "gone" /\ c \in todo
    BY DEF TasksInv, RecordingOK, TaskSlot
  <2>1. newTask[c] \in TaskIds /\ newTask[c] # u
    <3>1. newTask[c] \in 1 .. lastTask /\ taskId[TaskSlot(newTask[c])] # newTask[c]
      BY DEF TasksInv, RecordingOK
    <3>2. newTask[c] \in TaskIds
      BY <3>1, Constants DEF TypeOK, TaskIds
    <3>3. newTask[c] # u
      BY <1>2, <3>1
    <3> QED
      BY <3>2, <3>3
  <2>2. TaskSlot(newTask[c]) \in TaskSlots
    BY <2>1, IdTypes
  <2> QED
    BY <1>1, <1>2, <2>1, <2>2, IdTypes DEF TasksInv, RecordingOK
<1>8. KeptOK'
  <2> SUFFICES ASSUME NEW t \in TaskIds, phase'[t] \in {"run", "stopped"}, ~Dead(born[t])'
               PROVE  (taskId'[TaskSlot(t)] = t /\ taskApp[TaskSlot(t)] = born[t])
                      \/ Lost(TaskSlot(t))'
    BY DEF KeptOK, HasRecord, ContextOf, TaskSlot
  <2>1. ~Dead(born[t]) /\ t # u /\ phase[t] \in {"run", "stopped"}
    BY <1>1
  <2>2. TaskSlot(t) # TaskSlot(u) /\ TaskSlot(t) \in TaskSlots
    BY <2>1, IdTypes DEF TasksInv, TasksApart, Alive
  <2>3. Lost(TaskSlot(t)) => Lost(TaskSlot(t))'
    BY <1>1, <1>2, <2>2 DEF Lost, TaskSlot
  <2> QED
    BY <1>2, <2>1, <2>2, <2>3 DEF TasksInv, KeptOK, HasRecord, ContextOf
<1>9. TasksCounted' /\ regTasks' \in Nat
  <2> DEFINE U == {s \in TaskSlots : taskId[s] \in TaskIds}
             V == {s \in TaskSlots : taskId'[s] \in TaskIds}
  <2>1. V = U \ {TaskSlot(u)} /\ TaskSlot(u) \in U
    BY <1>2, IdTypes
  <2>2. regTasks >= Cardinality(U) /\ regTasks \in Nat
    BY DEF TasksInv, TasksCounted, TypeOK
  <2>3. U \in SUBSET (0 .. MaxTasks - 1) /\ V \in SUBSET (0 .. MaxTasks - 1)
        /\ TaskSlot(u) \in 0 .. MaxTasks - 1 /\ MaxTasks \in Nat
    BY <1>2, Constants DEF TaskSlots
  <2> HIDE DEF U, V
  <2>4. /\ Cardinality(V) = Cardinality(U) - 1
        /\ Cardinality(V) \in Nat /\ Cardinality(U) \in Nat
    BY <2>1, <2>3, SlotCount, SlotCountStep
  <2>5. regTasks' >= Cardinality(V) /\ regTasks' \in Nat
    BY <2>2, <2>4
  <2> QED
    BY <2>5 DEF TasksCounted, V
<1> QED
  BY <1>3, <1>4, <1>5, <1>6, <1>7, <1>8, <1>9 DEF TasksInv

-----------------------------------------------------------------------------
(* The steps of tasks                                                      *)

\* A task that is there and goes to another place, and nothing else.
LEMMA OnlyPhase ==
  ASSUME IInv, NEW u \in TaskIds, Alive(u), NEW p \in {"run", "leaving", "gone"},
         phase' = [phase EXCEPT ![u] = p],
         UNCHANGED <<tableVars, recordVars, lastTask, born, creator, createVars, scanVars, asked>>,
         \A c \in Parents : step[c] = "record" /\ newTask[c] = u => p = "gone" /\ c \in todo,
         p = "run" => HasRecord(u)
  PROVE  IInv'
<1> USE DEF IInv, tableVars, recordVars, createVars, scanVars
<1>1. TypeOK'
  BY DEF TypeOK
<1>2. AppsInv'
  BY AppsFrame DEF Busy
<1>3. TasksInv'
  <2>1. \A a : Dead(a) => Dead(a)'
    BY DEF Dead, IsMatch, Busy
  <2> QED
    BY <2>1, PhaseStep
<1> QED
  BY <1>1, <1>2, <1>3

LEMMA WakeInv ==
  ASSUME IInv, NEW t \in TaskIds, Wake(t)
  PROVE  IInv'
<1>1. CASE GetTaskFunction(t)
  <2>1. \A c \in Parents : step[c] = "record" => newTask[c] # t
    BY <1>1 DEF IInv, TasksInv, RecordingOK, GetTaskFunction, HasRecord
  <2> QED
    BY <1>1, <2>1, OnlyPhase DEF GetTaskFunction, Alive
<1>2. CASE GiveUp(t)
  BY <1>2, OnlyPhase DEF GiveUp, Alive
<1>3. CASE TaskExit(t)
  <2>1. \A c \in Parents : step[c] = "record" => newTask[c] # t
    BY <1>3 DEF IInv, TasksInv, RecordingOK, TaskExit
  <2> QED
    BY <1>3, <2>1, OnlyPhase DEF TaskExit, Alive
<1> QED
  BY <1>1, <1>2, <1>3 DEF Wake

LEMMA EntryReturnsInv ==
  ASSUME IInv, NEW t \in TaskIds, EntryReturns(t)
  PROVE  IInv'
<1>1. \A c \in Parents : step[c] = "record" => newTask[c] # t
  BY DEF IInv, TasksInv, RecordingOK, EntryReturns, Runs
<1> QED
  BY <1>1, OnlyPhase DEF EntryReturns, Runs, Alive

\* Clean-up deletes a task that another one has created; that one may be about to
\* write its record.
LEMMA DeleteOwnedInv ==
  ASSUME IInv, NEW t \in todo, NEW u \in TaskIds, DeleteOwned(t, u)
  PROVE  IInv'
<1>1. \A c \in Parents : step[c] = "record" /\ newTask[c] = u => c \in todo
  BY DEF IInv, TasksInv, RecordingOK, DeleteOwned
<1> QED
  BY <1>1, OnlyPhase DEF DeleteOwned

\* A task that ends with its record.
LEMMA EndsWithRecord ==
  ASSUME IInv, NEW u \in TaskIds, Alive(u), HasRecord(u), NEW p \in {"leaving", "gone"},
         phase' = [phase EXCEPT ![u] = p],
         taskId' = [taskId EXCEPT ![TaskSlot(u)] = FREE], regTasks' = regTasks - 1,
         UNCHANGED <<tableVars, taskApp, lastTask, born, creator, createVars, scanVars, asked>>
  PROVE  IInv'
<1> USE DEF IInv, tableVars, createVars, scanVars
<1>1. AppsInv'
  BY AppsFrame DEF Busy
<1>2. TasksInv' /\ regTasks' \in Nat
  <2>1. \A a : Dead(a) => Dead(a)'
    BY DEF Dead, IsMatch, Busy
  <2> QED
    BY <2>1, RecordStep
<1>3. TypeOK'
  BY <1>2 DEF TypeOK
<1> QED
  BY <1>1, <1>2, <1>3

LEMMA ChildEndsInv ==
  ASSUME IInv, NEW t \in TaskIds,
         ExitChildTask(t) \/ \E u \in TaskIds : DeleteChildTask(t, u)
  PROVE  IInv'
<1>1. CASE ExitChildTask(t)
  BY <1>1, EndsWithRecord DEF ExitChildTask, Runs, HasContext, Alive
<1>2. ASSUME NEW u \in TaskIds, DeleteChildTask(t, u)
      PROVE  IInv'
  BY <1>2, EndsWithRecord DEF DeleteChildTask
<1> QED
  BY <1>1, <1>2

LEMMA RunLoopInv ==
  ASSUME IInv, NEW t \in TaskIds, RunLoop(t)
  PROVE  IInv'
<1> USE DEF IInv, RunLoop, recordVars, osVars, createVars, scanVars
<1>1. Slot(t) \in AppSlots /\ appId[Slot(t)] \in AppIds /\ appState[Slot(t)] = "init"
  BY IdTypes DEF HasContext, IsMatch, Slot
<1>2. TypeOK'
  BY DEF TypeOK
<1>3. \A a : Dead(a) => Dead(a)'
  BY DEF Dead, IsMatch, Busy
<1>4. \A s \in AppSlots : /\ appState'[s] = IF s = Slot(t) THEN "running" ELSE appState[s]
  BY DEF TypeOK
<1>5. AppsOK' /\ FreshIds' /\ ReservedOwned' /\ NamesUnique' /\ LastRequestWins' /\ AppsCounted'
  BY <1>4 DEF AppsInv, AppsOK, FreshIds, ReservedOwned, NamesUnique, LastRequestWins, AppsCounted,
       Busy, Deleting
<1>6. CreationsOK'
  <2>1. \A c \in Creators : Busy(c) => AppSlot(newApp[c]) # Slot(t)
    BY <1>1, IdTypes DEF AppsInv, CreationsOK, CreationOK
  <2>2. \A c \in Creators : Busy(c) => AppSlot(newApp[c]) \in AppSlots
    BY SlotTypes DEF AppsInv, CreationsOK, CreationOK
  <2> QED
    BY <1>4, <2>1, <2>2 DEF AppsInv, CreationsOK, CreationOK, Busy, Deleting
<1>7. ScanOK'
  <2>1. \A a \in Int : Ending(a) => Ending(a)'
    BY <1>1, <1>4, IdTypes DEF Ending, IsMatch
  <2> QED
    BY <1>3, <2>1, IdTypes DEF AppsInv, ScanOK, Dead, TypeOK
<1>8. TasksInv'
  BY <1>3, TasksFrame DEF TypeOK, TasksInv, RecordingOK
<1> QED
  BY <1>2, <1>5, <1>6, <1>7, <1>8 DEF AppsInv

LEMMA ExitAppInv ==
  ASSUME IInv, NEW t \in TaskIds, ExitApp(t)
  PROVE  IInv'
<1> USE DEF IInv, ExitApp, recordVars, createVars, scanVars
<1>1. Slot(t) \in AppSlots /\ appId[Slot(t)] \in AppIds
  BY IdTypes DEF HasContext, IsMatch, Slot
<1>2. \A s \in AppSlots :
        /\ appState'[s] = IF s = Slot(t) THEN "stopped" ELSE appState[s]
        /\ request'[s] = IF s = Slot(t) /\ request[s] = "run" THEN "exit" ELSE request[s]
  BY <1>1 DEF TypeOK, Exiting
<1>3. TypeOK'
  <2>1. Exiting(Slot(t)) \in Requests
    BY <1>1 DEF TypeOK, Exiting, Requests
  <2> QED
    BY <2>1 DEF TypeOK
<1>4. \A a : Dead(a) => Dead(a)'
  BY DEF Dead, IsMatch, Busy
<1>5. AppsOK'
  BY <1>2 DEF AppsInv, AppsOK
<1>6. FreshIds' /\ ReservedOwned' /\ NamesUnique' /\ LastRequestWins' /\ AppsCounted'
  BY DEF AppsInv, FreshIds, ReservedOwned, NamesUnique, LastRequestWins, AppsCounted, Busy, Deleting
<1>7. CreationsOK'
  <2>1. \A c \in Creators : Busy(c) => AppSlot(newApp[c]) # Slot(t)
    BY <1>1, IdTypes DEF AppsInv, CreationsOK, CreationOK
  <2>2. \A c \in Creators : Busy(c) => AppSlot(newApp[c]) \in AppSlots
    BY SlotTypes DEF AppsInv, CreationsOK, CreationOK
  <2> QED
    BY <1>2, <2>1, <2>2 DEF AppsInv, CreationsOK, CreationOK, Busy, Deleting
<1>8. ScanOK'
  <2>1. \A a \in Int : Ending(a) => Ending(a)'
    BY <1>1, <1>2, IdTypes DEF Ending, IsMatch
  <2> QED
    BY <1>4, <2>1, IdTypes DEF AppsInv, ScanOK, Dead, TypeOK
<1>9. TasksInv'
  <2>1. \A c \in Parents : step[c] = "record" => newTask[c] # t
    BY DEF TasksInv, RecordingOK, Runs
  <2>2. /\ Alive(t) /\ HasRecord(t) /\ phase' = [phase EXCEPT ![t] = "stopped"]
        /\ UNCHANGED <<recordVars, lastTask, born, creator, createVars, taskList, todo, scan,
                       victim, lastApp>>
    BY DEF Runs, HasContext, Alive
  <2> HIDE DEF ExitApp, recordVars, createVars, scanVars
  <2> QED
    BY <1>4, <2>1, <2>2, PhaseStep
<1> QED
  BY <1>3, <1>5, <1>6, <1>7, <1>8, <1>9 DEF AppsInv

\* What is being created has an ID, and its slot is one.
LEMMA CreationTypes ==
  ASSUME TypeOK, AppsInv
  PROVE  \A c \in Creators : Busy(c) =>
           /\ newApp[c] \in AppIds /\ newApp[c] <= lastApp
           /\ AppSlot(newApp[c]) \in AppSlots /\ appId[AppSlot(newApp[c])] = RESERVED
<1>1. lastApp \in Nat /\ lastApp <= LastApp /\ LastApp \in Nat
  BY Constants DEF TypeOK
<1>2. \A a \in 1 .. lastApp : a \in AppIds /\ a <= lastApp
  BY <1>1 DEF AppIds
<1> QED
  BY <1>2, IdTypes DEF AppsInv, CreationsOK, CreationOK

LEMMA ControlRequestInv ==
  ASSUME IInv, NEW b \in AppIds, NEW req \in Requests, ControlRequest(b, req)
  PROVE  IInv'
<1> USE DEF IInv, ControlRequest, recordVars, osVars, createVars, scanVars
<1>1. AppSlot(b) \in AppSlots /\ appId[AppSlot(b)] = b /\ appState[AppSlot(b)] = "running"
  BY IdTypes DEF IsMatch
<1>2. /\ \A s \in AppSlots : request'[s] = IF s = AppSlot(b) THEN req ELSE request[s]
      /\ \A a \in AppIds : asked'[a] = IF a = b THEN req ELSE asked[a]
  BY DEF TypeOK
<1>3. TypeOK'
  BY DEF TypeOK, Requests
<1>4. \A a : Dead(a) => Dead(a)'
  BY DEF Dead, IsMatch, Busy
<1>5. ~Dead(b) /\ ~Ending(b)
  BY <1>1 DEF Dead, Ending
<1>6. AppsOK'
  BY <1>1, <1>2, IdTypes DEF AppsInv, AppsOK
<1>7. FreshIds' /\ ReservedOwned' /\ NamesUnique' /\ AppsCounted'
  <2>1. b <= lastApp /\ b \in Nat /\ lastApp \in Nat
    BY <1>1, IdTypes DEF AppsInv, AppsOK, TypeOK
  <2> QED
    BY <1>2, <2>1, IdTypes DEF AppsInv, FreshIds, ReservedOwned, NamesUnique, AppsCounted, Busy,
         Deleting
<1>8. CreationsOK'
  <2>1. \A c \in Creators : Busy(c) =>
          /\ AppSlot(newApp[c]) # AppSlot(b) /\ newApp[c] # b
          /\ AppSlot(newApp[c]) \in AppSlots /\ newApp[c] \in AppIds
    BY <1>1, IdTypes, CreationTypes
  <2> QED
    BY <1>2, <2>1 DEF AppsInv, CreationsOK, CreationOK, Busy, Deleting
<1>9. ScanOK'
  BY <1>4 DEF AppsInv, ScanOK, Ending, IsMatch
<1>10. LastRequestWins'
  <2>1. scan \in {"clean", "tasks", "restart", "creating"} => victim \in AppIds /\ victim # b
    BY <1>5 DEF AppsInv, ScanOK
  <2> QED
    BY <1>2, <2>1 DEF AppsInv, LastRequestWins
<1>11. TasksInv'
  BY <1>4, TasksFrame DEF TypeOK, TasksInv, RecordingOK
<1> QED
  BY <1>3, <1>6, <1>7, <1>8, <1>9, <1>10, <1>11 DEF AppsInv

LEMMA CreateChildTaskInv ==
  ASSUME IInv, NEW t \in TaskIds, CreateChildTask(t)
  PROVE  IInv'
<1> USE DEF IInv, CreateChildTask, tableVars, recordVars, osVars, scanVars
<1>1. /\ t \notin Creators /\ t \in Parents
      /\ step' = [step EXCEPT ![t] = "start"]
      /\ ContextOf(t) = born[t] /\ ContextOf(t) \in AppIds /\ ContextOf(t) <= lastApp
  <2>1. HasRecord(t) /\ ContextOf(t) \in AppIds /\ appId[AppSlot(ContextOf(t))] = ContextOf(t)
    BY DEF HasContext, IsMatch
  <2>2. ContextOf(t) = born[t]
    BY <2>1, IdTypes DEF TasksInv, RecordsOK, HasRecord, ContextOf
  <2> QED
    BY <2>1, <2>2, IdTypes DEF TasksInv, BornOK
<1>2. /\ \A c \in Parents : c # t => step'[c] = step[c] /\ newApp'[c] = newApp[c]
      /\ step'[t] = "start" /\ newApp'[t] = born[t]
  BY <1>1 DEF TypeOK
<1>3. TypeOK'
  BY <1>1 DEF TypeOK
<1>4. AppsInv'
  BY <1>1, <1>2, IdTypes, AppsFrame DEF Busy
<1>5. \A a : Dead(a) <=> Dead(a)'
  BY <1>1, <1>2, IdTypes DEF Dead, IsMatch, Busy
<1>6. TasksApart' /\ FreshTasks' /\ ListOK' /\ RecordsOK' /\ TasksCounted'
  BY <1>2, IdTypes DEF TasksInv, TasksApart, FreshTasks, ListOK, RecordsOK, TasksCounted, Alive, Busy,
       Runs
<1>7. BornOK'
  BY <1>1, <1>2, IdTypes DEF TasksInv, BornOK, Busy, AppIds, TypeOK
<1>8. RecordingOK'
  BY <1>2 DEF TasksInv, RecordingOK
<1>9. KeptOK'
  BY <1>5 DEF TasksInv, KeptOK, Lost, HasRecord, ContextOf
<1> QED
  BY <1>3, <1>4, <1>6, <1>7, <1>8, <1>9 DEF TasksInv

-----------------------------------------------------------------------------
(* The steps of a creation                                                 *)

LEMMA LoadModuleInv ==
  ASSUME IInv, NEW c \in Parents, LoadModule(c)
  PROVE  IInv'
<1> USE DEF IInv, LoadModule, tableVars, recordVars, osVars, scanVars
<1>1. c \in Creators /\ c \notin TaskIds
  BY IdTypes DEF TasksInv, RecordingOK
<1>2. /\ \A d \in Parents : d # c => step'[d] = step[d]
      /\ step'[c] \in {"start", "abort"}
  BY DEF TypeOK
<1>3. TypeOK'
  BY DEF TypeOK
<1>4. AppsInv'
  BY <1>1, <1>2, IdTypes, AppsFrame DEF Busy
<1>5. \A a : Dead(a) => Dead(a)'
  BY <1>1, <1>2, IdTypes DEF Dead, IsMatch, Busy
<1>6. TasksInv'
  <2>1. \A d \in Parents :
          /\ step'[d] = "record" => step[d] = "record"
          /\ step'[d] \in {"load", "finish", "abort"} => d \in Creators
          /\ d \in TaskIds => step'[d] = step[d]
    BY <1>1, <1>2 DEF TasksInv, RecordingOK
  <2> QED
    BY <1>5, <2>1, TasksFrame DEF TypeOK
<1> QED
  BY <1>3, <1>4, <1>6

\* A new task is the first with its ID, and alone in its slot.
LEMMA NewTask ==
  ASSUME TypeOK, TasksInv, FreeTasks # {}, Lowest(FreeTasks) \in TaskIds
  PROVE  LET t == Lowest(FreeTasks) IN
         /\ t > lastTask /\ phase[t] = "none" /\ ~Busy(t)
         /\ \A u \in TaskIds : Alive(u) => TaskSlot(u) # TaskSlot(t)
<1>1. FreeTasks \subseteq Nat
  BY Constants DEF FreeTasks, TypeOK
<1>2. Lowest(FreeTasks) \in FreeTasks
  BY <1>1, LowestOf
<1> QED
  BY <1>2, Constants DEF FreeTasks, TypeOK, TasksInv, FreshTasks

LEMMA TaskCreateInv ==
  ASSUME IInv, NEW c \in Parents, TaskCreate(c)
  PROVE  IInv'
<1> USE DEF IInv, tableVars, recordVars, scanVars
<1> DEFINE t == Lowest(FreeTasks)
<1>1. /\ \A d \in Parents : d # c => step'[d] = step[d] /\ newApp'[d] = newApp[d]
      /\ step[c] = "start"
      /\ c \in Creators => Busy(c)' /\ newApp'[c] = newApp[c]
      /\ UNCHANGED <<appId, lastApp, recordVars, taskList, todo, scan, victim>>
  BY DEF TypeOK, TaskCreate, Busy
<1>2. AppsInv'
  BY <1>1, IdTypes, AppsFrame DEF Busy, TaskCreate
<1>3. \A a : Dead(a) <=> Dead(a)'
  BY <1>1, IdTypes DEF Dead, IsMatch, Busy
<1>4. CASE step'[c] = "record"
  <2>1. /\ FreeTasks # {} /\ t \in TaskIds /\ lastTask' = t
        /\ phase' = [phase EXCEPT ![t] = "poll"] /\ born' = [born EXCEPT ![t] = newApp[c]]
        /\ creator' = [creator EXCEPT ![t] = c] /\ newTask' = [newTask EXCEPT ![c] = t]
        /\ step' = [step EXCEPT ![c] = "record"] /\ newApp' = newApp
    <3>1. [step EXCEPT ![c] = IF c \in Creators THEN "abort" ELSE "idle"][c] # "record"
      BY DEF TypeOK
    <3> QED
      BY <1>4, <3>1 DEF TaskCreate
  <2>2. /\ t > lastTask /\ phase[t] = "none" /\ ~Busy(t)
        /\ \A u \in TaskIds : Alive(u) => TaskSlot(u) # TaskSlot(t)
    BY <2>1, NewTask
  <2> HIDE DEF t
  <2>3. /\ \A u \in TaskIds : u # t => /\ phase'[u] = phase[u] /\ born'[u] = born[u]
                                     /\ creator'[u] = creator[u]
        /\ phase'[t] = "poll" /\ born'[t] = newApp[c] /\ creator'[t] = c
        /\ \A d \in Parents : d # c => newTask'[d] = newTask[d]
        /\ newTask'[c] = t /\ lastTask \in Nat /\ t \in Nat \ {0}
    BY <2>1, IdTypes DEF TypeOK
  <2>4. TypeOK'
    <3>1. UNCHANGED <<tableVars, recordVars, scanVars, asked>>
      BY DEF TaskCreate
    <3>2. newApp[c] \in AppIds \cup {FREE} /\ lastTask' \in 0 .. LastTask
      BY <2>1, Constants DEF TypeOK, TaskIds
    <3> QED
      BY <2>1, <3>1, <3>2 DEF TypeOK
  <2>5. TasksApart'
    BY <2>2, <2>3 DEF TasksInv, TasksApart, Alive, TaskSlot
  <2>6. t \notin taskList /\ \A s \in TaskSlots : taskId[s] # t
    BY <2>2, <2>3 DEF TasksInv, FreshTasks
  <2>7. FreshTasks'
    <3>1. /\ \A s \in TaskSlots : taskId[s] \in Int /\ taskId[s] <= lastTask
          /\ \A u \in taskList : u \in Int /\ u <= lastTask
          /\ \A u \in TaskIds : u \in Int
      <4>1. TaskIds \subseteq Int /\ FREE \in Int /\ RESERVED \in Int
        BY DEF TaskIds, FREE, RESERVED
      <4>2. /\ \A s \in TaskSlots : taskId[s] \in TaskIds \cup {FREE, RESERVED}
            /\ taskList \subseteq TaskIds
        BY DEF TypeOK
      <4> QED
        BY <4>1, <4>2 DEF TasksInv, FreshTasks
    <3>2. \A u \in TaskIds : u > t => phase'[u] = "none" /\ ~Busy(u)'
      <4> SUFFICES ASSUME NEW u \in TaskIds, u > t
                   PROVE  phase'[u] = "none" /\ ~Busy(u)'
        OBVIOUS
      <4>1. u # t /\ u > lastTask /\ phase[u] = "none" /\ ~Busy(u)
        <5>1. u # t /\ u > lastTask
          BY <2>2, <2>3, <3>1
        <5> QED
          BY <5>1 DEF TasksInv, FreshTasks
      <4>2. u # c
        BY <1>1, <4>1 DEF Busy
      <4> QED
        BY <1>1, <2>3, <4>1, <4>2, IdTypes DEF Busy
    <3> QED
      BY <1>1, <2>1, <2>2, <2>3, <3>1, <3>2 DEF FreshTasks
  <2>8. newApp[c] \in Int /\ newApp[c] <= lastApp /\ (c \in TaskIds => newApp[c] \in 1 .. lastApp)
    <3>1. CASE c \in Creators
      <4>1. Busy(c)
        BY <1>1 DEF Busy
      <4>2. newApp[c] \in AppIds /\ newApp[c] <= lastApp
        BY <3>1, <4>1, CreationTypes
      <4>3. c \notin TaskIds
        BY <3>1, IdTypes
      <4>4. newApp[c] \in Int
        BY <4>2 DEF AppIds
      <4> QED
        BY <4>2, <4>3, <4>4
    <3>2. CASE c \in TaskIds
      BY <1>1, <3>2 DEF TasksInv, BornOK, Busy, TypeOK
    <3> QED
      BY <3>1, <3>2, IdTypes
  <2>9. BornOK'
    BY <1>1, <2>1, <2>2, <2>3, <2>8, IdTypes DEF TasksInv, BornOK, Busy
  <2>10. ListOK' /\ RecordsOK' /\ TasksCounted'
    BY <1>1, <2>3, <2>6 DEF TasksInv, ListOK, RecordsOK, TasksCounted, TypeOK
  <2>11. RecordingOK'
    <3> SUFFICES ASSUME NEW d \in Parents
                 PROVE  (/\ step[d] \in {"load", "finish", "abort"} => d \in Creators
                         /\ step[d] = "record" =>
                              LET u == newTask[d] IN
                              /\ u \in 1 .. lastTask /\ creator[u] = d /\ born[u] = newApp[d]
                              /\ u \notin taskList /\ taskId[TaskSlot(u)] # u
                              /\ phase[u] = "poll" \/ (phase[u] = "gone" /\ d \in todo))'
      BY DEF RecordingOK
    <3>1. CASE d = c
      BY <1>1, <2>1, <2>3, <2>6, <3>1, IdTypes DEF TaskSlot
    <3>2. CASE d # c
      <4>1. step[d] = "record" => newTask[d] \in 1 .. lastTask /\ newTask[d] \in TaskIds
        BY Constants DEF TasksInv, RecordingOK, TypeOK, TaskIds
      <4>2. step[d] = "record" => newTask[d] # t
        BY <2>2, <2>3, <4>1
      <4> QED
        BY <1>1, <2>1, <2>2, <2>3, <3>2, <4>1, <4>2 DEF TasksInv, RecordingOK, TaskSlot
    <3> QED
      BY <3>1, <3>2
  <2>12. KeptOK'
    <3>1. \A s \in TaskSlots : Lost(s) => Lost(s)'
      BY <1>1, <1>3, <2>3, <2>6 DEF Lost
    <3> QED
      BY <1>1, <1>3, <2>3, <3>1, IdTypes DEF TasksInv, KeptOK, HasRecord, ContextOf, TaskSlot
  <2> QED
    BY <1>2, <2>4, <2>5, <2>7, <2>9, <2>10, <2>11, <2>12 DEF TasksInv
<1>5. CASE step'[c] # "record"
  <2>1. /\ step' = [step EXCEPT ![c] = IF c \in Creators THEN "abort" ELSE "idle"]
        /\ newApp' = IF c \in Creators THEN newApp ELSE [newApp EXCEPT ![c] = FREE]
        /\ UNCHANGED <<osVars, newTask>>
    <3>1. [step EXCEPT ![c] = "record"][c] = "record"
      BY DEF TypeOK
    <3> QED
      BY <1>5, <3>1 DEF TaskCreate
  <2>2. TypeOK'
    BY <2>1 DEF TypeOK, TaskCreate, osVars
  <2>3. step'[c] = IF c \in Creators THEN "abort" ELSE "idle"
    BY <2>1 DEF TypeOK
  <2>4. \A d \in Parents :
           /\ step'[d] = "record" => step[d] = "record" /\ UNCHANGED <<newApp[d], newTask[d]>>
           /\ step'[d] \in {"load", "finish", "abort"} => d \in Creators
           /\ d \in TaskIds => UNCHANGED <<step[d], newApp[d]>> \/ ~Busy(d)'
    BY <1>1, <1>5, <2>1, <2>3, IdTypes DEF TasksInv, RecordingOK, Busy
  <2>5. TasksInv'
    BY <1>1, <1>3, <2>1, <2>4, TasksFrame DEF TypeOK
  <2> QED
    BY <1>2, <2>2, <2>5
<1> QED
  BY <1>4, <1>5

\* The record of a task is written: over that of a living task only when the new
\* one has been deleted already, with its application.
LEMMA TaskRecordInv ==
  ASSUME IInv, NEW c \in Parents, TaskRecord(c)
  PROVE  IInv'
<1> USE DEF IInv, osVars, scanVars
<1> DEFINE t == newTask[c]
           s == TaskSlot(t)
<1>1. /\ \A d \in Parents : d # c => /\ step'[d] = step[d] /\ newApp'[d] = newApp[d]
                                     /\ newTask'[d] = newTask[d]
      /\ step[c] = "record"
      /\ c \in Creators => step'[c] = "finish" /\ newApp'[c] = newApp[c]
      /\ c \notin Creators => step'[c] = "idle"
      /\ UNCHANGED <<appId, lastApp, osVars, taskList, todo, scan, victim>>
      /\ taskId' = [taskId EXCEPT ![s] = t] /\ taskApp' = [taskApp EXCEPT ![s] = newApp[c]]
      /\ regTasks' = regTasks + 1
  BY DEF TypeOK, TaskRecord
<1>2. /\ t \in 1 .. lastTask /\ t \in TaskIds /\ s \in TaskSlots
      /\ creator[t] = c /\ born[t] = newApp[c] /\ t \notin taskList
      /\ phase[t] = "poll" \/ (phase[t] = "gone" /\ c \in todo)
  <2>1. t \in 1 .. lastTask
    BY <1>1 DEF TasksInv, RecordingOK
  <2>2. t \in TaskIds
    BY <2>1, Constants DEF TypeOK, TaskIds
  <2> QED
    BY <1>1, <2>1, <2>2, IdTypes DEF TasksInv, RecordingOK
<1>3. /\ taskId'[s] = t /\ taskApp'[s] = newApp[c]
      /\ \A r \in TaskSlots : r # s => taskId'[r] = taskId[r] /\ taskApp'[r] = taskApp[r]
  BY <1>1, <1>2 DEF TypeOK
<1> HIDE DEF t, s
<1>4. TypeOK'
  <2>1. newApp[c] \in AppIds \cup {FREE}
    BY DEF TypeOK
  <2>2. mainTask' \in [AppSlots -> TaskIds \cup {FREE}]
    BY <1>2 DEF TypeOK, TaskRecord, t
  <2>3. taskId' \in [TaskSlots -> TaskIds \cup {FREE, RESERVED}]
        /\ taskApp' \in [TaskSlots -> AppIds \cup {FREE}] /\ regTasks' \in Nat
    BY <1>1, <1>2, <2>1 DEF TypeOK
  <2>4. UNCHANGED <<appId, appName, appState, request, timer, lastApp, regApps, osVars,
                    scanVars, asked>>
    BY DEF TaskRecord
  <2>5. step' \in [Parents -> {"idle", "load", "start", "record", "finish", "abort"}]
        /\ newApp' \in [Parents -> AppIds \cup {FREE}]
        /\ newTask' \in [Parents -> TaskIds \cup {FREE}]
    BY DEF TypeOK, TaskRecord
  <2> QED
    BY <2>2, <2>3, <2>4, <2>5 DEF TypeOK
<1>5. AppsInv'
  BY <1>1, IdTypes, AppsFrame DEF Busy, TaskRecord
<1>6. \A a : Dead(a) <=> Dead(a)'
  BY <1>1, IdTypes DEF Dead, IsMatch, Busy
<1>7. TasksApart' /\ ListOK'
  BY <1>1 DEF TasksInv, TasksApart, ListOK, Alive, TaskSlot
<1>8. FreshTasks'
  <2>1. \A u \in TaskIds : u > lastTask => u # c
    BY <1>1 DEF TasksInv, FreshTasks, Busy
  <2>2. \A u \in TaskIds : u > lastTask => step'[u] = step[u]
    BY <1>1, <2>1, IdTypes
  <2>3. t <= lastTask
    BY <1>2 DEF TypeOK
  <2> QED
    BY <1>1, <1>2, <1>3, <2>2, <2>3 DEF TasksInv, FreshTasks, Busy
<1>9. BornOK'
  BY <1>1, IdTypes DEF TasksInv, BornOK, Busy
<1>10. RecordsOK'
  BY <1>1, <1>2, <1>3, IdTypes DEF TasksInv, RecordsOK, s
<1>11. RecordingOK'
  <2> SUFFICES ASSUME NEW d \in Parents
               PROVE  (/\ step[d] \in {"load", "finish", "abort"} => d \in Creators
                       /\ step[d] = "record" =>
                            LET u == newTask[d] IN
                            /\ u \in 1 .. lastTask /\ creator[u] = d /\ born[u] = newApp[d]
                            /\ u \notin taskList /\ taskId[TaskSlot(u)] # u
                            /\ phase[u] = "poll" \/ (phase[u] = "gone" /\ d \in todo))'
    BY DEF RecordingOK
  <2>1. CASE d = c
    BY <1>1, <2>1
  <2>2. CASE d # c
    <3>1. step[d] = "record" => newTask[d] \in 1 .. lastTask /\ newTask[d] \in TaskIds
      BY Constants DEF TasksInv, RecordingOK, TypeOK, TaskIds
    <3>2. step[d] = "record" => newTask[d] # t /\ TaskSlot(newTask[d]) \in TaskSlots
      BY <1>2, <2>2, <3>1, IdTypes DEF TasksInv, RecordingOK
    <3> QED
      BY <1>1, <1>3, <2>2, <3>1, <3>2 DEF TasksInv, RecordingOK, TaskSlot
  <2> QED
    BY <2>1, <2>2
<1>12. phase[t] = "gone" => Dead(born[t])
  <2> SUFFICES ASSUME phase[t] = "gone"
               PROVE  Dead(born[t])
    OBVIOUS
  <2>1. c \in taskList /\ c \in TaskIds
    BY <1>2 DEF TypeOK
  <2>2. scan = "tasks" /\ born[c] = victim
    BY <2>1 DEF TasksInv, ListOK
  <2>3. newApp[c] = born[c]
    BY <1>1, <2>1 DEF TasksInv, BornOK, Busy
  <2> QED
    BY <1>2, <2>2, <2>3 DEF AppsInv, ScanOK
<1>13. KeptOK'
  <2> SUFFICES ASSUME NEW v \in TaskIds, phase[v] \in {"run", "stopped"}, ~Dead(born[v])
               PROVE  (HasRecord(v) /\ ContextOf(v) = born[v])' \/ Lost(TaskSlot(v))'
    BY <1>1, <1>6 DEF KeptOK, TaskSlot
  <2>1. TaskSlot(v) \in TaskSlots
    BY IdTypes
  <2>2. CASE TaskSlot(v) = s
    <3>1. ~Alive(t)
      BY <1>2, <2>2 DEF TasksInv, TasksApart, Alive, s
    <3>2. phase[t] = "gone"
      BY <1>2, <3>1 DEF Alive
    <3> QED
      BY <1>1, <1>2, <1>3, <1>6, <1>12, <2>2, <3>2 DEF Lost, TaskSlot
  <2>3. CASE TaskSlot(v) # s
    <3>1. Lost(TaskSlot(v)) => Lost(TaskSlot(v))'
      BY <1>1, <1>3, <1>6, <2>1, <2>3 DEF Lost, TaskSlot
    <3> QED
      BY <1>1, <1>3, <2>1, <2>3, <3>1 DEF TasksInv, KeptOK, HasRecord, ContextOf, TaskSlot
  <2> QED
    BY <2>2, <2>3
<1>14. TasksCounted'
  <2> DEFINE U == {r \in TaskSlots : taskId[r] \in TaskIds}
             V == {r \in TaskSlots : taskId'[r] \in TaskIds}
  <2>1. V = U \cup {s}
    BY <1>2, <1>3
  <2>2. regTasks >= Cardinality(U) /\ regTasks \in Nat
    BY DEF TasksInv, TasksCounted, TypeOK
  <2>3. U \in SUBSET (0 .. MaxTasks - 1) /\ s \in 0 .. MaxTasks - 1 /\ MaxTasks \in Nat
    BY <1>2, Constants DEF TaskSlots
  <2> HIDE DEF U, V
  <2>4. Cardinality(V) <= Cardinality(U) + 1 /\ Cardinality(U) \in Nat /\ Cardinality(V) \in Nat
    <3>1. CASE s \in U
      <4>1. U \cup {s} = U
        BY <3>1, Zenon
      <4>2. V = U
        BY <2>1, <4>1, Zenon
      <4>3. Cardinality(U) \in Nat
        BY <2>3, SlotCount
      <4> QED
        BY <4>2, <4>3
    <3>2. CASE s \notin U
      <4>1. Cardinality(U) \in Nat
        BY <2>3, SlotCount
      <4>2. Cardinality(U \cup {s}) = Cardinality(U) + 1
        BY <2>3, <3>2, SlotCountStep
      <4> QED
        BY <2>1, <4>1, <4>2
    <3> QED
      BY <3>1, <3>2
  <2>5. regTasks' >= Cardinality(V)
    BY <1>1, <2>2, <2>4
  <2> QED
    BY <2>5 DEF TasksCounted, V
<1> QED
  BY <1>4, <1>5, <1>7, <1>8, <1>9, <1>10, <1>11, <1>13, <1>14 DEF TasksInv

\* The slot of an application that was created gets its ID, or is free again.
LEMMA AppCreateEndInv ==
  ASSUME IInv, NEW c \in Parents, AppCreateEnd(c)
  PROVE  IInv'
<1> USE DEF IInv, recordVars, osVars
<1> DEFINE a == newApp[c]
           s == AppSlot(a)
<1>1. /\ c \in Creators /\ Busy(c) /\ CreationOK(c)
      /\ a \in AppIds /\ a <= lastApp /\ s \in AppSlots /\ appId[s] = RESERVED
  <2>1. c \in Creators /\ Busy(c)
    BY DEF TasksInv, RecordingOK, AppCreateEnd, Ends, Busy
  <2> QED
    BY <2>1, CreationTypes DEF AppsInv, CreationsOK
<1>2. /\ \A d \in Parents : d # c => /\ step'[d] = step[d] /\ newApp'[d] = newApp[d]
                                     /\ newTask'[d] = newTask[d]
      /\ step'[c] = "idle" /\ UNCHANGED <<appName, appState, request, lastApp, asked>>
      /\ UNCHANGED <<recordVars, osVars, due, victim, snapshot, taskList, todo>>
  BY DEF TypeOK, AppCreateEnd, Ends
<1>3. /\ \A r \in AppSlots : r # s => appId'[r] = appId[r]
      /\ \/ appId'[s] = a /\ regApps' = regApps + 1
         \/ appId'[s] = FREE /\ regApps' = regApps
  BY <1>1 DEF AppCreateEnd, Ends, TypeOK
<1>4. /\ c = Background => scan = "creating" /\ scan' = "process"
      /\ c # Background => scan' = scan
  BY <1>1 DEF AppsInv, CreationsOK, AppCreateEnd
<1> HIDE DEF a, s
<1>5. TypeOK'
  <2>1. appId' \in [AppSlots -> AppIds \cup {FREE, RESERVED}] /\ regApps' \in Nat
    BY <1>1 DEF TypeOK, AppCreateEnd, Ends, a, s
  <2>2. scan' \in {"idle", "process", "clean", "tasks", "restart", "creating"}
    BY <1>4 DEF TypeOK
  <2>3. /\ step' \in [Parents -> {"idle", "load", "start", "record", "finish", "abort"}]
        /\ newApp' \in [Parents -> AppIds \cup {FREE}]
        /\ newTask' \in [Parents -> TaskIds \cup {FREE}]
    BY DEF TypeOK, AppCreateEnd
  <2>4. UNCHANGED <<appName, appState, request, timer, mainTask, lastApp, recordVars, osVars,
                    due, victim, snapshot, taskList, todo, swept, asked>>
    BY DEF AppCreateEnd, Ends
  <2> QED
    BY <2>1, <2>2, <2>3, <2>4 DEF TypeOK
<1>6. \A b : Dead(b) => Dead(b)'
  <2>1. \A r \in AppSlots : appId'[r] \in AppIds => appId'[r] = appId[r] \/ appId'[r] = newApp[c]
    BY <1>3, IdTypes DEF a
  <2>2. \A d \in Creators : Busy(d)' => Busy(d) /\ newApp'[d] = newApp[d]
    BY <1>2, IdTypes DEF Busy
  <2> QED
    BY <1>1, <1>2, <2>1, <2>2, DeadStays DEF TypeOK
<1>7. AppsOK'
  BY <1>1, <1>2, <1>3, IdTypes DEF AppsInv, AppsOK, CreationOK, a, s
<1>8. FreshIds' /\ NamesUnique' /\ LastRequestWins'
  <2>1. \A r \in AppSlots : appId'[r] # FREE => appId[r] # FREE
    BY <1>1, <1>3, IdTypes
  <2> QED
    BY <1>2, <1>4, <2>1 DEF AppsInv, FreshIds, NamesUnique, LastRequestWins
<1>9. CreationsOK'
  <2>1. \A r : Deleting(r)' => Deleting(r)
    BY <1>2, <1>4 DEF Deleting
  <2>2. \A d \in Creators : Busy(d)' =>
          /\ Busy(d) /\ d # c /\ newApp'[d] = newApp[d]
          /\ AppSlot(newApp[d]) # s /\ AppSlot(newApp[d]) \in AppSlots
    BY <1>1, <1>2, CreationTypes, IdTypes DEF CreationOK, Busy, a, s
  <2>3. \A d \in Creators : Busy(d)' => CreationOK(d)'
    BY <1>2, <1>3, <2>1, <2>2 DEF AppsInv, CreationsOK, CreationOK
  <2>4. Busy(Background)' <=> scan' = "creating"
    BY <1>2, <1>4, IdTypes DEF AppsInv, CreationsOK, Busy
  <2> QED
    BY <2>3, <2>4 DEF CreationsOK
<1>10. ReservedOwned'
  <2> SUFFICES ASSUME NEW r \in AppSlots, appId'[r] = RESERVED
               PROVE  Deleting(r)' \/ \E d \in Creators : Busy(d)' /\ AppSlot(newApp'[d]) = r
    BY DEF ReservedOwned, AppSlot
  <2>1. r # s /\ appId[r] = RESERVED
    BY <1>1, <1>3, IdTypes
  <2>2. Deleting(r) => Deleting(r)'
    BY <1>2, <1>4 DEF Deleting
  <2>3. \A d \in Creators : Busy(d) /\ AppSlot(newApp[d]) = r => Busy(d)' /\ newApp'[d] = newApp[d]
    BY <1>2, <2>1, IdTypes DEF Busy, a, s
  <2> QED
    BY <2>1, <2>2, <2>3 DEF AppsInv, ReservedOwned
<1>11. ScanOK'
  <2>1. \A b \in AppIds : Ending(b) => Ending(b)'
    BY <1>1, <1>2, <1>3, IdTypes DEF Ending, IsMatch
  <2>2. scan = "tasks" => AppSlot(victim) # s /\ AppSlot(victim) \in AppSlots
    BY <1>1, IdTypes DEF CreationOK, Deleting, AppsInv, ScanOK, a, s
  <2>3. due \subseteq AppIds
    BY DEF TypeOK
  <2> QED
    BY <1>2, <1>3, <1>4, <1>6, <2>1, <2>2, <2>3 DEF AppsInv, ScanOK
<1>12. AppsCounted'
  <2> DEFINE U == {r \in AppSlots : appId[r] \in AppIds}
             V == {r \in AppSlots : appId'[r] \in AppIds}
  <2>1. /\ s \notin U
        /\ appId'[s] = a => V = U \cup {s}
        /\ appId'[s] = FREE => V = U
    BY <1>1, <1>3, IdTypes
  <2>2. regApps = Cardinality(U)
    BY DEF AppsInv, AppsCounted
  <2>3. U \in SUBSET (0 .. MaxApps - 1) /\ s \in 0 .. MaxApps - 1 /\ MaxApps \in Nat
    BY <1>1, Constants DEF AppSlots
  <2> HIDE DEF U, V
  <2>4. Cardinality(U \cup {s}) = Cardinality(U) + 1
    BY <2>1, <2>3, SlotCountStep
  <2>5. regApps' = Cardinality(V)
    BY <1>3, <2>1, <2>2, <2>4
  <2> QED
    BY <2>5 DEF AppsCounted, V
<1>13. TasksInv'
  <2>1. scan' = "tasks" <=> scan = "tasks"
    BY <1>4
  <2>2. \A d \in Parents :
          /\ step'[d] = "record" => step[d] = "record" /\ UNCHANGED <<newApp[d], newTask[d]>>
          /\ step'[d] \in {"load", "finish", "abort"} => d \in Creators
          /\ d \in TaskIds => UNCHANGED <<step[d], newApp[d]>> \/ ~Busy(d)'
    BY <1>1, <1>2 DEF TasksInv, RecordingOK, Busy
  <2> QED
    BY <1>2, <1>6, <2>1, <2>2, TasksFrame DEF TypeOK
<1> QED
  BY <1>5, <1>7, <1>8, <1>9, <1>10, <1>11, <1>12, <1>13 DEF AppsInv

\* A slot is reserved for a new application, whose ID is above all before it.
LEMMA ReserveInv ==
  ASSUME IInv, NEW c \in Creators, NEW n \in Names \cup {NoName}, Reserve(c, n),
         UNCHANGED <<due, victim, snapshot, taskList, todo, swept>>,
         \/ c = Background /\ scan = "restart" /\ scan' = "creating"
         \/ c # Background /\ scan' = scan
  PROVE  IInv'
<1> USE DEF IInv, recordVars, osVars
<1> DEFINE a == Lowest(FreeApps)
           s == AppSlot(a)
<1>1. /\ c \in Parents /\ ~Busy(c)
      /\ a \in AppIds /\ a > lastApp /\ s \in AppSlots /\ appId[s] = FREE /\ lastApp \in Nat
  <2>1. FreeApps \in SUBSET Nat
    BY Constants DEF FreeApps, TypeOK
  <2>2. a \in FreeApps
    BY <2>1, LowestOf DEF Reserve
  <2>3. a \in AppIds /\ step[c] = "idle"
    BY DEF Reserve
  <2>4. a > lastApp /\ appId[s] = FREE /\ lastApp \in Nat
    BY <2>2, Constants DEF FreeApps, TypeOK
  <2> QED
    BY <2>3, <2>4, IdTypes DEF Busy
<1>2. /\ \A d \in Parents : d # c => step'[d] = step[d] /\ newApp'[d] = newApp[d]
      /\ step'[c] = "load" /\ newApp'[c] = a /\ lastApp' = a
      /\ UNCHANGED <<regApps, recordVars, osVars, newTask, asked>>
  BY <1>1 DEF TypeOK, Reserve
<1>3. /\ appId'[s] = RESERVED /\ appName'[s] = n /\ appState'[s] = "init" /\ request'[s] = "run"
      /\ \A r \in AppSlots : r # s => /\ appId'[r] = appId[r] /\ appName'[r] = appName[r]
                                      /\ appState'[r] = appState[r] /\ request'[r] = request[r]
      /\ ~Taken(n)
  BY <1>1 DEF TypeOK, Reserve
<1>4. TypeOK'
  <2>1. /\ appId' \in [AppSlots -> AppIds \cup {FREE, RESERVED}]
        /\ appName' \in [AppSlots -> Names \cup {NoName}]
        /\ appState' \in [AppSlots -> {"init", "running", "waiting", "stopped"}]
        /\ request' \in [AppSlots -> Requests]
    BY DEF TypeOK, Reserve, Requests
  <2>2. /\ timer' \in [AppSlots -> 0 .. KillTime]
        /\ mainTask' \in [AppSlots -> TaskIds \cup {FREE}]
    <3>1. 0 \in 0 .. KillTime
      BY Constants
    <3> QED
      BY <3>1 DEF TypeOK, Reserve
  <2>3. lastApp' \in 0 .. LastApp /\ lastApp' >= lastApp
    BY <1>1, <1>2, Constants DEF AppIds
  <2>4. /\ step' \in [Parents -> {"idle", "load", "start", "record", "finish", "abort"}]
        /\ newApp' \in [Parents -> AppIds \cup {FREE}]
    BY <1>1 DEF TypeOK, Reserve
  <2>5. scan' \in {"idle", "process", "clean", "tasks", "restart", "creating"}
    BY DEF TypeOK
  <2> QED
    BY <1>2, <2>1, <2>2, <2>3, <2>4, <2>5 DEF TypeOK
<1> HIDE DEF a, s
<1>5. a \in Nat /\ lastApp' \in Nat /\ lastApp' >= lastApp
  BY <1>1, <1>2 DEF AppIds
<1>6. \A b : Dead(b) => Dead(b)'
  <2>1. \A r \in AppSlots : appId'[r] \in AppIds => appId'[r] = appId[r]
    BY <1>3, IdTypes
  <2>2. \A d \in Creators : Busy(d)' =>
          (Busy(d) /\ newApp'[d] = newApp[d]) \/ newApp'[d] > lastApp
    BY <1>1, <1>2, IdTypes DEF Busy
  <2> QED
    BY <1>5, <2>1, <2>2, DeadStays
<1>7. AppsOK'
  <2>1. \A r \in AppSlots : appId'[r] \in AppIds => r # s
    BY <1>3, IdTypes
  <2>2. \A r \in AppSlots : appId[r] \in AppIds => appId[r] \in Nat
    BY IdTypes
  <2> QED
    BY <1>1, <1>2, <1>3, <1>5, <2>1, <2>2, IdTypes DEF AppsInv, AppsOK
<1>8. FreshIds'
  <2>1. \A b \in AppIds : b > a => b > lastApp
    BY <1>1, <1>5, IdTypes
  <2> QED
    BY <1>2, <2>1 DEF AppsInv, FreshIds
<1>9. NamesUnique' /\ LastRequestWins'
  <2>1. \A r \in AppSlots : appId[r] # FREE => appName[r] # n
    BY <1>3 DEF Taken
  <2> QED
    BY <1>1, <1>2, <1>3, <2>1 DEF AppsInv, NamesUnique, LastRequestWins
<1>10. \A r : Deleting(r)' <=> Deleting(r)
  BY DEF Deleting
<1>11. ~Deleting(s)
  BY <1>1, IdTypes DEF Deleting, AppsInv, ScanOK
<1>12. CreationsOK'
  <2>1. \A d \in Creators : d # c /\ Busy(d)' =>
          /\ Busy(d) /\ newApp'[d] = newApp[d] /\ newApp[d] \in AppIds
          /\ newApp[d] \in 1 .. lastApp
          /\ AppSlot(newApp[d]) # s /\ AppSlot(newApp[d]) \in AppSlots
    BY <1>1, <1>2, CreationTypes, IdTypes DEF AppsInv, CreationsOK, CreationOK, Busy
  <2>2. CreationOK(c)'
    <3>1. a \in 1 .. a
      BY <1>1, <1>5
    <3>2. asked[a] = "run"
      BY <1>1 DEF AppsInv, FreshIds
    <3>3. \A d \in Creators : Busy(d)' /\ AppSlot(newApp'[d]) = s => d = c
      BY <2>1
    <3> QED
      BY <1>2, <1>3, <1>10, <1>11, <3>1, <3>2, <3>3 DEF CreationOK, s, AppSlot
  <2>3. \A d \in Creators : d # c /\ Busy(d)' => CreationOK(d)'
    <3> SUFFICES ASSUME NEW d \in Creators, d # c, Busy(d)'
                 PROVE  CreationOK(d)'
      OBVIOUS
    <3>1. newApp[d] \in 1 .. lastApp'
      BY <1>1, <1>5, <2>1
    <3>2. \A e \in Creators : Busy(e)' /\ AppSlot(newApp'[e]) = AppSlot(newApp[d]) => e = d
      BY <1>2, <2>1 DEF AppsInv, CreationsOK, CreationOK, s
    <3> QED
      BY <1>2, <1>3, <1>10, <2>1, <3>1, <3>2 DEF AppsInv, CreationsOK, CreationOK, AppSlot
  <2>4. Busy(Background)' <=> scan' = "creating"
    BY <1>2, IdTypes DEF AppsInv, CreationsOK, Busy
  <2> QED
    BY <2>2, <2>3, <2>4 DEF CreationsOK
<1>13. ReservedOwned'
  <2> SUFFICES ASSUME NEW r \in AppSlots, appId'[r] = RESERVED
               PROVE  Deleting(r)' \/ \E d \in Creators : Busy(d)' /\ AppSlot(newApp'[d]) = r
    BY DEF ReservedOwned, AppSlot
  <2>1. CASE r = s
    BY <1>2, <2>1 DEF Busy, s
  <2>2. CASE r # s
    <3>1. \A d \in Creators : Busy(d) => Busy(d)' /\ newApp'[d] = newApp[d]
      BY <1>1, <1>2, IdTypes DEF Busy
    <3> QED
      BY <1>3, <1>10, <2>2, <3>1 DEF AppsInv, ReservedOwned
  <2> QED
    BY <2>1, <2>2
<1>14. ScanOK'
  <2>1. \A b \in AppIds : Ending(b) => Ending(b)'
    BY <1>1, <1>3, IdTypes DEF Ending, IsMatch
  <2>2. scan = "tasks" => AppSlot(victim) # s /\ AppSlot(victim) \in AppSlots
    BY <1>11, IdTypes DEF Deleting, AppsInv, ScanOK
  <2>3. due \subseteq AppIds
    BY DEF TypeOK
  <2> QED
    BY <1>3, <1>6, <2>1, <2>2, <2>3 DEF AppsInv, ScanOK
<1>15. AppsCounted'
  <2>1. {r \in AppSlots : appId'[r] \in AppIds} = {r \in AppSlots : appId[r] \in AppIds}
    BY <1>1, <1>3, IdTypes
  <2> QED
    BY <1>2, <2>1 DEF AppsInv, AppsCounted
<1>16. TasksInv'
  <2>1. scan' = "tasks" <=> scan = "tasks"
    OBVIOUS
  <2>2. \A d \in Parents :
          /\ step'[d] = "record" => step[d] = "record" /\ UNCHANGED <<newApp[d], newTask[d]>>
          /\ step'[d] \in {"load", "finish", "abort"} => d \in Creators
          /\ d \in TaskIds => UNCHANGED <<step[d], newApp[d]>> \/ ~Busy(d)'
    BY <1>2, IdTypes DEF TasksInv, RecordingOK, Busy
  <2> QED
    BY <1>2, <1>5, <1>6, <2>1, <2>2, TasksFrame
<1> QED
  BY <1>4, <1>7, <1>8, <1>9, <1>12, <1>13, <1>14, <1>15, <1>16 DEF AppsInv

-----------------------------------------------------------------------------
(* The steps of the background task                                        *)

\* Steps of the background task that leave the applications alone.
LEMMA BackgroundFrame ==
  ASSUME IInv,
         UNCHANGED <<appId, appName, appState, request, lastApp, regApps, asked, createVars,
                     recordVars, osVars, taskList, todo>>,
         scan \notin {"tasks", "creating"}, scan' \notin {"tasks", "creating"},
         (\A a : Dead(a) <=> Dead(a)') => ScanOK', LastRequestWins'
  PROVE  AppsInv' /\ TasksInv'
<1> USE DEF IInv, createVars, recordVars, osVars
<1>1. \A a : Dead(a) <=> Dead(a)'
  BY DEF Dead, IsMatch, Busy
<1>2. AppsOK' /\ FreshIds' /\ NamesUnique' /\ AppsCounted'
  BY DEF AppsInv, AppsOK, FreshIds, NamesUnique, AppsCounted
<1>3. CreationsOK' /\ ReservedOwned'
  BY DEF AppsInv, CreationsOK, CreationOK, ReservedOwned, Deleting, Busy
<1>4. TasksInv'
  <2>1. taskList = {}
    BY DEF TasksInv, ListOK
  <2>2. \A d \in Parents : step[d] \in {"load", "finish", "abort"} => d \in Creators
    BY DEF TasksInv, RecordingOK
  <2>3. lastApp \in Nat
    BY DEF TypeOK
  <2> QED
    BY <1>1, <2>1, <2>2, <2>3, TasksFrame
<1> QED
  BY <1>1, <1>2, <1>3, <1>4 DEF AppsInv

LEMMA RestartInv ==
  ASSUME IInv, Restart
  PROVE  IInv'
<1>1. CASE Reserve(Background, snapshot.name) /\ scan' = "creating"
  <2>1. snapshot.name \in Names \cup {NoName}
    BY DEF IInv, TypeOK
  <2> QED
    BY <1>1, <2>1, ReserveInv, IdTypes DEF Restart
<1>2. CASE scan' = "process" /\ UNCHANGED <<tableVars, recordVars, osVars, createVars, asked>>
  <2> USE DEF IInv, Restart
  <2>1. TypeOK'
    BY <1>2 DEF TypeOK, tableVars, recordVars, osVars, createVars
  <2>2. UNCHANGED <<appId, appName, appState, request, lastApp, regApps, asked, createVars,
                    recordVars, osVars, taskList, todo, due, victim, snapshot>>
    BY <1>2 DEF tableVars
  <2>3. (\A a : Dead(a) <=> Dead(a)') => ScanOK'
    BY <1>2, <2>2 DEF AppsInv, ScanOK, Ending, IsMatch
  <2>4. LastRequestWins'
    BY <1>2 DEF LastRequestWins
  <2> QED
    BY <1>2, <2>1, <2>2, <2>3, <2>4, BackgroundFrame
<1> QED
  BY <1>1, <1>2 DEF Restart

LEMMA ProcessDoneInv ==
  ASSUME IInv, ProcessDone
  PROVE  IInv'
<1> USE DEF IInv, ProcessDone, tableVars
<1>1. TypeOK'
  BY DEF TypeOK, recordVars, osVars, createVars
<1>2. ScanOK' /\ LastRequestWins'
  BY DEF ScanOK, LastRequestWins
<1> QED
  BY <1>1, <1>2, BackgroundFrame

\* The copy of the request that is taken is the last one that was accepted.
LEMMA ProcessControlRequestInv ==
  ASSUME IInv, NEW a \in due, ProcessControlRequest(a)
  PROVE  IInv'
<1> USE DEF IInv, ProcessControlRequest, tableVars
<1>1. /\ a \in AppIds /\ Ending(a) /\ AppSlot(a) \in AppSlots
      /\ snapshot' = [req |-> request[AppSlot(a)], name |-> appName[AppSlot(a)]]
  BY IdTypes DEF TypeOK, AppsInv, ScanOK, Ending
<1>2. TypeOK'
  <2>1. snapshot' \in [req : Requests, name : Names \cup {NoName}]
    BY <1>1 DEF TypeOK
  <2> QED
    BY <1>1, <2>1 DEF TypeOK, recordVars, osVars, createVars
<1>3. LastRequestWins'
  BY <1>1 DEF AppsInv, AppsOK, Ending, IsMatch, LastRequestWins
<1>4. ScanOK'
  BY <1>1 DEF AppsInv, ScanOK, Ending, IsMatch
<1> QED
  BY <1>2, <1>3, <1>4, BackgroundFrame

\* A scan: what it finds to have ended has an ID, as what is being created has not
\* run and nothing is being deleted.
LEMMA ScanInv ==
  ASSUME IInv, Scan
  PROVE  IInv'
<1> USE DEF IInv, recordVars, osVars, createVars
<1> DEFINE ending == {s \in AppSlots : appId[s] # FREE /\ appState[s] \in {"waiting", "stopped"}}
           starting == {s \in AppSlots : /\ appId[s] # FREE /\ appState[s] = "running"
                                         /\ request[s] # "run"}
<1>1. /\ scan = "idle" /\ scan' = IF due' = {} THEN "idle" ELSE "process"
      /\ due' = {appId[s] : s \in {r \in ending : timer'[r] = 0}}
      /\ UNCHANGED <<appId, appName, request, mainTask, lastApp, regApps, recordVars, osVars,
                     createVars, victim, snapshot, taskList, todo, swept, asked>>
  BY DEF Scan
<1>2. /\ appState' = [s \in AppSlots |-> IF s \in starting THEN "waiting" ELSE appState[s]]
      /\ timer' = [s \in AppSlots |-> IF s \in starting THEN KillTime
                                      ELSE IF s \in ending THEN TimeOf(s) ELSE timer[s]]
  BY DEF Scan
<1>3. \A s \in ending : /\ appId[s] \in AppIds /\ AppSlot(appId[s]) = s
                        /\ appState[s] \in {"waiting", "stopped"} /\ s \notin starting
  BY <1>1 DEF AppsInv, ReservedOwned, CreationsOK, CreationOK, Deleting, TypeOK, AppsOK
<1>4. \A s \in AppSlots :
        appState'[s] = appState[s] \/ (appState'[s] = "waiting" /\ appState[s] = "running"
                                       /\ request[s] # "run")
  BY <1>2
<1>5. \A a \in due' : a \in AppIds /\ Ending(a)'
  <2> SUFFICES ASSUME NEW s \in ending, timer'[s] = 0
               PROVE  appId[s] \in AppIds /\ Ending(appId[s])'
    BY <1>1
  <2>1. appState'[s] = appState[s] /\ s \in AppSlots
    BY <1>2, <1>3
  <2> QED
    BY <1>1, <1>3, <2>1 DEF Ending, IsMatch, AppSlot
<1>6. TypeOK'
  <2>1. timer' \in [AppSlots -> 0 .. KillTime]
    <3>1. KillTime \in 0 .. KillTime
      BY Constants
    <3>2. \A s \in AppSlots : timer[s] \in 0 .. KillTime /\ TimeOf(s) \in 0 .. KillTime
      BY Constants DEF TypeOK, TimeOf
    <3> QED
      BY <1>2, <3>1, <3>2
  <2>2. appState' \in [AppSlots -> {"init", "running", "waiting", "stopped"}]
    BY <1>2 DEF TypeOK
  <2>3. due' \subseteq AppIds /\ scan' \in {"idle", "process"}
    BY <1>1, <1>5
  <2> HIDE DEF ending, starting
  <2> QED
    BY <1>1, <2>1, <2>2, <2>3 DEF TypeOK
<1> HIDE DEF ending, starting
<1>7. \A a : Dead(a) <=> Dead(a)'
  BY <1>1 DEF Dead, IsMatch, Busy
<1>8. AppsOK'
  BY <1>1, <1>4 DEF AppsInv, AppsOK
<1>9. FreshIds' /\ NamesUnique' /\ LastRequestWins' /\ AppsCounted'
  BY <1>1 DEF AppsInv, FreshIds, NamesUnique, LastRequestWins, AppsCounted
<1>10. CreationsOK'
  <2>1. \A c \in Creators : Busy(c) => AppSlot(newApp[c]) \in AppSlots
    BY CreationTypes
  <2> QED
    BY <1>1, <1>4, <2>1 DEF AppsInv, CreationsOK, CreationOK, Deleting, Busy
<1>11. ReservedOwned'
  BY <1>1 DEF AppsInv, ReservedOwned, Deleting, Busy
<1>12. ScanOK'
  BY <1>1, <1>5, IdTypes DEF ScanOK
<1>13. TasksInv'
  <2>1. taskList = {}
    BY <1>1 DEF TasksInv, ListOK
  <2>2. \A d \in Parents : step[d] \in {"load", "finish", "abort"} => d \in Creators
    BY DEF TasksInv, RecordingOK
  <2>3. lastApp \in Nat
    BY DEF TypeOK
  <2> QED
    BY <1>1, <1>7, <2>1, <2>2, <2>3, TasksFrame
<1> QED
  BY <1>6, <1>8, <1>9, <1>10, <1>11, <1>12, <1>13 DEF AppsInv

\* Clean-up has found all that a task has created.
LEMMA SweptInv ==
  ASSUME IInv, NEW t \in todo, Swept(t)
  PROVE  IInv'
<1> USE DEF IInv, Swept, tableVars, recordVars, osVars, createVars
<1>1. TypeOK'
  BY DEF TypeOK
<1>2. AppsInv'
  BY AppsFrame DEF Busy
<1>3. TasksInv'
  <2>1. \A a : Dead(a) <=> Dead(a)'
    BY DEF Dead, IsMatch, Busy
  <2>2. \A d \in Parents : step[d] \in {"load", "finish", "abort"} => d \in Creators
    BY DEF TasksInv, RecordingOK
  <2>3. lastApp \in Nat
    BY DEF TypeOK
  <2> QED
    BY <2>1, <2>2, <2>3, TasksFrame
<1> QED
  BY <1>1, <1>2, <1>3

\* Clean-up begins: the application and its tasks are found no more.
LEMMA CleanUpBeginInv ==
  ASSUME IInv, CleanUpBegin
  PROVE  IInv'
<1> USE DEF IInv, osVars, createVars
<1> DEFINE s == AppSlot(victim)
<1>1. /\ victim \in AppIds /\ s \in AppSlots /\ appId[s] = victim /\ IsMatch(victim)
      /\ victim <= lastApp
  BY IdTypes DEF CleanUpBegin, AppsInv, ScanOK, Ending, IsMatch, AppsOK
<1>2. /\ scan = "clean" /\ scan' = "tasks"
      /\ regApps' = regApps - 1 /\ regTasks' = regTasks - Cardinality(Mine)
      /\ taskList' = {taskId[r] : r \in Mine} /\ todo' = taskList'
      /\ taskId' = [r \in TaskSlots |-> IF r \in Mine THEN RESERVED ELSE taskId[r]]
      /\ appId' = [appId EXCEPT ![s] = RESERVED]
      /\ UNCHANGED <<appName, appState, request, timer, mainTask, lastApp, taskApp, osVars,
                     createVars, due, victim, snapshot, swept, asked>>
  BY <1>1 DEF CleanUpBegin
<1>3. /\ appId'[s] = RESERVED
      /\ \A r \in AppSlots : r # s => appId'[r] = appId[r]
  BY <1>1, <1>2 DEF TypeOK
<1> HIDE DEF s
<1>4. taskList = {} /\ todo = {} /\ swept = FREE
  BY <1>2 DEF TasksInv, ListOK, TypeOK
<1>5. /\ Mine \subseteq TaskSlots
      /\ \A r \in Mine : /\ taskId[r] \in TaskIds /\ TaskSlot(taskId[r]) = r
                         /\ taskApp[r] = victim /\ born[taskId[r]] = victim
      /\ \A r \in TaskSlots : taskId'[r] = IF r \in Mine THEN RESERVED ELSE taskId[r]
      /\ \A t \in taskList' : t \in TaskIds /\ TaskSlot(t) \in Mine /\ taskId[TaskSlot(t)] = t
  <2>1. /\ Mine \subseteq TaskSlots
        /\ \A r \in Mine : /\ taskId[r] \in TaskIds /\ TaskSlot(taskId[r]) = r
                           /\ taskApp[r] = victim /\ born[taskId[r]] = victim
    BY <1>4 DEF TasksInv, RecordsOK, Mine, TypeOK
  <2>2. \A r \in TaskSlots : taskId'[r] = IF r \in Mine THEN RESERVED ELSE taskId[r]
    BY <1>2
  <2> QED
    BY <1>2, <2>1, <2>2
<1>6. /\ regApps' = Cardinality({r \in AppSlots : appId'[r] \in AppIds})
      /\ regApps' \in Nat
  <2> DEFINE U == {r \in AppSlots : appId[r] \in AppIds}
             V == {r \in AppSlots : appId'[r] \in AppIds}
  <2>1. s \in U /\ V = U \ {s}
    BY <1>1, <1>3, IdTypes
  <2>2. regApps = Cardinality(U)
    BY DEF AppsInv, AppsCounted
  <2>3. /\ U \in SUBSET (0 .. MaxApps - 1) /\ V \in SUBSET (0 .. MaxApps - 1)
        /\ s \in 0 .. MaxApps - 1 /\ MaxApps \in Nat
    BY <1>1, Constants DEF AppSlots
  <2> HIDE DEF U, V
  <2>4. Cardinality(U \ {s}) = Cardinality(U) - 1 /\ Cardinality(V) \in Nat
    BY <2>1, <2>3, SlotCountStep, SlotCount
  <2>5. regApps' = Cardinality(V) /\ regApps' \in Nat
    BY <1>2, <2>1, <2>2, <2>4
  <2> QED
    BY <2>5 DEF V
<1>7. /\ regTasks' >= Cardinality({r \in TaskSlots : taskId'[r] \in TaskIds})
      /\ regTasks' \in Nat
  <2> DEFINE U == {r \in TaskSlots : taskId[r] \in TaskIds}
             V == {r \in TaskSlots : taskId'[r] \in TaskIds}
  <2>1. Mine \in SUBSET U /\ V = U \ Mine
    BY <1>5, IdTypes
  <2>2. regTasks >= Cardinality(U) /\ regTasks \in Nat
    BY DEF TasksInv, TasksCounted, TypeOK
  <2>3. U \in SUBSET (0 .. MaxTasks - 1) /\ V \in SUBSET (0 .. MaxTasks - 1) /\ MaxTasks \in Nat
    BY Constants DEF TaskSlots
  <2>4. Mine \in SUBSET (0 .. MaxTasks - 1)
    BY <2>1, <2>3
  <2> HIDE DEF U, V
  <2>5. Cardinality(V) = Cardinality(U) - Cardinality(Mine)
    BY <2>1, <2>3, SlotCountLess
  <2>6. Cardinality(V) \in Nat /\ Cardinality(U) \in Nat /\ Cardinality(Mine) \in Nat
    BY <2>3, <2>4, SlotCount
  <2>7. regTasks' >= Cardinality(V) /\ regTasks' \in Nat
    BY <1>2, <2>2, <2>5, <2>6
  <2> QED
    BY <2>7 DEF V
<1>8. TypeOK'
  <2>1. appId' \in [AppSlots -> AppIds \cup {FREE, RESERVED}]
    BY <1>2 DEF TypeOK
  <2>2. taskId' \in [TaskSlots -> TaskIds \cup {FREE, RESERVED}]
    BY <1>2, <1>5 DEF TypeOK
  <2>3. todo' \subseteq taskList' /\ taskList' \subseteq TaskIds /\ swept' \in todo' \cup {FREE}
    BY <1>2, <1>4, <1>5
  <2> QED
    BY <1>2, <1>6, <1>7, <2>1, <2>2, <2>3 DEF TypeOK
<1>9. \A c \in Creators : Busy(c) =>
        /\ newApp[c] \in AppIds /\ AppSlot(newApp[c]) \in AppSlots
        /\ AppSlot(newApp[c]) # s /\ newApp[c] # victim
  BY <1>1, CreationTypes, IdTypes DEF s
<1>10. Dead(victim)' /\ ~Dead(victim)
  <2>1. victim \in 1 .. lastApp
    BY <1>1 DEF AppIds, TypeOK
  <2> QED
    BY <1>1, <1>2, <1>3, <1>9, <2>1, IdTypes DEF Dead, IsMatch, Busy, AppSlot, s
<1>11. \A a : Dead(a) => Dead(a)'
  BY <1>2, <1>3, IdTypes DEF Dead, IsMatch, Busy
<1>12. AppsOK' /\ FreshIds' /\ NamesUnique' /\ LastRequestWins' /\ AppsCounted'
  <2>1. \A r \in AppSlots : appId'[r] \in AppIds => appId'[r] = appId[r]
    BY <1>3, IdTypes
  <2>2. \A r \in AppSlots : appId'[r] # FREE => appId[r] # FREE
    BY <1>1, <1>3, IdTypes
  <2> QED
    BY <1>2, <1>6, <2>1, <2>2 DEF AppsInv, AppsOK, FreshIds, NamesUnique, LastRequestWins, AppsCounted
<1>13. CreationsOK'
  BY <1>2, <1>3, <1>9 DEF AppsInv, CreationsOK, CreationOK, Busy, Deleting, s
<1>14. ReservedOwned'
  BY <1>2, <1>3 DEF AppsInv, ReservedOwned, Busy, Deleting, s
<1>15. ScanOK'
  <2>1. \A a \in due : Ending(a)' /\ a # victim
    <3> SUFFICES ASSUME NEW a \in due
                 PROVE  Ending(a)' /\ a # victim
      OBVIOUS
    <3>1. a # victim /\ Ending(a) /\ a \in AppIds
      BY <1>2 DEF AppsInv, ScanOK, TypeOK
    <3>2. AppSlot(a) # s /\ AppSlot(a) \in AppSlots
      BY <1>1, <3>1, IdTypes DEF Ending, IsMatch
    <3> QED
      BY <1>2, <1>3, <3>1, <3>2 DEF Ending, IsMatch
  <2> QED
    BY <1>1, <1>2, <1>3, <1>10, <2>1 DEF ScanOK, s
<1>16. TasksApart' /\ BornOK'
  BY <1>2 DEF TasksInv, TasksApart, BornOK, Alive, Busy
<1>17. FreshTasks'
  <2>1. RESERVED <= lastTask /\ \A r \in TaskSlots : taskId[r] <= lastTask
    BY DEF TasksInv, FreshTasks, TypeOK, RESERVED
  <2>2. \A r \in TaskSlots : taskId'[r] <= lastTask
    BY <1>5, <2>1
  <2>3. \A t \in taskList' : t <= lastTask
    BY <1>5, <2>1
  <2> QED
    BY <1>2, <2>2, <2>3 DEF TasksInv, FreshTasks, Busy
<1>18. ListOK' /\ RecordsOK'
  <2>1. \A t \in taskList' : born[t] = victim
    BY <1>2, <1>5
  <2>2. \A r \in TaskSlots : taskId'[r] \in TaskIds => taskId'[r] = taskId[r]
    BY <1>5, IdTypes
  <2>3. \A r \in TaskSlots : taskId'[r] = RESERVED => \E t \in taskList' : TaskSlot(t) = r
    <3> SUFFICES ASSUME NEW r \in TaskSlots, taskId'[r] = RESERVED
                 PROVE  \E t \in taskList' : TaskSlot(t) = r
      OBVIOUS
    <3>1. r \in Mine
      BY <1>4, <1>5 DEF TasksInv, RecordsOK
    <3>2. taskId[r] \in taskList' /\ TaskSlot(taskId[r]) = r
      BY <1>2, <1>5, <3>1
    <3> QED
      BY <3>2
  <2> QED
    BY <1>2, <2>1, <2>2, <2>3 DEF TasksInv, ListOK, RecordsOK, TaskSlot
<1>19. RecordingOK'
  <2> SUFFICES ASSUME NEW c \in Parents, step[c] = "record"
               PROVE  /\ newTask[c] \notin taskList' /\ taskId'[TaskSlot(newTask[c])] # newTask[c]
                      /\ phase[newTask[c]] = "poll"
    BY <1>2 DEF TasksInv, RecordingOK, TaskSlot
  <2>1. /\ newTask[c] \in 1 .. lastTask /\ taskId[TaskSlot(newTask[c])] # newTask[c]
        /\ phase[newTask[c]] = "poll"
    BY <1>4 DEF TasksInv, RecordingOK
  <2>2. newTask[c] \in TaskIds
    BY <2>1, Constants DEF TypeOK, TaskIds
  <2> QED
    BY <1>5, <2>1, <2>2, IdTypes
<1>20. KeptOK'
  <2> SUFFICES ASSUME NEW t \in TaskIds, phase[t] \in {"run", "stopped"}, ~Dead(born[t])'
               PROVE  (taskId'[TaskSlot(t)] = t /\ taskApp[TaskSlot(t)] = born[t])
                      \/ Lost(TaskSlot(t))'
    BY <1>2 DEF KeptOK, HasRecord, ContextOf, TaskSlot
  <2>1. ~Dead(born[t]) /\ born[t] # victim /\ TaskSlot(t) \in TaskSlots
    BY <1>2, <1>10, <1>11, IdTypes
  <2>2. CASE taskId[TaskSlot(t)] = t /\ taskApp[TaskSlot(t)] = born[t]
    BY <1>5, <2>1, <2>2
  <2>3. CASE Lost(TaskSlot(t))
    <3>1. PICK u \in TaskIds : taskId[TaskSlot(t)] = u /\ phase[u] = "gone" /\ Dead(born[u])
      BY <2>3 DEF Lost
    <3>2. TaskSlot(t) \notin Mine
      BY <1>5, <1>10, <3>1
    <3>3. taskId'[TaskSlot(t)] = u /\ Dead(born[u])'
      BY <1>2, <1>5, <1>11, <2>1, <3>1, <3>2
    <3> QED
      BY <1>2, <3>1, <3>3 DEF Lost, TaskSlot
  <2> QED
    BY <2>1, <2>2, <2>3 DEF TasksInv, KeptOK, HasRecord, ContextOf
<1>21. TasksCounted'
  BY <1>7 DEF TasksCounted
<1> QED
  BY <1>8, <1>12, <1>13, <1>14, <1>15, <1>16, <1>17, <1>18, <1>19, <1>20, <1>21 DEF AppsInv, TasksInv

\* A task is deleted; what it was creating nobody finishes.
LEMMA DeleteTaskInv ==
  ASSUME IInv, NEW t \in todo, DeleteTask(t)
  PROVE  IInv'
<1> USE DEF IInv, tableVars, recordVars
<1>1. /\ t \in TaskIds /\ t \in taskList /\ t \in Parents /\ t \notin Creators
      /\ t <= lastTask /\ lastTask \in Nat
  <2>1. t \in taskList /\ t \in TaskIds /\ lastTask \in Nat
    BY DEF TypeOK
  <2>2. t \in Parents /\ t \notin Creators
    BY <2>1, IdTypes
  <2>3. t <= lastTask
    BY <2>1 DEF TasksInv, FreshTasks
  <2> QED
    BY <2>1, <2>2, <2>3
<1>2. /\ \A d \in Parents : d # t => /\ step'[d] = step[d] /\ newApp'[d] = newApp[d]
                                     /\ newTask'[d] = newTask[d]
      /\ step'[t] = "idle"
      /\ phase'[t] = "gone" /\ \A u \in TaskIds : u # t => phase'[u] = phase[u]
      /\ todo' = todo \ {t}
      /\ UNCHANGED <<tableVars, recordVars, lastTask, born, creator, scan, due, victim, snapshot,
                     taskList, asked>>
  BY <1>1 DEF TypeOK, DeleteTask
<1>3. TypeOK'
  <2>1. /\ step' \in [Parents -> {"idle", "load", "start", "record", "finish", "abort"}]
        /\ newApp' \in [Parents -> AppIds \cup {FREE}]
        /\ newTask' \in [Parents -> TaskIds \cup {FREE}]
        /\ phase' \in [TaskIds -> {"none", "poll", "run", "stopped", "leaving", "gone"}]
        /\ todo' \subseteq taskList' /\ swept' \in todo' \cup {FREE}
    BY DEF TypeOK, DeleteTask
  <2> QED
    BY <1>2, <2>1 DEF TypeOK
<1>4. \A c \in Creators : (Busy(c)' <=> Busy(c)) /\ newApp'[c] = newApp[c]
  BY <1>1, <1>2, IdTypes DEF Busy
<1>5. AppsInv'
  BY <1>2, <1>4, AppsFrame
<1>6. \A a : Dead(a) <=> Dead(a)'
  BY <1>2, <1>4 DEF Dead, IsMatch
<1>7. TasksApart' /\ FreshTasks'
  <2>1. \A u \in TaskIds : Alive(u)' => Alive(u)
    BY <1>2 DEF Alive
  <2>2. \A u \in TaskIds : u > lastTask => u # t
    BY <1>1, IdTypes
  <2> QED
    BY <1>2, <2>1, <2>2, IdTypes DEF TasksInv, TasksApart, FreshTasks, Busy, TaskSlot
<1>8. BornOK' /\ ListOK' /\ RecordsOK' /\ TasksCounted'
  BY <1>1, <1>2, IdTypes DEF TasksInv, BornOK, ListOK, RecordsOK, TasksCounted, Busy
<1>9. RecordingOK'
  <2> SUFFICES ASSUME NEW c \in Parents
               PROVE  (/\ step[c] \in {"load", "finish", "abort"} => c \in Creators
                       /\ step[c] = "record" =>
                            LET u == newTask[c] IN
                            /\ u \in 1 .. lastTask /\ creator[u] = c /\ born[u] = newApp[c]
                            /\ u \notin taskList /\ taskId[TaskSlot(u)] # u
                            /\ phase[u] = "poll" \/ (phase[u] = "gone" /\ c \in todo))'
    BY DEF RecordingOK
  <2>1. CASE c = t
    BY <1>2, <2>1
  <2>2. CASE c # t
    <3>1. step[c] = "record" => newTask[c] # t /\ newTask[c] \in TaskIds
      BY <1>1, Constants DEF TasksInv, RecordingOK, TypeOK, TaskIds
    <3> QED
      BY <1>2, <2>2, <3>1 DEF TasksInv, RecordingOK, TaskSlot
  <2> QED
    BY <2>1, <2>2
<1>10. KeptOK'
  <2>1. \A r : Lost(r) => Lost(r)'
    BY <1>2, <1>6 DEF Lost
  <2>2. \A u \in TaskIds : phase'[u] \in {"run", "stopped"} => u # t /\ phase'[u] = phase[u]
    BY <1>2
  <2> QED
    BY <1>2, <1>6, <2>1, <2>2 DEF TasksInv, KeptOK, HasRecord, ContextOf, TaskSlot
<1> QED
  BY <1>3, <1>5, <1>7, <1>8, <1>9, <1>10 DEF TasksInv

\* Clean-up ends: what it had reserved is free, and nothing else.
LEMMA CleanUpEndInv ==
  ASSUME IInv, CleanUpEnd
  PROVE  IInv'
<1> USE DEF IInv, osVars, createVars
<1> DEFINE s == AppSlot(victim)
<1>1. /\ scan = "tasks" /\ scan' \in {"restart", "process"} /\ todo = {} /\ taskList' = {}
      /\ taskId' = FreeRecords /\ appId' = [appId EXCEPT ![s] = FREE]
      /\ UNCHANGED <<appName, appState, request, timer, mainTask, lastApp, regApps, taskApp,
                     regTasks, osVars, createVars, due, victim, snapshot, todo, swept, asked>>
  BY DEF CleanUpEnd
<1>2. /\ victim \in AppIds /\ s \in AppSlots /\ appId[s] = RESERVED /\ Dead(victim)
      /\ appId'[s] = FREE /\ \A r \in AppSlots : r # s => appId'[r] = appId[r]
  BY <1>1, IdTypes DEF AppsInv, ScanOK, TypeOK
<1>3. \A r : Deleting(r) <=> r = s
  BY <1>1 DEF Deleting
<1> HIDE DEF s
<1>4. \A r \in TaskSlots : /\ taskId'[r] # RESERVED
                           /\ taskId'[r] = taskId[r] \/ (taskId[r] = RESERVED /\ taskId'[r] = FREE)
  BY <1>1, IdTypes DEF FreeRecords, TasksInv, RecordsOK
<1>5. TypeOK'
  <2>1. taskId' \in [TaskSlots -> TaskIds \cup {FREE, RESERVED}]
    BY <1>1 DEF TypeOK, FreeRecords
  <2>2. appId' \in [AppSlots -> AppIds \cup {FREE, RESERVED}]
    BY <1>1 DEF TypeOK
  <2> QED
    BY <1>1, <2>1, <2>2 DEF TypeOK
<1>6. \A a : Dead(a) <=> Dead(a)'
  <2>1. \A a \in AppIds : IsMatch(a)' <=> IsMatch(a)
    BY <1>2, IdTypes DEF IsMatch, AppSlot
  <2> QED
    BY <1>1, <2>1 DEF Dead, IsMatch, Busy
<1>7. AppsOK' /\ FreshIds' /\ NamesUnique' /\ LastRequestWins'
  <2>1. \A r \in AppSlots : /\ appId'[r] \in AppIds => appId'[r] = appId[r]
                            /\ appId'[r] # FREE => appId[r] # FREE
    BY <1>2, IdTypes
  <2> QED
    BY <1>1, <2>1 DEF AppsInv, AppsOK, FreshIds, NamesUnique, LastRequestWins
<1>8. AppsCounted'
  <2>1. {r \in AppSlots : appId'[r] \in AppIds} = {r \in AppSlots : appId[r] \in AppIds}
    BY <1>2, IdTypes
  <2> QED
    BY <1>1, <2>1 DEF AppsInv, AppsCounted
<1>9. CreationsOK'
  <2>1. \A c \in Creators : Busy(c) => AppSlot(newApp[c]) # s /\ AppSlot(newApp[c]) \in AppSlots
    BY <1>3, CreationTypes DEF AppsInv, CreationsOK, CreationOK
  <2>2. \A r : ~Deleting(r)'
    BY <1>1 DEF Deleting
  <2> QED
    BY <1>1, <1>2, <2>1, <2>2 DEF AppsInv, CreationsOK, CreationOK, Busy
<1>10. ReservedOwned'
  <2>1. \A r \in AppSlots : appId'[r] = RESERVED => r # s /\ appId[r] = RESERVED
    BY <1>2, IdTypes
  <2> QED
    BY <1>1, <1>3, <2>1 DEF AppsInv, ReservedOwned, Busy
<1>11. ScanOK'
  <2>1. \A a \in due : Ending(a)'
    <3> SUFFICES ASSUME NEW a \in due
                 PROVE  Ending(a)'
      OBVIOUS
    <3>1. Ending(a) /\ a \in AppIds
      BY DEF AppsInv, ScanOK, TypeOK
    <3>2. AppSlot(a) # s /\ AppSlot(a) \in AppSlots
      BY <1>2, <3>1, IdTypes DEF Ending, IsMatch
    <3> QED
      BY <1>1, <1>2, <3>1, <3>2 DEF Ending, IsMatch
  <2>2. \A a \in due : a # victim
    BY <1>1 DEF AppsInv, ScanOK
  <2> QED
    BY <1>1, <1>2, <1>6, <2>1, <2>2 DEF ScanOK
<1>12. TasksApart' /\ BornOK'
  BY <1>1 DEF TasksInv, TasksApart, BornOK, Alive, Busy
<1>13. FreshTasks'
  <2>1. FREE <= lastTask /\ \A r \in TaskSlots : taskId[r] <= lastTask
    BY DEF TasksInv, FreshTasks, TypeOK, FREE
  <2>2. \A r \in TaskSlots : taskId'[r] <= lastTask
    BY <1>4, <2>1
  <2> QED
    BY <1>1, <2>2 DEF TasksInv, FreshTasks, Busy
<1>14. ListOK' /\ RecordsOK'
  BY <1>1, <1>4, IdTypes DEF TasksInv, ListOK, RecordsOK, TaskSlot
<1>15. RecordingOK'
  <2> SUFFICES ASSUME NEW c \in Parents, step[c] = "record"
               PROVE  taskId'[TaskSlot(newTask[c])] # newTask[c] /\ phase[newTask[c]] = "poll"
    BY <1>1 DEF TasksInv, RecordingOK, TaskSlot
  <2>1. /\ newTask[c] \in 1 .. lastTask /\ taskId[TaskSlot(newTask[c])] # newTask[c]
        /\ phase[newTask[c]] = "poll"
    BY <1>1 DEF TasksInv, RecordingOK
  <2>2. newTask[c] \in TaskIds
    BY <2>1, Constants DEF TypeOK, TaskIds
  <2> QED
    BY <1>4, <2>1, <2>2, IdTypes
<1>16. KeptOK'
  <2>1. \A r \in TaskSlots : taskId[r] \in TaskIds => taskId'[r] = taskId[r]
    BY <1>4, IdTypes
  <2>2. \A r \in TaskSlots : Lost(r) => Lost(r)'
    BY <1>1, <1>6, <2>1 DEF Lost
  <2> QED
    BY <1>1, <1>6, <2>1, <2>2, IdTypes DEF TasksInv, KeptOK, HasRecord, ContextOf, TaskSlot
<1>17. TasksCounted'
  <2>1. {r \in TaskSlots : taskId'[r] \in TaskIds} = {r \in TaskSlots : taskId[r] \in TaskIds}
    BY <1>4, IdTypes
  <2> QED
    BY <1>1, <2>1 DEF TasksInv, TasksCounted
<1> QED
  BY <1>5, <1>7, <1>8, <1>9, <1>10, <1>11, <1>12, <1>13, <1>14, <1>15, <1>16, <1>17 DEF AppsInv, TasksInv

-----------------------------------------------------------------------------
(* The theorems                                                            *)

LEMMA StutterInv ==
  ASSUME IInv, UNCHANGED vars
  PROVE  IInv'
<1> USE DEF IInv, vars, tableVars, recordVars, osVars, createVars, scanVars
<1>1. TypeOK'
  BY DEF TypeOK
<1>2. AppsInv'
  BY AppsFrame DEF Busy
<1>3. TasksInv'
  <2>1. \A a : Dead(a) <=> Dead(a)'
    BY DEF Dead, IsMatch, Busy
  <2>2. \A d \in Parents : step[d] \in {"load", "finish", "abort"} => d \in Creators
    BY DEF TasksInv, RecordingOK
  <2>3. lastApp \in Nat
    BY DEF TypeOK
  <2> QED
    BY <2>1, <2>2, <2>3, TasksFrame
<1> QED
  BY <1>1, <1>2, <1>3

LEMMA NextInv == IInv /\ [Next]_vars => IInv'
<1> SUFFICES ASSUME IInv, [Next]_vars
             PROVE  IInv'
  OBVIOUS
<1>1. ASSUME NEW c \in Starters, NEW n \in Names, AppCreate(c, n)
      PROVE  IInv'
  <2>1. c \in Creators /\ c # Background /\ n \in Names \cup {NoName}
    BY Constants, IdTypes
  <2> QED
    BY <1>1, <2>1, ReserveInv DEF AppCreate, scanVars
<1>2. ASSUME NEW c \in Parents, Create(c)
      PROVE  IInv'
  BY <1>2, LoadModuleInv, TaskCreateInv, TaskRecordInv, AppCreateEndInv DEF Create
<1>3. ASSUME NEW t \in TaskIds, Task(t)
      PROVE  IInv'
  BY <1>3, RunLoopInv, ExitAppInv, EntryReturnsInv, CreateChildTaskInv, ChildEndsInv DEF Task
<1>4. ASSUME NEW t \in TaskIds, Wake(t)
      PROVE  IInv'
  BY <1>4, WakeInv
<1>5. ASSUME NEW a \in AppIds, NEW req \in Requests, ControlRequest(a, req)
      PROVE  IInv'
  BY <1>5, ControlRequestInv
<1>6. CASE Scan
  BY <1>6, ScanInv
<1>7. CASE CleanUp
  BY <1>7, ProcessControlRequestInv, SweptInv, DeleteTaskInv, DeleteOwnedInv, ProcessDoneInv,
     CleanUpBeginInv, CleanUpEndInv, RestartInv DEF CleanUp
<1>8. CASE UNCHANGED vars
  BY <1>8, StutterInv
<1> QED
  BY <1>1, <1>2, <1>3, <1>4, <1>5, <1>6, <1>7, <1>8 DEF Next

LEMMA Invariance == Spec => []IInv
BY InitInv, NextInv, PTL DEF Spec

\* The tables of applications and tasks and all that works on them have their
\* types, the timers of the applications among it.
THEOREM TypesHold == Spec => []TypeOK
<1>1. IInv => TypeOK
  BY DEF IInv
<1> QED
  BY <1>1, Invariance, PTL

\* A slot of the application table is reserved exactly while one task makes the
\* application in it or clean-up deletes it (CFE_ES_AppCreate, CFE_ES_CleanUpApp),
\* and no name is given twice.
THEOREM RecordsStaySound == Spec => []RecordsSound
<1>1. IInv => RecordsSound
  BY Implied
<1> QED
  BY <1>1, Invariance, PTL

\* A task of a living application finds its record and its application, unless the
\* record was taken by a child that clean-up deleted before it was registered; no
\* application and no task record in use is left out of the counts of ES.
THEOREM TasksStayKnown == Spec => []TasksKnown
<1>1. IInv => TasksKnown
  BY Implied
<1> QED
  BY <1>1, Invariance, PTL

\* What clean-up does with an application is what the last request that was
\* accepted said (CFE_ES_ProcessControlRequest), and an exit when there was none.
THEOREM TheLastRequestWins == Spec => []LastRequestWins
<1>1. IInv => LastRequestWins
  BY Implied
<1> QED
  BY <1>1, Invariance, PTL

=============================================================================
