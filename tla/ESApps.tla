------------------------------- MODULE ESApps --------------------------------
(***************************************************************************)
(* cFE Executive Services: the life of an application and of its tasks.    *)
(*                                                                         *)
(* Applications are created by the start-up thread, by the ES command task *)
(* and, when they are restarted, by the background task, which also deletes*)
(* them.  Tables of applications and tasks are shared under the ES lock;   *)
(* what is done between taking and releasing it is one action, and so is   *)
(* each OSAL call made outside it.  Applications of the core, which nobody *)
(* restarts or deletes, are left out; so are the module loader, the memory *)
(* pools and the OSAL objects of a task, event messages and the parameters *)
(* of a task.  Reload is Restart with another file.  The resources in the  *)
(* other services, which clean-up releases, are in the module SB.          *)
(***************************************************************************)
EXTENDS Integers, FiniteSets

CONSTANTS
  Starters,      \* tasks that start applications: start-up, ES command task
  Background,    \* the background task of ES
  Names,         \* application names
  MaxApps,       \* CFE_PLATFORM_ES_MAX_APPLICATIONS
  MaxTasks,      \* OS_MAX_TASKS
  KillTime,      \* CFE_PLATFORM_ES_APP_KILL_TIMEOUT, in scans
  LastApp,       \* bound: the last application ID given
  LastTask,      \* bound: the last OSAL task ID given
  NoName

ASSUME TableAssumption == MaxApps \in Nat \ {0} /\ MaxTasks \in Nat \ {0}
ASSUME BoundAssumption == KillTime \in Nat \ {0} /\ LastApp \in Nat /\ LastTask \in Nat

AppIds    == 1 .. LastApp
TaskIds   == 1 .. LastTask
AppSlots  == 0 .. MaxApps - 1
TaskSlots == 0 .. MaxTasks - 1
FREE      == 0                       \* CFE_RESOURCEID_UNDEFINED
RESERVED  == -1                      \* CFE_RESOURCEID_RESERVED
AppSlot(a)  == a % MaxApps           \* CFE_ES_LocateAppRecordByID
TaskSlot(t) == t % MaxTasks          \* CFE_ES_LocateTaskRecordByID
Requests == {"run", "exit", "delete", "restart"}

ASSUME NamesAssumption == NoName \notin Names
ASSUME StartersAssumption == Background \notin Starters /\ (Starters \cup {Background}) \cap TaskIds = {}

\* The tasks that run CFE_ES_AppCreate, and those that run CFE_ES_StartAppTask.
Creators == Starters \cup {Background}
Parents  == Creators \cup TaskIds

VARIABLES
  appId, appName, appState, request, timer, mainTask, \* AppTable, by slot
  lastApp, regApps,    \* LastAppId, RegisteredExternalApps
  taskId, taskApp,     \* TaskTable, by slot
  lastTask, regTasks,  \* the last OSAL task ID given, RegisteredTasks
  phase, born, creator, \* of each OSAL task: where it is, whose it is, who made it
  step, newApp, newTask, \* the creation each task is in
  scan, due, victim, snapshot, taskList, \* the background task
  todo, swept,         \* its tasks to delete, and the one without objects left
  asked                \* specification only: the last request accepted

tableVars == <<appId, appName, appState, request, timer, mainTask, lastApp, regApps>>
recordVars == <<taskId, taskApp, regTasks>>
osVars == <<lastTask, phase, born, creator>>
createVars == <<step, newApp, newTask>>
scanVars == <<scan, due, victim, snapshot, taskList, todo, swept>>
vars == <<tableVars, recordVars, osVars, createVars, scanVars, asked>>

Init ==
  /\ appId = [s \in AppSlots |-> FREE]
  /\ appName = [s \in AppSlots |-> NoName]
  /\ appState = [s \in AppSlots |-> "init"]
  /\ request = [s \in AppSlots |-> "run"]
  /\ timer = [s \in AppSlots |-> 0]
  /\ mainTask = [s \in AppSlots |-> FREE]
  /\ lastApp = 0 /\ regApps = 0
  /\ taskId = [s \in TaskSlots |-> FREE]
  /\ taskApp = [s \in TaskSlots |-> FREE]
  /\ lastTask = 0 /\ regTasks = 0
  /\ phase = [t \in TaskIds |-> "none"]
  /\ born = [t \in TaskIds |-> FREE] /\ creator = [t \in TaskIds |-> FREE]
  /\ step = [c \in Parents |-> "idle"]
  /\ newApp = [c \in Parents |-> FREE]
  /\ newTask = [c \in Parents |-> FREE]
  /\ scan = "idle" /\ due = {} /\ victim = FREE
  /\ snapshot = [req |-> "run", name |-> NoName]
  /\ taskList = {} /\ todo = {} /\ swept = FREE
  /\ asked = [a \in AppIds |-> "run"]

-----------------------------------------------------------------------------
(* Helpers.                                                                *)

IsMatch(a) == a \in AppIds /\ appId[AppSlot(a)] = a

\* CFE_ES_LocateAppRecordByName
Taken(n) == \E s \in AppSlots : appId[s] # FREE /\ appName[s] = n

\* CFE_ResourceId_FindNext: the first ID after the last whose slot is free.
FreeApps == {a \in lastApp + 1 .. lastApp + MaxApps : appId[AppSlot(a)] = FREE}
Lowest(S) == CHOOSE a \in S : \A b \in S : a <= b

\* An OSAL task from OS_TaskCreate to OS_TaskExit or OS_TaskDelete.
Alive(t) == phase[t] \notin {"none", "gone"}

\* OS_ObjectIdFindNextFree for OSAL tasks.
FreeTasks == {t \in lastTask + 1 .. lastTask + MaxTasks :
                \A u \in TaskIds : Alive(u) => TaskSlot(u) # TaskSlot(t)}

HasRecord(t) == taskId[TaskSlot(t)] = t              \* CFE_ES_GetTaskRecordByContext
ContextOf(t) == taskApp[TaskSlot(t)]
HasContext(t) == HasRecord(t) /\ IsMatch(ContextOf(t)) \* CFE_ES_GetAppRecordByContext
Slot(t) == AppSlot(ContextOf(t))
Runs(t) == phase[t] = "run" /\ step[t] = "idle"      \* in the application's code

-----------------------------------------------------------------------------
(* CFE_ES_AppCreate and CFE_ES_StartAppTask                                *)

\* Under the lock: the name must be new, and a slot is reserved.
Reserve(c, n) ==
  LET a == Lowest(FreeApps)  s == AppSlot(a)
  IN  /\ step[c] = "idle"
      /\ ~Taken(n) /\ FreeApps # {}
      /\ a \in AppIds                                  \* bound: LastApp
      /\ appId' = [appId EXCEPT ![s] = RESERVED]
      /\ appName' = [appName EXCEPT ![s] = n]
      /\ appState' = [appState EXCEPT ![s] = "init"]
      /\ request' = [request EXCEPT ![s] = "run"]
      /\ timer' = [timer EXCEPT ![s] = 0]
      /\ mainTask' = [mainTask EXCEPT ![s] = FREE]
      /\ lastApp' = a
      /\ newApp' = [newApp EXCEPT ![c] = a]
      /\ step' = [step EXCEPT ![c] = "load"]
      /\ UNCHANGED <<regApps, recordVars, osVars, newTask, asked>>

\* CFE_ES_StartAppCmd and CFE_ES_ParseFileEntry.
AppCreate(c, n) == c \in Starters /\ Reserve(c, n) /\ UNCHANGED scanVars

LoadModule(c) ==
  /\ step[c] = "load"
  /\ \E next \in {"start", "abort"} : step' = [step EXCEPT ![c] = next]
  /\ UNCHANGED <<tableVars, recordVars, osVars, newApp, newTask, scanVars, asked>>

\* OS_TaskCreate: the new task runs at once, and waits for its record.  When
\* it fails the application, or the child, is not made.
TaskCreate(c) ==
  LET t == Lowest(FreeTasks)
  IN  /\ step[c] = "start"
      /\ \/ /\ FreeTasks # {} /\ t \in TaskIds         \* bound: LastTask
            /\ phase' = [phase EXCEPT ![t] = "poll"]
            /\ born' = [born EXCEPT ![t] = newApp[c]]
            /\ creator' = [creator EXCEPT ![t] = c]
            /\ lastTask' = t
            /\ newTask' = [newTask EXCEPT ![c] = t]
            /\ step' = [step EXCEPT ![c] = "record"]
            /\ UNCHANGED newApp
         \/ /\ step' = [step EXCEPT ![c] = IF c \in Creators THEN "abort" ELSE "idle"]
            /\ newApp' = IF c \in Creators THEN newApp ELSE [newApp EXCEPT ![c] = FREE]
            /\ UNCHANGED <<osVars, newTask>>
  /\ UNCHANGED <<tableVars, recordVars, scanVars, asked>>

\* The record of the new task, under the lock; whatever was there is cleared.
TaskRecord(c) ==
  LET t == newTask[c]  s == TaskSlot(t)
  IN  /\ step[c] = "record"
      /\ taskId' = [taskId EXCEPT ![s] = t]
      /\ taskApp' = [taskApp EXCEPT ![s] = newApp[c]]
      /\ regTasks' = regTasks + 1
      /\ IF c \in Creators
         THEN /\ mainTask' = [mainTask EXCEPT ![AppSlot(newApp[c])] = t]
              /\ step' = [step EXCEPT ![c] = "finish"]
              /\ UNCHANGED <<newApp, newTask>>
         ELSE /\ step' = [step EXCEPT ![c] = "idle"]
              /\ newApp' = [newApp EXCEPT ![c] = FREE]
              /\ newTask' = [newTask EXCEPT ![c] = FREE]
              /\ UNCHANGED mainTask
  /\ UNCHANGED <<appId, appName, appState, request, timer, lastApp, regApps, osVars,
                 scanVars, asked>>

\* Mutant of Ends: the slot of a creation that failed stays reserved.
EndsReserved(c) ==
  /\ \/ /\ step[c] = "finish"
        /\ appId' = [appId EXCEPT ![AppSlot(newApp[c])] = newApp[c]]
        /\ regApps' = regApps + 1
     \/ /\ step[c] = "abort"
        /\ UNCHANGED <<appId, regApps>>
  /\ UNCHANGED <<appName, appState, request, timer, mainTask, lastApp>>

\* The last section of CFE_ES_AppCreate: the slot gets its ID, or is free again.
Ends(c) ==
  /\ \/ /\ step[c] = "finish"
        /\ appId' = [appId EXCEPT ![AppSlot(newApp[c])] = newApp[c]]
        /\ regApps' = regApps + 1
     \/ /\ step[c] = "abort"
        /\ appId' = [appId EXCEPT ![AppSlot(newApp[c])] = FREE]
        /\ UNCHANGED regApps
  /\ UNCHANGED <<appName, appState, request, timer, mainTask, lastApp>>

AppCreateEnd(c) ==
  /\ Ends(c)
  /\ step' = [step EXCEPT ![c] = "idle"]
  /\ newApp' = [newApp EXCEPT ![c] = FREE]
  /\ newTask' = [newTask EXCEPT ![c] = FREE]
  /\ scan' = IF c = Background THEN "process" ELSE scan
  /\ UNCHANGED <<recordVars, osVars, due, victim, snapshot, taskList, todo, swept, asked>>

-----------------------------------------------------------------------------
(* The tasks of applications.                                              *)

\* CFE_ES_GetTaskFunction finds the record of its task, and calls the entry
\* function.
GetTaskFunction(t) ==
  /\ phase[t] = "poll" /\ HasRecord(t)
  /\ phase' = [phase EXCEPT ![t] = "run"]
  /\ UNCHANGED <<tableVars, recordVars, lastTask, born, creator, createVars, scanVars, asked>>

\* It times out.  No creation takes that long (30 seconds): a task that still
\* has no record has lost its creator, or belongs to clean-up.
GiveUp(t) ==
  /\ phase[t] = "poll" /\ ~HasRecord(t)
  /\ \A c \in Parents : newTask[c] # t
  /\ phase' = [phase EXCEPT ![t] = "gone"]
  /\ UNCHANGED <<tableVars, recordVars, lastTask, born, creator, createVars, scanVars, asked>>

\* CFE_ES_RunLoop, and the waits of the start-up that imply the same state.
RunLoop(t) ==
  /\ Runs(t) /\ HasContext(t) /\ appState[Slot(t)] = "init"
  /\ appState' = [appState EXCEPT ![Slot(t)] = "running"]
  /\ UNCHANGED <<appId, appName, request, timer, mainTask, lastApp, regApps, recordVars,
                 osVars, createVars, scanVars, asked>>

\* Mutant of Exiting: the exit overrides the request of the ground.
ExitingOverrides(s) == "exit"

\* The request after CFE_ES_ExitApp: one that is pending is kept.
Exiting(s) == IF request[s] = "run" THEN "exit" ELSE request[s]

\* CFE_ES_ExitApp: the task waits there to be deleted.
ExitApp(t) ==
  /\ Runs(t) /\ HasContext(t)
  /\ request' = [request EXCEPT ![Slot(t)] = Exiting(Slot(t))]
  /\ appState' = [appState EXCEPT ![Slot(t)] = "stopped"]
  /\ phase' = [phase EXCEPT ![t] = "stopped"]
  /\ UNCHANGED <<appId, appName, timer, mainTask, lastApp, regApps, recordVars, lastTask,
                 born, creator, createVars, scanVars, asked>>

\* Without its context RunLoop and ExitApp return, the entry function too, and
\* the task ends in OS_TaskExit.
EntryReturns(t) ==
  /\ Runs(t) /\ ~HasContext(t)
  /\ phase' = [phase EXCEPT ![t] = "gone"]
  /\ UNCHANGED <<tableVars, recordVars, lastTask, born, creator, createVars, scanVars, asked>>

\* CFE_ES_CreateChildTask: the caller must be the main task.
CreateChildTask(t) ==
  /\ Runs(t) /\ HasContext(t) /\ mainTask[Slot(t)] = t
  /\ newApp' = [newApp EXCEPT ![t] = ContextOf(t)]
  /\ step' = [step EXCEPT ![t] = "start"]
  /\ UNCHANGED <<tableVars, recordVars, osVars, newTask, scanVars, asked>>

IsMain(t) == \E s \in AppSlots : appId[s] # FREE /\ mainTask[s] = t

\* CFE_ES_DeleteChildTask, OS_TaskDelete included: that is called with the lock.
DeleteChildTask(t, u) ==
  /\ Runs(t) /\ u # t
  /\ HasRecord(u) /\ ~IsMain(u) /\ Alive(u)
  /\ phase' = [phase EXCEPT ![u] = "gone"]
  /\ taskId' = [taskId EXCEPT ![TaskSlot(u)] = FREE]
  /\ regTasks' = regTasks - 1
  /\ UNCHANGED <<tableVars, taskApp, lastTask, born, creator, createVars, scanVars, asked>>

\* CFE_ES_ExitChildTask, up to OS_TaskExit.
ExitChildTask(t) ==
  /\ Runs(t) /\ HasContext(t) /\ mainTask[Slot(t)] # t
  /\ taskId' = [taskId EXCEPT ![TaskSlot(t)] = FREE]
  /\ regTasks' = regTasks - 1
  /\ phase' = [phase EXCEPT ![t] = "leaving"]
  /\ UNCHANGED <<tableVars, taskApp, lastTask, born, creator, createVars, scanVars, asked>>

TaskExit(t) ==
  /\ phase[t] = "leaving"
  /\ phase' = [phase EXCEPT ![t] = "gone"]
  /\ UNCHANGED <<tableVars, recordVars, lastTask, born, creator, createVars, scanVars, asked>>

\* CFE_ES_DeleteApp, CFE_ES_RestartApp and CFE_ES_ReloadApp, called from any
\* task: only a running application takes a request.
ControlRequest(a, req) ==
  /\ IsMatch(a) /\ appState[AppSlot(a)] = "running"
  /\ req \in {"delete", "restart"}
  /\ request' = [request EXCEPT ![AppSlot(a)] = req]
  /\ asked' = [asked EXCEPT ![a] = req]
  /\ UNCHANGED <<appId, appName, appState, timer, mainTask, lastApp, regApps, recordVars,
                 osVars, createVars, scanVars>>

-----------------------------------------------------------------------------
(* The background task: CFE_ES_RunAppTableScan                             *)

\* Mutants of TimeOf: the timer of an application that waits never runs out;
\* the timer of one that has exited runs below zero.
TimeOfWaiting(s) == timer[s]
TimeOfBelow(s) == timer[s] - 1

\* The time an application has left after one more scan.
TimeOf(s) == IF timer[s] > 1 THEN timer[s] - 1 ELSE 0

Scan ==
  LET ending  == {s \in AppSlots : appId[s] # FREE /\ appState[s] \in {"waiting", "stopped"}}
      starting == {s \in AppSlots : /\ appId[s] # FREE /\ appState[s] = "running"
                                    /\ request[s] # "run"}
  IN  /\ scan = "idle"
      /\ ending \cup starting # {}
      /\ appState' = [s \in AppSlots |-> IF s \in starting THEN "waiting" ELSE appState[s]]
      /\ timer' = [s \in AppSlots |-> IF s \in starting THEN KillTime
                                      ELSE IF s \in ending THEN TimeOf(s) ELSE timer[s]]
      /\ due' = {appId[s] : s \in {r \in ending : timer'[r] = 0}}
      /\ scan' = IF due' = {} THEN "idle" ELSE "process"
      /\ UNCHANGED <<appId, appName, request, mainTask, lastApp, regApps, recordVars, osVars,
                     createVars, victim, snapshot, taskList, todo, swept, asked>>

\* CFE_ES_ProcessControlRequest: a copy of the request, under the lock.
ProcessControlRequest(a) ==
  /\ scan = "process" /\ a \in due
  /\ due' = due \ {a}
  /\ victim' = a
  /\ snapshot' = IF IsMatch(a)
                 THEN [req |-> request[AppSlot(a)], name |-> appName[AppSlot(a)]]
                 ELSE [req |-> "run", name |-> NoName]
  /\ scan' = "clean"
  /\ UNCHANGED <<tableVars, recordVars, osVars, createVars, taskList, todo, swept, asked>>

ProcessDone ==
  /\ scan = "process" /\ due = {}
  /\ scan' = "idle"
  /\ victim' = FREE
  /\ UNCHANGED <<tableVars, recordVars, osVars, createVars, due, snapshot, taskList, todo, swept,
                 asked>>

\* The task records of the application.
Mine == {s \in TaskSlots : taskId[s] # FREE /\ taskApp[s] = victim}

\* CFE_ES_CleanUpApp, first section: the records of the application and of its
\* tasks are reserved, so that nobody finds them.
CleanUpBegin ==
  /\ scan = "clean"
  /\ IF IsMatch(victim)
     THEN /\ regApps' = regApps - 1
          /\ taskList' = {taskId[s] : s \in Mine}
          /\ todo' = taskList'
          /\ taskId' = [s \in TaskSlots |-> IF s \in Mine THEN RESERVED ELSE taskId[s]]
          /\ regTasks' = regTasks - Cardinality(Mine)
          /\ appId' = [appId EXCEPT ![AppSlot(victim)] = RESERVED]
          /\ scan' = "tasks"
     ELSE /\ scan' = "process"
          /\ UNCHANGED <<regApps, taskList, todo, taskId, regTasks, appId>>
  /\ UNCHANGED <<appName, appState, request, timer, mainTask, lastApp, taskApp, osVars,
                 createVars, due, victim, snapshot, swept, asked>>

\* The turns of CFE_ES_CleanupTaskResources: the main task is the last.
Turn(t) == scan = "tasks" /\ t \in todo /\ (t = mainTask[AppSlot(victim)] => todo = {t})

\* It deletes the objects a task has created, among them other tasks.
DeleteOwned(t, u) ==
  /\ Turn(t) /\ swept = FREE
  /\ Alive(u) /\ creator[u] = t
  /\ phase' = [phase EXCEPT ![u] = "gone"]
  /\ UNCHANGED <<tableVars, recordVars, lastTask, born, creator, createVars, scanVars, asked>>

\* It finds no more of them.
Swept(t) ==
  /\ Turn(t) /\ swept = FREE
  /\ \A u \in TaskIds : creator[u] = t => ~Alive(u)
  /\ swept' = t
  /\ UNCHANGED <<tableVars, recordVars, osVars, createVars, scan, due, victim, snapshot,
                 taskList, todo, asked>>

\* It deletes the task, if it has not ended by itself; what the task was
\* creating is not finished.
DeleteTask(t) ==
  /\ swept = t /\ Turn(t)
  /\ swept' = FREE /\ todo' = todo \ {t}
  /\ phase' = [phase EXCEPT ![t] = "gone"]
  /\ step' = [step EXCEPT ![t] = "idle"]
  /\ newApp' = [newApp EXCEPT ![t] = FREE]
  /\ newTask' = [newTask EXCEPT ![t] = FREE]
  /\ UNCHANGED <<tableVars, recordVars, lastTask, born, creator, scan, due, victim, snapshot,
                 taskList, asked>>

\* Mutant of FreeRecords: a record is freed whatever has become of it.
FreeRecordsAll ==
  [s \in TaskSlots |-> IF \E t \in taskList : TaskSlot(t) = s THEN FREE ELSE taskId[s]]

\* The records of the deleted tasks are free again, unless a new task that was
\* given the OSAL slot has taken the record over.
FreeRecords ==
  [s \in TaskSlots |-> IF taskId[s] = RESERVED /\ \E t \in taskList : TaskSlot(t) = s
                       THEN FREE ELSE taskId[s]]

\* The last section: the slot of the application is free.
CleanUpEnd ==
  /\ scan = "tasks" /\ todo = {}
  /\ taskId' = FreeRecords
  /\ taskList' = {}
  /\ appId' = [appId EXCEPT ![AppSlot(victim)] = FREE]
  /\ scan' = IF snapshot.req = "restart" THEN "restart" ELSE "process"
  /\ UNCHANGED <<appName, appState, request, timer, mainTask, lastApp, regApps, taskApp,
                 regTasks, osVars, createVars, due, victim, snapshot, todo, swept, asked>>

\* The application is created again, under its name, or that fails.
Restart ==
  /\ scan = "restart"
  /\ \/ Reserve(Background, snapshot.name) /\ scan' = "creating"
     \/ /\ Taken(snapshot.name) \/ FreeApps \cap AppIds = {}
        /\ scan' = "process"
        /\ UNCHANGED <<tableVars, recordVars, osVars, createVars, asked>>
  /\ UNCHANGED <<due, victim, snapshot, taskList, todo, swept>>

-----------------------------------------------------------------------------

Create(c) == LoadModule(c) \/ TaskCreate(c) \/ TaskRecord(c) \/ AppCreateEnd(c)

Task(t) ==
  \/ RunLoop(t) \/ ExitApp(t) \/ EntryReturns(t) \/ CreateChildTask(t) \/ ExitChildTask(t)
  \/ \E u \in TaskIds : DeleteChildTask(t, u)

Wake(t) == GetTaskFunction(t) \/ GiveUp(t) \/ TaskExit(t)

CleanUp ==
  \/ \E a \in due : ProcessControlRequest(a)
  \/ \E t \in todo : Swept(t) \/ DeleteTask(t) \/ (\E u \in TaskIds : DeleteOwned(t, u))
  \/ ProcessDone \/ CleanUpBegin \/ CleanUpEnd \/ Restart

Next ==
  \/ \E c \in Starters, n \in Names : AppCreate(c, n)
  \/ \E c \in Parents : Create(c)
  \/ \E t \in TaskIds : Task(t) \/ Wake(t)
  \/ \E a \in AppIds, req \in Requests : ControlRequest(a, req)
  \/ Scan \/ CleanUp

Spec == Init /\ [][Next]_vars

\* The background task runs: it scans, cleans up, and creates what it restarts.
Fairness == WF_vars(Scan \/ CleanUp \/ Create(Background))
FairSpec == Spec /\ Fairness

-----------------------------------------------------------------------------
(* Properties.                                                             *)

\* Every variable has its type.
TypeOK ==
  /\ appId \in [AppSlots -> AppIds \cup {FREE, RESERVED}]
  /\ appName \in [AppSlots -> Names \cup {NoName}]
  /\ appState \in [AppSlots -> {"init", "running", "waiting", "stopped"}]
  /\ request \in [AppSlots -> Requests]
  /\ timer \in [AppSlots -> 0 .. KillTime]
  /\ mainTask \in [AppSlots -> TaskIds \cup {FREE}]
  /\ lastApp \in 0 .. LastApp /\ lastTask \in 0 .. LastTask
  /\ regApps \in Nat /\ regTasks \in Nat
  /\ taskId \in [TaskSlots -> TaskIds \cup {FREE, RESERVED}]
  /\ taskApp \in [TaskSlots -> AppIds \cup {FREE}]
  /\ phase \in [TaskIds -> {"none", "poll", "run", "stopped", "leaving", "gone"}]
  /\ born \in [TaskIds -> AppIds \cup {FREE}]
  /\ creator \in [TaskIds -> Parents \cup {FREE}]
  /\ step \in [Parents -> {"idle", "load", "start", "record", "finish", "abort"}]
  /\ newApp \in [Parents -> AppIds \cup {FREE}]
  /\ newTask \in [Parents -> TaskIds \cup {FREE}]
  /\ scan \in {"idle", "process", "clean", "tasks", "restart", "creating"}
  /\ due \subseteq AppIds /\ victim \in AppIds \cup {FREE}
  /\ snapshot \in [req : Requests, name : Names \cup {NoName}]
  /\ todo \subseteq taskList /\ taskList \subseteq TaskIds /\ swept \in todo \cup {FREE}
  /\ asked \in [AppIds -> Requests]

\* A slot of the application table is reserved exactly while one task creates
\* the application in it or the background task deletes it: no failure, and no
\* meeting of the two, loses it or gives it away twice.
AtWork(s) ==
    Cardinality({c \in Creators : step[c] # "idle" /\ AppSlot(newApp[c]) = s})
  + IF scan = "tasks" /\ AppSlot(victim) = s THEN 1 ELSE 0
SlotsOwned ==
  \A s \in AppSlots : AtWork(s) = IF appId[s] = RESERVED THEN 1 ELSE 0

\* CFE_ES_LocateAppRecordByName: an application keeps its name from the moment
\* it is being made until nothing is left of it; two never have one name.
NamesUnique ==
  \A r, s \in AppSlots : appId[r] # FREE /\ appId[s] # FREE /\ appName[r] = appName[s] => r = s

\* The records of applications are neither lost nor shared, and lead to one name.
RecordsSound == SlotsOwned /\ NamesUnique

\* The record of a task that is no more, and whose application is no more.
Stray(s) == \E u \in TaskIds : taskId[s] = u /\ phase[u] = "gone" /\ ~IsMatch(born[u])

\* The OSAL gives the slot of a deleted task to a new one while clean-up still
\* has the record reserved: a task of a living application always finds its
\* record, and through it the application it was created for.  Nothing takes the
\* record away but the last call of a task that is being deleted: clean-up has
\* deleted the child it was creating, and it writes the record of that child.
ContextKept ==
  \A t \in TaskIds : phase[t] \in {"run", "stopped"} /\ IsMatch(born[t]) =>
    \/ HasRecord(t) /\ ContextOf(t) = born[t]
    \/ Stray(TaskSlot(t))

\* RegisteredExternalApps counts the applications.  RegisteredTasks counts every
\* task record in use; a record that a new task takes from one that ended
\* without giving it back may be counted twice, but none is ever forgotten.
CountsCover ==
  /\ regApps = Cardinality({s \in AppSlots : appId[s] \in AppIds})
  /\ regTasks >= Cardinality({s \in TaskSlots : taskId[s] \in TaskIds})

\* The task table tells the truth about the tasks there are: of whom each one is, and
\* how many.
TasksKnown == ContextKept /\ CountsCover

\* An application is restarted, or not, as the last request said that was
\* accepted, though it may have exited by itself in the meantime and clean-up
\* works on a copy of the request.
LastRequestWins ==
  scan \in {"clean", "tasks", "restart", "creating"} =>
    snapshot.req = IF asked[victim] = "run" THEN "exit" ELSE asked[victim]

\* A request that was accepted, and an exit, is carried out whatever the
\* application does: none is pending for ever, and as it is never withdrawn, the
\* ID it was made for is valid no more.
Pending(a) == IsMatch(a) /\ appState[AppSlot(a)] # "init" /\ request[AppSlot(a)] # "run"
RequestsEnd == \A a \in AppIds : []<>~Pending(a)

\* "Clean up all app resources and delete it" (CFE_ES_CleanUpApp): when the
\* application is gone no task record says that it is of that application.
NothingLeft ==
  \A s \in TaskSlots : taskId[s] \in TaskIds =>
    IsMatch(taskApp[s]) \/ appId[AppSlot(taskApp[s])] = RESERVED

\* What CFE_ES_StartAppTask takes for granted when it clears the record of "a
\* newly-created task": that no other task has it, so that a task of a living
\* application finds its application without the exception of ContextKept.
ContextFound ==
  \A t \in TaskIds : phase[t] \in {"run", "stopped"} /\ IsMatch(born[t]) =>
    HasRecord(t) /\ ContextOf(t) = born[t]

\* "The app startup will delay until the app creation is completed and verified"
\* (CFE_ES_TaskEntryPoint): a task that enters its entry function has a context.
EntryHasContext ==
  [][\A t \in TaskIds : phase[t] = "poll" /\ phase'[t] = "run" => HasContext(t)]_vars
=============================================================================
