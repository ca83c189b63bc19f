-------------------------------- MODULE EVS --------------------------------
(***************************************************************************)
(* Event Services: the path of an event from the call to the local log,    *)
(* through the switches of its application, the binary filter of its ID and *)
(* the squelch that cuts off an application that floods; the commands of    *)
(* the ground; and resets.  Only the squelch and the log are under the      *)
(* mutex of EVS.  The entry of an application is read and written without   *)
(* it, by the application's tasks and by the task of EVS.  One action is    *)
(* one section under the mutex, or one stretch without it that ends where   *)
(* another task may make a difference.                                      *)
(* After the log an event is printed and sent over the bus, and counted;    *)
(* neither is modelled.                                                     *)
(***************************************************************************)
EXTENDS EVSLog

CONSTANTS
  Apps, Tasks,
  Evs, EvsTask,     \* the application and the task of EVS
  AppOf,            \* the application of a task
  SendsFor,         \* the applications for which it sends: its own, or that of a caller
  Mains,            \* the tasks that register their application and reset its filters
  Own,              \* any event of EVS itself
  TypeOf,           \* the type of each event
  MaxFilters,       \* CFE_PLATFORM_EVS_MAX_EVENT_FILTERS
  Masks,            \* the filter masks that are used,
  Switched,         \*   and the event types that the ground enables and disables
  CountBits,        \* the width of a filter's count,
  MaxCount,         \*   and CFE_EVS_MAX_FILTER_COUNT, the highest that fits
  Burst, Rate,      \* CFE_PLATFORM_EVS_MAX_APP_EVENT_BURST, and _EVENTS_PER_SEC
  Cost,             \* EVENT_COST: the milliseconds in a second
  MaxElapsed,       \* bound on the time that is told apart: enough to pay any debt
  MaxCalls,         \* bound on registrations, clean-ups and commands,
  MaxResets,        \*   and on resets
  AnyMoment,        \* whether a reset may come in the middle of a change of the log
  FreeSlot          \* CFE_EVS_FREE_SLOT

Types    == {"DEBUG", "INFORMATION", "ERROR"}
Slots    == 1 .. MaxFilters
Upper    == Burst * Cost           \* UPPER_THRESHOLD; LOWER_THRESHOLD is -Upper

ASSUME EVSAssumption ==
  /\ Evs \in Apps /\ EvsTask \in Tasks /\ Own \in Events /\ FreeSlot \notin Events \cup {NoEvent}
  /\ AppOf \in [Tasks -> Apps] /\ AppOf[EvsTask] = Evs /\ Mains \subseteq Tasks \ {EvsTask}
  /\ SendsFor \in [Tasks -> SUBSET (Apps \ {Evs})] /\ TypeOf \in [Events -> Types]
  /\ {MaxFilters, CountBits, MaxCount, Cost, Rate} \subseteq Nat \ {0}
  /\ MaxCount = 2 ^ CountBits - 1 /\ Masks \subseteq 0 .. MaxCount
  /\ Switched \subseteq Types
  /\ {Burst, MaxElapsed, MaxCalls, MaxResets} \subseteq Nat /\ Rate * MaxElapsed >= 2 * Upper
  /\ AnyMoment \in BOOLEAN

VARIABLES
  data,     \* AppData: the entry of each application
  log,      \* the log, in the reset area
  step,     \* where each task is in its call,
  call,     \*   and what it keeps meanwhile
  calls, resets,
  meter,    \* history: what each application may send, by the documented rate,
  muted,    \*   whether its last event was squelched,
  told      \*   and the notices of that sent since one was not

history == <<meter, muted, told>>
vars    == <<data, log, step, call, calls, resets, meter, muted, told>>

-----------------------------------------------------------------------------
(* Entries and filters *)

Least(S)   == CHOOSE s \in S : \A r \in S : s <= r
\* EVS_FindEventID: the slots with this ID; the code takes the first.
SlotsOf(entry, id) == {s \in Slots : entry.filters[s].id = id}
\* The binary filter: whether mask and count have a bit in common.
Hides(mask, count) == \E i \in 0 .. CountBits - 1 : (mask \div 2^i) % 2 = 1 /\ (count \div 2^i) % 2 = 1

Zeroed == [reg |-> FALSE, unreg |-> FALSE, active |-> FALSE, types |-> {}, tokens |-> 0,
           elapsed |-> MaxElapsed,
           filters |-> [s \in Slots |-> [id |-> NoEvent, mask |-> 0, count |-> 0]]]
Unused == [id |-> FreeSlot, mask |-> 0, count |-> 0]
\* CFE_PLATFORM_EVS_DEFAULT_TYPE_FLAG leaves DEBUG out.
Registered(entry, filters) ==
  [entry EXCEPT !.reg = TRUE, !.active = TRUE, !.types = @ \cup (Types \ {"DEBUG"}),
                !.tokens = Upper, !.filters = filters]
NoFilters == [s \in Slots |-> Unused]
\* What an application registers with: no filter, or one.
GivenFilters ==
  {NoFilters} \cup {[NoFilters EXCEPT ![1] = [id |-> e, mask |-> m, count |-> 0]] :
                     e \in Events \ {Own}, m \in Masks}

NoCall == [app |-> Evs, event |-> Own, slot |-> 1, count |-> 0, type |-> "DEBUG", next |-> "idle"]
\* A task goes on to a step, with what it needs there; a call that returns keeps nothing.
GoTo(t, s, c) ==
  /\ step' = [step EXCEPT ![t] = s]
  /\ call' = [call EXCEPT ![t] = IF s = "idle" THEN NoCall ELSE c]
\* EVS sends an event of its own from within a call, which then goes on.
Notify(t, type, next) ==
  GoTo(t, "notice", [call[t] EXCEPT !.slot = 1, !.count = 0, !.type = type, !.next = next])

\* The most that an application may have in store: the balance, and what is not credited yet.
Most == Upper + 2 * (Cost - 1)
\* Both halves of a registration give the application a new account.
NewAccount(a) ==
  /\ meter' = [meter EXCEPT ![a] = Most] /\ muted' = [muted EXCEPT ![a] = FALSE]
  /\ told' = [told EXCEPT ![a] = 0]

-----------------------------------------------------------------------------
(* Start and reset: EarlyInit restores the log, TaskInit registers EVS and announces it. *)

Boot ==
  /\ data' = [a \in Apps |-> IF a = Evs THEN Registered(Zeroed, NoFilters) ELSE Zeroed]
  /\ step' = [t \in Tasks |-> IF t = EvsTask THEN "notice" ELSE "idle"]
  /\ call' = [t \in Tasks |-> IF t = EvsTask THEN [NoCall EXCEPT !.type = "INFORMATION"] ELSE NoCall]
  /\ meter' = [a \in Apps |-> Most] /\ muted' = [a \in Apps |-> FALSE] /\ told' = [a \in Apps |-> 0]

Init ==
  /\ data = [a \in Apps |-> IF a = Evs THEN Registered(Zeroed, NoFilters) ELSE Zeroed]
  /\ step = [t \in Tasks |-> IF t = EvsTask THEN "notice" ELSE "idle"]
  /\ call = [t \in Tasks |-> IF t = EvsTask THEN [NoCall EXCEPT !.type = "INFORMATION"] ELSE NoCall]
  /\ meter = [a \in Apps |-> Most] /\ muted = [a \in Apps |-> FALSE] /\ told = [a \in Apps |-> 0]
  /\ log = EmptyLog(DefaultMode) /\ calls = 0 /\ resets = 0

Reset == resets < MaxResets /\ resets' = resets + 1 /\ Boot /\ UNCHANGED calls
\* What a reset leaves of the log that comes while a task is in the middle of AddLog.
Torn == UNION {PartsOfAdd(log, call[t].event) : t \in {u \in Tasks : step[u] = "log"}}
ProcessorReset ==
  Reset /\ \E left \in {log} \cup (IF AnyMoment THEN Torn ELSE {}) : log' = Restored(left)
PowerOnReset == Reset /\ log' = EmptyLog(DefaultMode)

\* A millisecond passes.
Tick ==
  /\ data' = [a \in Apps |-> [data[a] EXCEPT !.elapsed = IF @ < MaxElapsed THEN @ + 1 ELSE @]]
  /\ meter' = [a \in Apps |-> IF meter[a] + Rate < Most THEN meter[a] + Rate ELSE Most]
  /\ UNCHANGED <<log, step, call, calls, resets, muted, told>>

-----------------------------------------------------------------------------
(* CFE_EVS_Register and CFE_EVS_CleanUpApp *)

\* The entry is cleared before the arguments are looked at.
RegisterBegin(t) ==
  /\ step[t] = "idle" /\ t \in Mains /\ calls < MaxCalls /\ calls' = calls + 1
  /\ data' = [data EXCEPT ![AppOf[t]] = Zeroed]
  /\ GoTo(t, "register", NoCall) /\ NewAccount(AppOf[t]) /\ UNCHANGED <<log, resets>>
RegisterEnd(t) ==
  /\ step[t] = "register" /\ GoTo(t, "idle", NoCall)
  /\ \E filters \in GivenFilters : data' = [data EXCEPT ![AppOf[t]] = Registered(@, filters)]
  /\ NewAccount(AppOf[t]) /\ UNCHANGED <<log, calls, resets>>
RegisterRefused(t) ==
  /\ step[t] = "register" /\ GoTo(t, "idle", NoCall)
  /\ UNCHANGED <<data, log, calls, resets, meter, muted, told>>
CleanUpApp(a) ==
  /\ a # Evs /\ data[a].reg /\ calls < MaxCalls /\ calls' = calls + 1
  /\ data' = [data EXCEPT ![a].reg = FALSE]
  /\ UNCHANGED <<log, step, call, resets, meter, muted, told>>

-----------------------------------------------------------------------------
(* CFE_EVS_SendEvent, CFE_EVS_SendTimedEvent and CFE_EVS_SendEventWithAppID *)

\* EVS_NotRegistered tells of an application once.
SendNotRegistered(t, a) ==
  /\ step[t] = "idle" /\ a \in SendsFor[t] /\ ~data[a].reg /\ ~data[a].unreg
  /\ data' = [data EXCEPT ![a].unreg = TRUE] /\ Notify(t, "ERROR", "idle")
  /\ UNCHANGED <<log, calls, resets, meter, muted, told>>

\* EVS_IsFiltered asks CFE_EVS_GetTypeEnable, which looks at the entry of the caller.
Generates(t, a, type) == data[a].active /\ type \in data[AppOf[t]].types

\* EVS_IsFiltered, up to the count; an event that is not generated, or that its filter
\* hides when the count is locked, changes nothing.
SendEvent(t, a, e) ==
  /\ step[t] = "idle" /\ a \in SendsFor[t] /\ e # Own
  /\ data[a].reg /\ Generates(t, a, TypeOf[e])
  /\ LET found == SlotsOf(data[a], e)
         f     == data[a].filters[Least(found)]
         next  == IF found # {} /\ Hides(f.mask, f.count) THEN "idle" ELSE "squelch"
     IN  IF found # {} /\ f.count < MaxCount
           THEN GoTo(t, "count", [NoCall EXCEPT !.app = a, !.event = e, !.slot = Least(found),
                                                 !.count = f.count, !.next = next])
           ELSE next = "squelch" /\ GoTo(t, "squelch", [NoCall EXCEPT !.app = a, !.event = e])
  /\ UNCHANGED <<data, log, calls, resets, meter, muted, told>>

\* The count is raised without a lock, from the value that was tested or the one that is
\* there now, in whatever filter the slot has by now.
CountUp(t, old) ==
  LET c == call[t]
      new == (old + 1) % (MaxCount + 1)
  IN  /\ data' = [data EXCEPT ![c.app].filters[c.slot].count = new]
      /\ IF new = MaxCount THEN Notify(t, "INFORMATION", c.next)
         ELSE GoTo(t, c.next, [NoCall EXCEPT !.app = c.app, !.event = c.event])
Count(t) ==
  /\ step[t] = "count"
  /\ \E old \in {call[t].count, data[call[t].app].filters[call[t].slot].count} : CountUp(t, old)
  /\ UNCHANGED <<log, calls, resets, meter, muted, told>>

-----------------------------------------------------------------------------
(* EVS_CheckAndIncrementSquelchTokens, under the mutex *)

Credit(entry)   == Rate * entry.elapsed
\* Mutant of Credited: any credit is given at once.
CreditedAtOnce(entry) == Credit(entry) > 0
\* Less than the cost of an event is left until it is more.
Credited(entry) == Credit(entry) >= Cost
Balance(entry)  ==
  IF ~Credited(entry) THEN entry.tokens
  ELSE IF entry.tokens + Credit(entry) > Upper THEN Upper ELSE entry.tokens + Credit(entry)
Passes(entry) == Burst = 0 \/ Balance(entry) > 0
\* The event that tells of it is sent in a range of the balance as wide as one event.
Tells(entry)  == ~Passes(entry) /\ Balance(entry) > -Cost /\ ~Credited(entry)
AfterEvent(entry)  == IF Balance(entry) - Cost < -Upper THEN -Upper ELSE Balance(entry) - Cost
\* Mutant of Charged: the debt has no limit.
ChargedUnbounded(entry) ==
  IF Burst = 0 THEN entry
  ELSE [entry EXCEPT !.tokens = Balance(entry) - Cost, !.elapsed = IF Credited(entry) THEN 0 ELSE @]
\* Mutant of Charged: the time that was credited is credited again.
ChargedTimeless(entry) == IF Burst = 0 THEN entry ELSE [entry EXCEPT !.tokens = AfterEvent(entry)]
Charged(entry) ==
  IF Burst = 0 THEN entry
  ELSE [entry EXCEPT !.tokens = AfterEvent(entry), !.elapsed = IF Credited(entry) THEN 0 ELSE @]

Squelch(t) ==
  /\ step[t] = "squelch"
  /\ LET a == call[t].app
         entry == data[a]
     IN  /\ data' = [data EXCEPT ![a] = Charged(entry)]
         /\ IF Passes(entry)
              THEN GoTo(t, "log", [NoCall EXCEPT !.event = call[t].event])
              ELSE IF Tells(entry) THEN Notify(t, "ERROR", "idle") ELSE GoTo(t, "idle", NoCall)
         /\ meter' = [meter EXCEPT ![a] = IF Passes(entry) THEN @ - Cost ELSE @]
         /\ muted' = [muted EXCEPT ![a] = ~Passes(entry)]
         /\ told'  = [told EXCEPT ![a] = IF Passes(entry) THEN 0 ELSE IF Tells(entry) THEN @ + 1 ELSE @]
  /\ UNCHANGED <<log, calls, resets>>

-----------------------------------------------------------------------------
(* EVS_GenerateEventTelemetry, as far as the log, and EVS_SendEvent, which is not squelched *)

LogEvent(t) ==
  /\ step[t] = "log" /\ log' = AddLog(log, call[t].event) /\ GoTo(t, "idle", NoCall)
  /\ UNCHANGED <<data, calls, resets, meter, muted, told>>
\* One read, and the section that adds to the log, are one action here.
SendOwn(t) ==
  /\ step[t] = "notice"
  /\ log' = IF Generates(t, Evs, call[t].type) THEN AddLog(log, Own) ELSE log
  /\ GoTo(t, call[t].next, [call[t] EXCEPT !.type = "DEBUG"])
  /\ UNCHANGED <<data, calls, resets, meter, muted, told>>

-----------------------------------------------------------------------------
(* The application resets its filters: CFE_EVS_ResetFilter, CFE_EVS_ResetAllFilters *)

CountsZeroed(entry, slots) ==
  [entry EXCEPT !.filters = [s \in Slots |-> IF s \in slots THEN [@[s] EXCEPT !.count = 0] ELSE @[s]]]
ResetFilters(t, slots) ==
  LET a == AppOf[t] IN
  /\ step[t] = "idle" /\ t \in Mains /\ data[a].reg /\ calls < MaxCalls /\ calls' = calls + 1
  /\ data' = [data EXCEPT ![a] = CountsZeroed(@, slots)]
  /\ UNCHANGED <<log, step, call, resets, meter, muted, told>>
ResetFilter(t, e)  == SlotsOf(data[AppOf[t]], e) # {} /\ ResetFilters(t, {Least(SlotsOf(data[AppOf[t]], e))})
ResetAllFilters(t) == ResetFilters(t, Slots)

-----------------------------------------------------------------------------
(* Commands of the ground, in the task of EVS *)

Commanded == step[EvsTask] = "idle" /\ calls < MaxCalls /\ calls' = calls + 1

\* EVS_GetApplicationInfo; the entry is used afterwards, whoever has it then.
GetApplicationInfo(a) ==
  /\ Commanded
  /\ IF data[a].reg
       THEN GoTo(EvsTask, "found", [NoCall EXCEPT !.app = a])
       ELSE Notify(EvsTask, "ERROR", "idle")
  /\ UNCHANGED <<data, log, resets, meter, muted, told>>
\* What a command makes of the entry it found, and the event that tells of it.
Apply(entry, type) ==
  /\ data' = [data EXCEPT ![call[EvsTask].app] = entry] /\ Notify(EvsTask, type, "idle")
  /\ UNCHANGED <<log, calls, resets, meter, muted, told>>
Found(a) == step[EvsTask] = "found" /\ call[EvsTask].app = a

SetAppEvents(a, on) == Found(a) /\ Apply([data[a] EXCEPT !.active = on], "DEBUG")
SetAppEventType(a, type, on) ==
  Found(a) /\ Apply([data[a] EXCEPT !.types = IF on THEN @ \cup {type} ELSE @ \ {type}], "DEBUG")
ResetAllFiltersCmd(a) == Found(a) /\ Apply(CountsZeroed(data[a], Slots), "DEBUG")
\* The commands on one filter, which must be there.
OnFilter(a, e, f) ==
  LET found == SlotsOf(data[a], e) IN
  IF found = {} THEN Apply(data[a], "ERROR")
  ELSE Apply([data[a] EXCEPT !.filters[Least(found)] = f], "DEBUG")
FilterOf(a, e) == data[a].filters[Least(SlotsOf(data[a], e))]
SetFilter(a, e, m)      == Found(a) /\ OnFilter(a, e, [FilterOf(a, e) EXCEPT !.mask = m])
ResetFilterCmd(a, e)    == Found(a) /\ OnFilter(a, e, [FilterOf(a, e) EXCEPT !.count = 0])
DeleteEventFilter(a, e) == Found(a) /\ OnFilter(a, e, Unused)
AddEventFilter(a, e, m) ==
  /\ Found(a)
  /\ IF SlotsOf(data[a], e) # {} THEN Apply(data[a], "ERROR")
     ELSE OnFilter(a, FreeSlot, [id |-> e, mask |-> m, count |-> 0])

\* CFE_EVS_EnableEventTypeCmd and CFE_EVS_DisableEventTypeCmd
SetEventType(type, on) ==
  /\ Commanded /\ Notify(EvsTask, "DEBUG", "idle")
  /\ data' = [a \in Apps |-> IF ~data[a].reg THEN data[a]
                             ELSE [data[a] EXCEPT !.types = IF on THEN @ \cup {type} ELSE @ \ {type}]]
  /\ UNCHANGED <<log, resets, meter, muted, told>>
ClearLogCmd ==
  /\ Commanded /\ log' = ClearLog(log)
  /\ UNCHANGED <<data, step, call, resets, meter, muted, told>>
SetLogMode(m) ==
  /\ Commanded /\ log' = [log EXCEPT !.LogMode = m] /\ Notify(EvsTask, "DEBUG", "idle")
  /\ UNCHANGED <<data, resets, meter, muted, told>>

\* The entries are written under the mutex; how many were is compared with the count of
\* the log after it has been released.  The file system may fail at any entry, or before.
WriteLogDataFile ==
  /\ Commanded
  /\ \/ \E written \in 0 .. log.LogCount :
          GoTo(EvsTask, "report", [NoCall EXCEPT !.count = written,
                                                  !.type = IF written = log.LogCount THEN "DEBUG" ELSE "ERROR"])
     \/ Notify(EvsTask, "ERROR", "idle")
  /\ UNCHANGED <<data, log, resets, meter, muted, told>>
ReportFile ==
  /\ step[EvsTask] = "report"
  /\ Notify(EvsTask, IF call[EvsTask].count = log.LogCount THEN "DEBUG" ELSE "ERROR", "idle")
  /\ UNCHANGED <<data, log, calls, resets, meter, muted, told>>

-----------------------------------------------------------------------------
Calls(t) ==
  \/ RegisterBegin(t) \/ RegisterEnd(t) \/ RegisterRefused(t)
  \/ \E a \in Apps : SendNotRegistered(t, a) \/ \E e \in Events : SendEvent(t, a, e)
  \/ Count(t) \/ Squelch(t) \/ LogEvent(t) \/ SendOwn(t)
  \/ (\E e \in Events : ResetFilter(t, e)) \/ ResetAllFilters(t)
\* Commands on the filters of EVS itself, of whose events one is told apart, are left out.
Commands(a) ==
  \/ GetApplicationInfo(a) \/ ResetAllFiltersCmd(a) \/ \E on \in BOOLEAN : SetAppEvents(a, on)
  \/ \E type \in Switched, on \in BOOLEAN : SetAppEventType(a, type, on)
  \/ /\ a # Evs
     /\ \E e \in Events \ {Own} :
          \/ ResetFilterCmd(a, e) \/ DeleteEventFilter(a, e)
          \/ \E m \in Masks : SetFilter(a, e, m) \/ AddEventFilter(a, e, m)
Ground ==
  \/ \E type \in Switched, on \in BOOLEAN : SetEventType(type, on)
  \/ ClearLogCmd \/ (\E m \in Modes : SetLogMode(m)) \/ WriteLogDataFile \/ ReportFile

Next ==
  \/ \E t \in Tasks : Calls(t)
  \/ \E a \in Apps : Commands(a) \/ CleanUpApp(a)
  \/ Ground \/ Tick \/ ProcessorReset \/ PowerOnReset
Spec == Init /\ [][Next]_vars

-----------------------------------------------------------------------------
(* Properties *)

Steps == {"idle", "register", "count", "squelch", "log", "notice", "found", "report"}
Filter  == [id : Events \cup {NoEvent, FreeSlot}, mask : 0 .. MaxCount, count : 0 .. MaxCount]
Filters == [Slots -> Filter]
Pending == [app : Apps, event : Events, slot : Slots, count : Nat, type : Types,
            next : {"idle", "squelch"}]
Entry == [reg : BOOLEAN, unreg : BOOLEAN, active : BOOLEAN, types : SUBSET Types,
          tokens : -Upper .. Upper, elapsed : 0 .. MaxElapsed, filters : Filters]

\* Every variable keeps the values that its type in the code, or its bound here, gives
\* it: the balance of tokens its two thresholds, the index of the log its range.
TypeOK ==
  /\ data \in [Apps -> Entry]
  /\ log \in Logs /\ log.Next < LogMax
  /\ step \in [Tasks -> Steps]
  /\ call \in [Tasks -> Pending]
  /\ calls \in 0 .. MaxCalls /\ resets \in 0 .. MaxResets
  /\ meter \in [Apps -> Int] /\ muted \in [Apps -> BOOLEAN] /\ told \in [Apps -> Nat]

\* In every stretch of time of L milliseconds an application gets at most as many events
\* past the squelch as a burst, the documented rate over L, and two more; and once it has
\* been silent for as long as the comment on LOWER_THRESHOLD says, its next event passes.
FloodBounded ==
  Burst > 0 => \A a \in Apps :
                 /\ meter[a] >= 0
                 /\ Credit(data[a]) >= Upper + Cost => Passes(data[a])

\* Each time events begin to be squelched EVS tells of it, once, with the first that is.
EpisodesTold == \A a \in Apps : told[a] = IF muted[a] THEN 1 ELSE 0

\* The log is what its specification says, whatever tasks write to it, the ground does
\* to it, and resets come between.
Abstract == INSTANCE EventLog WITH Capacity <- LogMax, kept <- Entries(log), mode <- log.LogMode
LogKeeps == Abstract!Spec

\* "Filtering will become locked until the filter is either reset or deleted": counting
\* never takes a locked filter back to its start.
LockedUntilReset ==
  [][\A t \in Tasks : Count(t) =>
       \A a \in Apps, s \in Slots : data[a].filters[s].count = MaxCount => data'[a].filters[s].count = MaxCount]_vars
\* An event of a type that the ground has disabled for an application is not generated for it.
TypesObeyed ==
  [][\A t \in Tasks, a \in Apps, e \in Events : SendEvent(t, a, e) => TypeOf[e] \in data[a].types]_vars
\* An error in writing the log to a file is reported only if there was one.
ReportTrue == [][ReportFile /\ call[EvsTask].type = "DEBUG" => call'[EvsTask].type = "DEBUG"]_vars
\* "Discard mode will guarantee the contents of the event log are preserved over a
\* processor restart": as long as it is in force, and the log is not cleared, events
\* that are in the log stay.
DiscardKeeps ==
  [][/\ log.LogMode = Discard /\ log'.LogMode = Discard /\ ~ClearLogCmd /\ ~PowerOnReset
     => /\ log'.LogCount >= log.LogCount
        /\ \A i \in 1 .. log.LogCount : Entries(log')[i] = Entries(log)[i]]_vars
=============================================================================
