------------------------------ MODULE EVSProofs ------------------------------
(***************************************************************************)
(* Proofs about Event Services: the squelch, for any numbers of            *)
(* applications, tasks and filters, any burst, rate and cost of an event;   *)
(* and the log, for any capacity.                                          *)
(***************************************************************************)
EXTENDS EVS, SequenceTheorems, WellFoundedInduction, TLAPS

-----------------------------------------------------------------------------
(* Constants and arithmetic                                                *)

LEMMA Constants ==
  /\ MaxFilters \in Nat \ {0} /\ MaxCount \in Nat \ {0} /\ Cost \in Nat \ {0} /\ Rate \in Nat \ {0}
  /\ Burst \in Nat /\ MaxElapsed \in Nat /\ MaxCalls \in Nat /\ MaxResets \in Nat
  /\ LogMax \in Nat \ {0} /\ DefaultMode \in Modes
  /\ Evs \in Apps /\ EvsTask \in Tasks /\ Own \in Events /\ AppOf \in [Tasks -> Apps]
  /\ SendsFor \in [Tasks -> SUBSET Apps] /\ Masks \subseteq 0 .. MaxCount /\ Switched \subseteq Types
BY EVSAssumption, EVSLogAssumption DEF Modes

\* The product of two naturals is one, and an event costs no more than a burst.
LEMMA Products ==
  /\ Upper \in Nat /\ (Burst > 0 => Upper >= Cost)
  /\ \A n \in Nat : Rate * n \in Nat /\ Rate * (n + 1) = Rate * n + Rate
<1>1. ASSUME NEW m \in Nat, NEW n \in Nat
      PROVE  m * n \in Nat /\ m * (n + 1) = m * n + m
  BY <1>1
<1>2. Upper \in Nat
  BY <1>1, Constants DEF Upper
<1>3. ASSUME Burst > 0
      PROVE  Upper >= Cost
  <2>1. Burst - 1 \in Nat /\ Burst = (Burst - 1) + 1
    BY <1>3, Constants
  <2>2. Cost * ((Burst - 1) + 1) = Cost * (Burst - 1) + Cost /\ Cost * (Burst - 1) \in Nat
    BY <1>1, <2>1, Constants
  <2>3. Burst * Cost = Cost * ((Burst - 1) + 1)
    BY <2>1, Constants
  <2> QED
    BY <2>2, <2>3, Constants DEF Upper
<1> QED
  BY <1>1, <1>2, <1>3, Constants

\* Time that is not told apart pays any debt.
LEMMA LongEnough == Rate * MaxElapsed >= 2 * Upper
BY EVSAssumption

\* The first of the slots with an ID is one of them.
LEMMA LeastOf ==
  ASSUME NEW S \in SUBSET Slots, S # {}
  PROVE  Least(S) \in S
<1>1. S \subseteq Nat
  BY Constants DEF Slots
<1>2. PICK x \in S : \A y \in S : <<y, x>> \notin OpToRel(<, Nat)
  BY <1>1, WFMin, NatLessThanWellFounded
<1>3. \A y \in S : ~(y < x)
  BY <1>1, <1>2, Zenon DEF OpToRel
<1>4. \A y \in S : x <= y
  BY <1>1, <1>3
<1> QED
  BY <1>4 DEF Least

-----------------------------------------------------------------------------
(* Types of the parts of an entry                                          *)

LEMMA TimeIsPaid ==
  ASSUME NEW e \in Entry
  PROVE  Credit(e) \in Nat
BY Products, Constants DEF Credit, Entry

LEMMA EntryParts ==
  /\ NoFilters \in Filters /\ Zeroed \in Entry /\ Unused \in Filter
  /\ \A e \in Entry, f \in Filters : Registered(e, f) \in Entry
<1>1. Unused \in Filter
  BY Constants DEF Unused, Filter
<1>2. NoFilters \in Filters
  BY <1>1 DEF NoFilters, Filters
<1>3. [s \in Slots |-> [id |-> NoEvent, mask |-> 0, count |-> 0]] \in Filters
  BY Constants DEF Filters, Filter
<1>4. 0 \in -Upper .. Upper /\ MaxElapsed \in 0 .. MaxElapsed /\ Upper \in -Upper .. Upper
  BY Constants, Products
<1>5. Zeroed \in Entry
  BY <1>3, <1>4 DEF Zeroed, Entry
<1>6. ASSUME NEW e \in Entry, NEW f \in Filters
      PROVE  Registered(e, f) \in Entry
  BY <1>4 DEF Registered, Entry, Types
<1> QED
  BY <1>1, <1>2, <1>5, <1>6

\* A filter, and all the filters at once, may be replaced in an entry.
LEMMA FilterReplaced ==
  ASSUME NEW e \in Entry, NEW s \in Slots,
         NEW f \in Filter
  PROVE  [e EXCEPT !.filters[s] = f] \in Entry
<1>1. e.filters \in Filters
  BY DEF Entry
<1>2. [e.filters EXCEPT ![s] = f] \in Filters
  BY <1>1 DEF Filters
<1> QED
  BY <1>2 DEF Entry

LEMMA CountReplaced ==
  ASSUME NEW e \in Entry, NEW s \in Slots, NEW n \in 0 .. MaxCount
  PROVE  [e EXCEPT !.filters[s].count = n] \in Entry
<1>1. e.filters[s] \in Filter
  BY DEF Entry, Filters
<1>2. [e.filters[s] EXCEPT !.count = n] \in Filter
  BY <1>1 DEF Filter
<1>3. [e EXCEPT !.filters[s].count = n] = [e EXCEPT !.filters[s] = [e.filters[s] EXCEPT !.count = n]]
  BY DEF Entry, Filters
<1> QED
  BY <1>2, <1>3, FilterReplaced

LEMMA CountsReplaced ==
  ASSUME NEW e \in Entry, NEW S \in SUBSET Slots
  PROVE  CountsZeroed(e, S) \in Entry
<1>1. e.filters \in Filters
  BY DEF Entry
<1>2. [s \in Slots |-> IF s \in S THEN [e.filters[s] EXCEPT !.count = 0] ELSE e.filters[s]] \in Filters
  BY <1>1, Constants DEF Filters, Filter
<1> QED
  BY <1>2 DEF CountsZeroed, Entry

\* Time passing, and an event, leave an entry an entry.
LEMMA ChargedType ==
  ASSUME NEW e \in Entry
  PROVE  Charged(e) \in Entry
<1>1. Credit(e) \in Nat /\ e.tokens \in -Upper .. Upper /\ 0 \in 0 .. MaxElapsed
  BY TimeIsPaid, Constants DEF Entry
<1>2. AfterEvent(e) \in -Upper .. Upper
  BY <1>1, Constants, Products DEF AfterEvent, Balance, Credited
<1> QED
  BY <1>1, <1>2 DEF Charged, Entry

LEMMA NoCallType == NoCall \in Pending
BY Constants DEF NoCall, Pending, Slots, Types

\* A task that goes on has a step, and what it needs there.
LEMMA GoToType ==
  ASSUME TypeOK, NEW t \in Tasks, NEW s \in Steps, NEW c \in Pending, GoTo(t, s, c)
  PROVE  step' \in [Tasks -> Steps] /\ call' \in [Tasks -> Pending]
BY NoCallType DEF GoTo, TypeOK

LEMMA NotifyType ==
  ASSUME TypeOK, NEW t \in Tasks, NEW type \in Types, NEW next \in {"idle", "squelch"},
         Notify(t, type, next)
  PROVE  step' \in [Tasks -> Steps] /\ call' \in [Tasks -> Pending]
<1>1. call[t] \in Pending /\ 1 \in Slots
  BY Constants DEF TypeOK, Slots
<1>2. [call[t] EXCEPT !.slot = 1, !.count = 0, !.type = type, !.next = next] \in Pending
  BY <1>1 DEF Pending
<1> QED
  BY <1>2, GoToType DEF Notify, Steps

-----------------------------------------------------------------------------
(* Types of the log                                                        *)

LogOK(l) == l \in Logs /\ l.Next < LogMax

LEMMA EmptyLogType ==
  ASSUME NEW m \in Modes
  PROVE  LogOK(EmptyLog(m))
BY Constants DEF LogOK, EmptyLog, Logs

\* The log after each of the writes of EVS_AddLog.
LEMMA PartsType ==
  ASSUME NEW l, LogOK(l), NEW e \in Events
  PROVE  /\ Stored(l, e) \in Logs /\ Stored(l, e).Next = l.Next
         /\ Advanced(Stored(l, e)) \in Logs
         /\ LogOK(Wrapped(Advanced(Stored(l, e)))) /\ LogOK(Counted(Wrapped(Advanced(Stored(l, e)))))
<1> DEFINE s == Stored(l, e)
           n == Advanced(s)
           w == Wrapped(n)
<1> DEFINE Contents == [0 .. LogMax - 1 -> Events \cup {NoEvent}]
<1>1. l.LogEntry \in Contents /\ l.Next \in 0 .. LogMax - 1
  BY Constants DEF Logs, LogOK
<1>2. [l.LogEntry EXCEPT ![l.Next] = e] \in Contents
  BY <1>1
<1>3. s \in Logs /\ s.Next = l.Next
  BY <1>2 DEF Stored, Logs, LogOK
<1> HIDE DEF s
<1>4. n \in Logs
  <2>1. s.Next + 1 \in 0 .. LogMax
    BY <1>1, <1>3, Constants
  <2>2. n = [s EXCEPT !.Next = s.Next + 1]
    BY DEF Advanced
  <2> QED
    BY <1>3, <2>1, <2>2 DEF Logs
<1> HIDE DEF n
<1>5. LogOK(w)
  <2>1. CASE n.Next >= LogMax
    <3>1. w = [n EXCEPT !.Next = 0] /\ 0 \in 0 .. LogMax /\ 0 < LogMax
      BY <2>1, Constants DEF Wrapped
    <3> QED
      BY <1>4, <3>1 DEF Logs, LogOK
  <2>2. CASE ~(n.Next >= LogMax)
    <3>1. w = n /\ n.Next \in 0 .. LogMax
      BY <1>4, <2>2 DEF Wrapped, Logs
    <3> QED
      BY <1>4, <2>2, <3>1, Constants DEF LogOK
  <2> QED
    BY <2>1, <2>2
<1> HIDE DEF w
<1>6. LogOK(Counted(w))
  <2>1. w \in Logs /\ w.LogCount \in 0 .. LogMax /\ w.Next < LogMax
    BY <1>5 DEF Logs, LogOK
  <2>2. w.LogCount < LogMax => w.LogCount + 1 \in 0 .. LogMax
    BY <2>1, Constants
  <2> QED
    BY <2>1, <2>2 DEF Counted, Logs, LogOK
<1> QED
  BY <1>3, <1>4, <1>5, <1>6 DEF s, n, w

LEMMA AddLogType ==
  ASSUME NEW l, LogOK(l), NEW e \in Events
  PROVE  LogOK(AddLog(l, e))
<1> DEFINE w == Wrapped(Advanced(Stored(l, e)))
<1>1. LogOK(Counted(w))
  BY PartsType
<1>2. LogOK(Flagged(w, Counted(w)))
  BY <1>1 DEF Flagged, LogOK, Logs
<1> QED
  BY <1>2 DEF AddLog

LEMMA RestoredType ==
  ASSUME NEW l \in Logs
  PROVE  LogOK(Restored(l))
BY EmptyLogType, Constants DEF Restored, Believable, LogOK

\* What a reset finds, at any moment, is a log, and one that is in range is restored.
LEMMA TornType ==
  ASSUME TypeOK, NEW l \in {log} \cup Torn
  PROVE  l \in Logs
<1>1. log \in Logs /\ LogOK(log)
  BY DEF TypeOK, LogOK
<1>2. ASSUME NEW t \in Tasks, l \in PartsOfAdd(log, call[t].event)
      PROVE  l \in Logs
  <2>1. call[t].event \in Events
    BY DEF TypeOK, Pending
  <2> QED
    BY <1>1, <1>2, <2>1, PartsType DEF PartsOfAdd, LogOK
<1> QED
  BY <1>1, <1>2 DEF Torn

-----------------------------------------------------------------------------
(* Steps that leave the accounts of the applications alone                 *)

Steady ==
  /\ UNCHANGED <<meter, muted, told>>
  /\ \A a \in Apps : data'[a].tokens = data[a].tokens /\ data'[a].elapsed = data[a].elapsed

LEMMA OneEntry ==
  ASSUME TypeOK, NEW a \in Apps, NEW x \in Entry, data' = [data EXCEPT ![a] = x]
  PROVE  /\ data' \in [Apps -> Entry] /\ data'[a] = x
         /\ \A b \in Apps : b # a => data'[b] = data[b]
BY DEF TypeOK

LEMMA SteadyEntry ==
  ASSUME TypeOK, NEW a \in Apps, NEW x \in Entry, data' = [data EXCEPT ![a] = x],
         x.tokens = data[a].tokens, x.elapsed = data[a].elapsed, UNCHANGED <<meter, muted, told>>
  PROVE  data' \in [Apps -> Entry] /\ Steady
BY OneEntry DEF Steady

LEMMA SendNotRegisteredSteady ==
  ASSUME TypeOK, NEW t \in Tasks, NEW a \in Apps, SendNotRegistered(t, a)
  PROVE  TypeOK' /\ Steady
<1>1. data[a] \in Entry
  BY DEF TypeOK
<1>2. [data[a] EXCEPT !.unreg = TRUE] \in Entry
  BY <1>1 DEF Entry
<1>3. data' = [data EXCEPT ![a] = [data[a] EXCEPT !.unreg = TRUE]]
  BY DEF SendNotRegistered, TypeOK
<1>4. data' \in [Apps -> Entry] /\ Steady
  BY <1>1, <1>2, <1>3, SteadyEntry DEF SendNotRegistered, Entry
<1>5. step' \in [Tasks -> Steps] /\ call' \in [Tasks -> Pending]
  BY NotifyType DEF SendNotRegistered, Types
<1> QED
  BY <1>4, <1>5 DEF TypeOK, SendNotRegistered

LEMMA SendEventSteady ==
  ASSUME TypeOK, NEW t \in Tasks, NEW a \in Apps, NEW e \in Events, SendEvent(t, a, e)
  PROVE  TypeOK' /\ Steady
<1> DEFINE found == SlotsOf(data[a], e)
           f     == data[a].filters[Least(found)]
           next  == IF found # {} /\ Hides(f.mask, f.count) THEN "idle" ELSE "squelch"
           c1 == [NoCall EXCEPT !.app = a, !.event = e, !.slot = Least(found), !.count = f.count, !.next = next]
           c2 == [NoCall EXCEPT !.app = a, !.event = e]
<1>1. c2 \in Pending
  BY NoCallType DEF Pending
<1>2. ASSUME found # {}
      PROVE  c1 \in Pending
  <2>1. Least(found) \in Slots
    BY <1>2, LeastOf DEF SlotsOf
  <2>2. f.count \in Nat
    BY <2>1, Constants DEF TypeOK, Entry, Filters, Filter
  <2>3. next \in {"idle", "squelch"}
    OBVIOUS
  <2> HIDE DEF found, f, next
  <2> QED
    BY <2>1, <2>2, <2>3, NoCallType DEF Pending
<1>3. (found # {} /\ GoTo(t, "count", c1)) \/ GoTo(t, "squelch", c2)
  BY DEF SendEvent
<1> HIDE DEF c1, c2, found
<1>4. step' \in [Tasks -> Steps] /\ call' \in [Tasks -> Pending]
  BY <1>1, <1>2, <1>3, GoToType DEF Steps
<1> QED
  BY <1>4 DEF TypeOK, SendEvent, Steady

LEMMA CountSteady ==
  ASSUME TypeOK, NEW t \in Tasks, Count(t)
  PROVE  TypeOK' /\ Steady
<1> DEFINE c == call[t]
<1>1. PICK old \in {c.count, data[c.app].filters[c.slot].count} : CountUp(t, old)
  BY DEF Count
<1>2. c \in Pending /\ c.app \in Apps /\ c.slot \in Slots /\ data[c.app] \in Entry
  BY DEF TypeOK, Pending
<1>3. old \in Nat
  BY <1>2, Constants DEF Pending, Entry, Filters, Filter
<1> DEFINE new == (old + 1) % (MaxCount + 1)
<1>4. new \in 0 .. MaxCount
  BY <1>3, Constants
<1> DEFINE x == [data[c.app] EXCEPT !.filters[c.slot].count = new]
<1>5. x \in Entry
  BY <1>2, <1>4, CountReplaced
<1>6. data' = [data EXCEPT ![c.app] = x] /\ x.tokens = data[c.app].tokens /\ x.elapsed = data[c.app].elapsed
  BY <1>1, <1>2 DEF CountUp, TypeOK, Entry
<1>7. UNCHANGED <<meter, muted, told>>
  BY DEF Count
<1>8. Notify(t, "INFORMATION", c.next) \/ GoTo(t, c.next, [NoCall EXCEPT !.app = c.app, !.event = c.event])
  BY <1>1 DEF CountUp
<1>9. [NoCall EXCEPT !.app = c.app, !.event = c.event] \in Pending
  BY <1>2, NoCallType DEF Pending
<1> HIDE DEF x, new
<1>10. data' \in [Apps -> Entry] /\ Steady
  BY <1>2, <1>5, <1>6, <1>7, SteadyEntry
<1>11. step' \in [Tasks -> Steps] /\ call' \in [Tasks -> Pending]
  <2>1. c.next \in {"idle", "squelch"} /\ c.next \in Steps
    BY <1>2 DEF Pending, Steps
  <2> QED
    BY <1>8, <1>9, <2>1, NotifyType, GoToType DEF Types
<1> QED
  BY <1>10, <1>11 DEF Count, TypeOK

LEMMA LogSteady ==
  ASSUME TypeOK, NEW t \in Tasks, LogEvent(t) \/ SendOwn(t)
  PROVE  TypeOK' /\ Steady
<1>1. call[t] \in Pending /\ call[t].event \in Events /\ LogOK(log) /\ Own \in Events
  BY Constants DEF TypeOK, Pending, LogOK
<1>2. LogOK(log') /\ UNCHANGED <<data, calls, resets, meter, muted, told>>
  BY <1>1, AddLogType DEF LogEvent, SendOwn
<1>3. [call[t] EXCEPT !.type = "DEBUG"] \in Pending /\ call[t].next \in Steps
  BY <1>1 DEF Pending, Types, Steps
<1>4. step' \in [Tasks -> Steps] /\ call' \in [Tasks -> Pending]
  BY <1>3, NoCallType, GoToType DEF LogEvent, SendOwn, Steps
<1> QED
  BY <1>2, <1>4 DEF TypeOK, Steady, LogOK

LEMMA ResetFiltersSteady ==
  ASSUME TypeOK, NEW t \in Tasks, NEW S \in SUBSET Slots, ResetFilters(t, S)
  PROVE  TypeOK' /\ Steady
<1> DEFINE a == AppOf[t]
           x == CountsZeroed(data[a], S)
<1>1. a \in Apps /\ data[a] \in Entry
  BY Constants DEF TypeOK
<1>2. x \in Entry /\ x.tokens = data[a].tokens /\ x.elapsed = data[a].elapsed
  BY <1>1, CountsReplaced DEF CountsZeroed, Entry
<1>3. data' = [data EXCEPT ![a] = x] /\ UNCHANGED <<meter, muted, told>>
  BY <1>1 DEF ResetFilters, TypeOK
<1> HIDE DEF a, x
<1>4. data' \in [Apps -> Entry] /\ Steady
  BY <1>1, <1>2, <1>3, SteadyEntry
<1>5. calls' \in 0 .. MaxCalls
  BY Constants DEF ResetFilters, TypeOK
<1> QED
  BY <1>4, <1>5 DEF TypeOK, ResetFilters

LEMMA ResetFilterSteady ==
  ASSUME TypeOK, NEW t \in Tasks, NEW e \in Events, ResetFilter(t, e)
  PROVE  TypeOK' /\ Steady
<1>1. Least(SlotsOf(data[AppOf[t]], e)) \in Slots
  BY LeastOf DEF ResetFilter, SlotsOf
<1> QED
  BY <1>1, ResetFiltersSteady DEF ResetFilter

LEMMA CleanUpSteady ==
  ASSUME TypeOK, NEW a \in Apps, CleanUpApp(a)
  PROVE  TypeOK' /\ Steady
<1> DEFINE x == [data[a] EXCEPT !.reg = FALSE]
<1>1. x \in Entry /\ x.tokens = data[a].tokens /\ x.elapsed = data[a].elapsed
  BY DEF TypeOK, Entry
<1>2. data' = [data EXCEPT ![a] = x] /\ UNCHANGED <<meter, muted, told>>
  BY DEF CleanUpApp, TypeOK
<1> HIDE DEF x
<1>3. data' \in [Apps -> Entry] /\ Steady
  BY <1>1, <1>2, SteadyEntry
<1>4. calls' \in 0 .. MaxCalls
  BY Constants DEF CleanUpApp, TypeOK
<1> QED
  BY <1>3, <1>4 DEF TypeOK, CleanUpApp

-----------------------------------------------------------------------------
(* Commands                                                                *)

LEMMA CommandedType ==
  ASSUME TypeOK, Commanded
  PROVE  calls' \in 0 .. MaxCalls
BY Constants DEF Commanded, TypeOK

LEMMA GetApplicationInfoSteady ==
  ASSUME TypeOK, NEW a \in Apps, GetApplicationInfo(a)
  PROVE  TypeOK' /\ Steady
<1>1. [NoCall EXCEPT !.app = a] \in Pending
  BY NoCallType DEF Pending
<1>2. step' \in [Tasks -> Steps] /\ call' \in [Tasks -> Pending]
  BY <1>1, Constants, GoToType, NotifyType DEF GetApplicationInfo, Steps, Types
<1> QED
  BY <1>2, CommandedType DEF GetApplicationInfo, TypeOK, Steady

LEMMA ApplySteady ==
  ASSUME TypeOK, NEW a \in Apps, Found(a), NEW x \in Entry, NEW type \in Types, Apply(x, type),
         x.tokens = data[a].tokens, x.elapsed = data[a].elapsed
  PROVE  TypeOK' /\ Steady
<1>1. data' = [data EXCEPT ![a] = x] /\ UNCHANGED <<meter, muted, told>>
  BY DEF Apply, Found
<1>2. data' \in [Apps -> Entry] /\ Steady
  BY <1>1, SteadyEntry
<1>3. step' \in [Tasks -> Steps] /\ call' \in [Tasks -> Pending]
  BY Constants, NotifyType DEF Apply
<1> QED
  BY <1>2, <1>3 DEF Apply, TypeOK

\* A filter that was found, or that was free, is replaced.
LEMMA OnFilterSteady ==
  ASSUME TypeOK, NEW a \in Apps, Found(a), NEW e, NEW f, OnFilter(a, e, f),
         SlotsOf(data[a], e) # {} => f \in Filter
  PROVE  TypeOK' /\ Steady
<1> DEFINE s == Least(SlotsOf(data[a], e))
           x == [data[a] EXCEPT !.filters[s] = f]
<1>1. data[a] \in Entry /\ {"DEBUG", "ERROR"} \subseteq Types
  BY DEF TypeOK, Types
<1>2. CASE SlotsOf(data[a], e) = {}
  <2>1. Apply(data[a], "ERROR")
    BY <1>2 DEF OnFilter
  <2> QED
    BY <1>1, <2>1, ApplySteady
<1>3. CASE SlotsOf(data[a], e) # {}
  <2>1. Apply(x, "DEBUG")
    BY <1>3 DEF OnFilter
  <2>2. s \in Slots
    BY <1>3, LeastOf DEF SlotsOf
  <2>3. x \in Entry
    BY <1>1, <1>3, <2>2, FilterReplaced
  <2>4. x.tokens = data[a].tokens /\ x.elapsed = data[a].elapsed
    BY <1>1 DEF Entry
  <2> HIDE DEF x
  <2> QED
    BY <1>1, <2>1, <2>3, <2>4, ApplySteady
<1> QED
  BY <1>2, <1>3

LEMMA FilterOfType ==
  ASSUME TypeOK, NEW a \in Apps, NEW e, SlotsOf(data[a], e) # {}
  PROVE  FilterOf(a, e) \in Filter
<1>1. Least(SlotsOf(data[a], e)) \in Slots
  BY LeastOf DEF SlotsOf
<1> QED
  BY <1>1 DEF FilterOf, TypeOK, Entry, Filters

LEMMA FilterCommandsSteady ==
  ASSUME TypeOK, NEW a \in Apps, NEW e \in Events, ResetFilterCmd(a, e) \/ DeleteEventFilter(a, e)
  PROVE  TypeOK' /\ Steady
<1> DEFINE zero == [FilterOf(a, e) EXCEPT !.count = 0]
<1>1. SlotsOf(data[a], e) # {} => zero \in Filter
  BY Constants, FilterOfType DEF Filter
<1>2. CASE ResetFilterCmd(a, e)
  BY <1>1, <1>2, OnFilterSteady DEF ResetFilterCmd
<1>3. CASE DeleteEventFilter(a, e)
  BY <1>3, EntryParts, OnFilterSteady DEF DeleteEventFilter
<1> QED
  BY <1>2, <1>3

LEMMA FilterChangesSteady ==
  ASSUME TypeOK, NEW a \in Apps, NEW e \in Events, NEW m \in Masks,
         SetFilter(a, e, m) \/ AddEventFilter(a, e, m)
  PROVE  TypeOK' /\ Steady
<1> DEFINE changed == [FilterOf(a, e) EXCEPT !.mask = m]
           new     == [id |-> e, mask |-> m, count |-> 0]
<1>1. m \in 0 .. MaxCount /\ 0 \in 0 .. MaxCount
  BY Constants
<1>2. new \in Filter
  BY <1>1 DEF Filter
<1>3. SlotsOf(data[a], e) # {} => changed \in Filter
  BY <1>1, FilterOfType DEF Filter
<1>4. CASE SetFilter(a, e, m)
  BY <1>3, <1>4, OnFilterSteady DEF SetFilter
<1>5. CASE AddEventFilter(a, e, m)
  <2>1. data[a] \in Entry /\ "ERROR" \in Types
    BY DEF TypeOK, Types
  <2>2. CASE SlotsOf(data[a], e) # {}
    BY <1>5, <2>1, <2>2, ApplySteady DEF AddEventFilter
  <2>3. CASE SlotsOf(data[a], e) = {}
    BY <1>2, <1>5, <2>3, OnFilterSteady DEF AddEventFilter
  <2> QED
    BY <2>2, <2>3
<1> QED
  BY <1>4, <1>5

LEMMA ResetAllFiltersCmdSteady ==
  ASSUME TypeOK, NEW a \in Apps, ResetAllFiltersCmd(a)
  PROVE  TypeOK' /\ Steady
<1> DEFINE x == CountsZeroed(data[a], Slots)
<1>1. data[a] \in Entry /\ "DEBUG" \in Types
  BY DEF TypeOK, Types
<1>2. x \in Entry /\ x.tokens = data[a].tokens /\ x.elapsed = data[a].elapsed
  BY <1>1, CountsReplaced DEF CountsZeroed, Entry
<1>3. Found(a) /\ Apply(x, "DEBUG")
  BY DEF ResetAllFiltersCmd
<1> HIDE DEF x
<1> QED
  BY <1>1, <1>2, <1>3, ApplySteady

\* The switches of an application, for all its events and by type.
LEMMA AppEventsSteady ==
  ASSUME TypeOK, NEW a \in Apps, NEW on \in BOOLEAN, SetAppEvents(a, on)
  PROVE  TypeOK' /\ Steady
<1> DEFINE x == [data[a] EXCEPT !.active = on]
<1>1. x \in Entry /\ x.tokens = data[a].tokens /\ x.elapsed = data[a].elapsed
  BY DEF TypeOK, Entry
<1>2. Found(a) /\ Apply(x, "DEBUG") /\ "DEBUG" \in Types
  BY DEF SetAppEvents, Types
<1> HIDE DEF x
<1> QED
  BY <1>1, <1>2, ApplySteady

LEMMA SwitchSteady ==
  ASSUME TypeOK, NEW a \in Apps, NEW on \in BOOLEAN, NEW type \in Switched,
         SetAppEventType(a, type, on)
  PROVE  TypeOK' /\ Steady
<1> DEFINE x == [data[a] EXCEPT !.types = IF on THEN @ \cup {type} ELSE @ \ {type}]
<1>1. x \in Entry /\ x.tokens = data[a].tokens /\ x.elapsed = data[a].elapsed
  BY Constants DEF TypeOK, Entry
<1>2. Found(a) /\ Apply(x, "DEBUG") /\ "DEBUG" \in Types
  BY DEF SetAppEventType, Types
<1> HIDE DEF x
<1> QED
  BY <1>1, <1>2, ApplySteady

LEMMA CommandsSteady ==
  ASSUME TypeOK, NEW a \in Apps, Commands(a)
  PROVE  TypeOK' /\ Steady
<1>1. CASE GetApplicationInfo(a) \/ ResetAllFiltersCmd(a)
  BY <1>1, GetApplicationInfoSteady, ResetAllFiltersCmdSteady
<1>2. ASSUME NEW on \in BOOLEAN, SetAppEvents(a, on)
      PROVE  TypeOK' /\ Steady
  BY <1>2, AppEventsSteady
<1>3. ASSUME NEW on \in BOOLEAN, NEW type \in Switched, SetAppEventType(a, type, on)
      PROVE  TypeOK' /\ Steady
  BY <1>3, SwitchSteady
<1>4. ASSUME NEW e \in Events, ResetFilterCmd(a, e) \/ DeleteEventFilter(a, e)
      PROVE  TypeOK' /\ Steady
  BY <1>4, FilterCommandsSteady
<1>5. ASSUME NEW e \in Events, NEW m \in Masks, SetFilter(a, e, m) \/ AddEventFilter(a, e, m)
      PROVE  TypeOK' /\ Steady
  BY <1>5, FilterChangesSteady
<1> QED
  BY <1>1, <1>2, <1>3, <1>4, <1>5 DEF Commands

LEMMA SetEventTypeSteady ==
  ASSUME TypeOK, NEW type \in Switched, NEW on \in BOOLEAN, SetEventType(type, on)
  PROVE  TypeOK' /\ Steady
<1> DEFINE x(a) == [data[a] EXCEPT !.types = IF on THEN @ \cup {type} ELSE @ \ {type}]
<1>1. \A a \in Apps : /\ x(a) \in Entry /\ x(a).tokens = data[a].tokens /\ x(a).elapsed = data[a].elapsed
  BY Constants DEF TypeOK, Entry
<1>2. data' = [a \in Apps |-> IF ~data[a].reg THEN data[a] ELSE x(a)]
  BY DEF SetEventType
<1> HIDE DEF x
<1>3. data' \in [Apps -> Entry] /\ Steady
  <2>1. ASSUME NEW a \in Apps
        PROVE  /\ data'[a] \in Entry /\ data'[a].tokens = data[a].tokens
               /\ data'[a].elapsed = data[a].elapsed
    <3>1. data[a] \in Entry
      BY DEF TypeOK
    <3>2. data'[a] = data[a] \/ data'[a] = x(a)
      BY <1>2
    <3> QED
      BY <1>1, <3>1, <3>2
  <2> QED
    BY <1>2, <2>1 DEF SetEventType, Steady
<1>4. step' \in [Tasks -> Steps] /\ call' \in [Tasks -> Pending]
  BY Constants, NotifyType DEF SetEventType, Types
<1> QED
  BY <1>3, <1>4, CommandedType DEF SetEventType, TypeOK

LEMMA LogCommandsSteady ==
  ASSUME TypeOK, ClearLogCmd \/ (\E m \in Modes : SetLogMode(m)) \/ WriteLogDataFile \/ ReportFile
  PROVE  TypeOK' /\ Steady
<1>1. CASE ClearLogCmd
  BY <1>1, CommandedType, EmptyLogType DEF ClearLogCmd, ClearLog, TypeOK, Steady, LogOK, Logs
<1>2. ASSUME NEW m \in Modes, SetLogMode(m)
      PROVE  TypeOK' /\ Steady
  <2>1. [log EXCEPT !.LogMode = m] \in Logs /\ [log EXCEPT !.LogMode = m].Next = log.Next
    BY DEF TypeOK, Logs
  <2>2. step' \in [Tasks -> Steps] /\ call' \in [Tasks -> Pending]
    BY <1>2, Constants, NotifyType DEF SetLogMode, Types
  <2> QED
    BY <1>2, <2>1, <2>2, CommandedType DEF SetLogMode, TypeOK, Steady
<1>3. CASE WriteLogDataFile
  <2>1. ASSUME NEW n \in 0 .. log.LogCount
        PROVE  [NoCall EXCEPT !.count = n, !.type = IF n = log.LogCount THEN "DEBUG" ELSE "ERROR"] \in Pending
    <3>1. n \in Nat /\ (IF n = log.LogCount THEN "DEBUG" ELSE "ERROR") \in Types
      BY DEF Types, TypeOK, Logs
    <3> QED
      BY <3>1, NoCallType DEF Pending
  <2>2. step' \in [Tasks -> Steps] /\ call' \in [Tasks -> Pending]
    BY <1>3, <2>1, Constants, NotifyType, GoToType DEF WriteLogDataFile, Types, Steps
  <2> QED
    BY <1>3, <2>2, CommandedType DEF WriteLogDataFile, TypeOK, Steady
<1>4. CASE ReportFile
  <2>1. step' \in [Tasks -> Steps] /\ call' \in [Tasks -> Pending]
    BY <1>4, Constants, NotifyType DEF ReportFile, Types
  <2> QED
    BY <1>4, <2>1 DEF ReportFile, TypeOK, Steady
<1> QED
  BY <1>1, <1>2, <1>3, <1>4

-----------------------------------------------------------------------------
(* The account of an application                                           *)

\* What an application may still send at once: its balance, with what is credited to it
\* as soon as it is looked at, or what is not credited yet.
InStore(e) == IF Credited(e) THEN Balance(e) ELSE e.tokens + Credit(e)

MeterOK == \A a \in Apps : /\ 0 <= meter[a] /\ meter[a] <= Most
                           /\ meter[a] >= InStore(data[a]) + Cost - 1
MutedOK == \A a \in Apps : /\ told[a] = IF muted[a] THEN 1 ELSE 0
                           /\ muted[a] <=> (Burst > 0 /\ data[a].tokens <= -Cost)

\* The meter is ahead of the store by what is left of an event, and an application is
\* muted exactly while it is in debt for one.
IInv == TypeOK /\ (Burst > 0 => MeterOK) /\ MutedOK

LEMMA StoreBounded ==
  ASSUME NEW e \in Entry
  PROVE  InStore(e) \in Int /\ Balance(e) \in Int /\ InStore(e) <= Upper + Cost - 1
BY TimeIsPaid, Constants, Products DEF InStore, Balance, Credited, Entry

LEMMA MostType == Most \in Nat /\ Most = Upper + Cost - 1 + Cost - 1
BY Constants, Products DEF Most

\* An event that passes is paid from the store.
LEMMA PaidFromStore ==
  ASSUME NEW e \in Entry, Burst > 0, Passes(e)
  PROVE  /\ InStore(e) >= 1 /\ InStore(Charged(e)) = InStore(e) - Cost
         /\ Charged(e).tokens > -Cost
<1>1. Credit(e) \in Nat /\ e.tokens \in -Upper .. Upper /\ Balance(e) \in Int
  BY TimeIsPaid, StoreBounded DEF Entry
<1>2. Balance(e) > 0 /\ AfterEvent(e) = Balance(e) - Cost
  BY <1>1, Constants, Products DEF Passes, AfterEvent
<1>3. CASE Credited(e)
  <2>1. Charged(e).tokens = Balance(e) - Cost /\ Charged(e).elapsed = 0
    BY <1>2, <1>3 DEF Charged, Entry
  <2>2. Credit(Charged(e)) = 0
    BY <2>1, Constants DEF Credit
  <2>3. ~Credited(Charged(e))
    BY <2>2, Constants DEF Credited
  <2> QED
    BY <1>1, <1>2, <1>3, <2>1, <2>2, <2>3, Constants DEF InStore
<1>4. CASE ~Credited(e)
  <2>1. Charged(e).tokens = e.tokens - Cost /\ Charged(e).elapsed = e.elapsed /\ e.tokens > 0
    BY <1>2, <1>4 DEF Charged, Entry, Balance
  <2>2. Credit(Charged(e)) = Credit(e)
    BY <2>1 DEF Credit
  <2>3. ~Credited(Charged(e))
    BY <2>2, <1>4 DEF Credited
  <2> QED
    BY <1>1, <1>4, <2>1, <2>2, <2>3, Constants DEF InStore
<1> QED
  BY <1>3, <1>4

\* An event that does not pass adds nothing to the store, and leaves a debt.
LEMMA NothingFromStore ==
  ASSUME NEW e \in Entry, ~Passes(e)
  PROVE  Burst > 0 /\ InStore(Charged(e)) <= InStore(e) /\ Charged(e).tokens <= -Cost
<1>1. Credit(e) \in Nat /\ e.tokens \in -Upper .. Upper /\ Balance(e) \in Int
  BY TimeIsPaid, StoreBounded DEF Entry
<1>2. Burst > 0 /\ Burst # 0 /\ Balance(e) <= 0
  BY <1>1, Constants DEF Passes
<1>3. AfterEvent(e) \in Int /\ AfterEvent(e) <= -Cost /\ AfterEvent(e) <= Balance(e)
  BY <1>1, <1>2, Constants, Products DEF AfterEvent, Balance
<1>4. Charged(e).tokens = AfterEvent(e)
  BY <1>2 DEF Charged, Entry
<1>5. CASE Credited(e)
  <2>1. Charged(e).elapsed = 0
    BY <1>2, <1>5 DEF Charged, Entry
  <2>2. Credit(Charged(e)) = 0
    BY <2>1, Constants DEF Credit
  <2>3. ~Credited(Charged(e))
    BY <2>2, Constants DEF Credited
  <2> QED
    BY <1>1, <1>2, <1>3, <1>4, <1>5, <2>2, <2>3 DEF InStore
<1>6. CASE ~Credited(e)
  <2>1. Charged(e).elapsed = e.elapsed /\ Balance(e) = e.tokens
    BY <1>2, <1>6 DEF Charged, Entry, Balance
  <2>2. Credit(Charged(e)) = Credit(e)
    BY <2>1 DEF Credit
  <2>3. ~Credited(Charged(e))
    BY <2>2, <1>6 DEF Credited
  <2> QED
    BY <1>1, <1>2, <1>3, <1>4, <1>6, <2>1, <2>2, <2>3 DEF InStore
<1> QED
  BY <1>2, <1>4, <1>3, <1>5, <1>6

\* A millisecond adds no more than the rate.
LEMMA StoreOfTime ==
  ASSUME NEW e \in Entry, NEW x \in Entry, x.tokens = e.tokens,
         x.elapsed = IF e.elapsed < MaxElapsed THEN e.elapsed + 1 ELSE e.elapsed
  PROVE  InStore(x) <= InStore(e) + Rate
<1>1. Credit(e) \in Nat /\ e.tokens \in -Upper .. Upper
  BY TimeIsPaid DEF Entry
<1>2. Credit(x) = Credit(e) \/ Credit(x) = Credit(e) + Rate
  BY Products DEF Credit, Entry
<1> QED
  BY <1>1, <1>2, Constants, Products DEF InStore, Balance, Credited

-----------------------------------------------------------------------------
(* The invariant                                                           *)

LEMMA SteadyKeeps ==
  ASSUME IInv, TypeOK', Steady
  PROVE  IInv'
<1>1. \A a \in Apps : /\ Credit(data'[a]) = Credit(data[a]) /\ InStore(data'[a]) = InStore(data[a])
                      /\ data'[a].tokens = data[a].tokens
  BY DEF Steady, Credit, InStore, Balance, Credited
<1>2. UNCHANGED <<meter, muted, told>>
  BY DEF Steady
<1> QED
  BY <1>1, <1>2 DEF IInv, MeterOK, MutedOK

FirstEntry(a) == IF a = Evs THEN Registered(Zeroed, NoFilters) ELSE Zeroed
FirstCall(t)  == IF t = EvsTask THEN [NoCall EXCEPT !.type = "INFORMATION"] ELSE NoCall

LEMMA BootParts ==
  /\ \A t \in Tasks : FirstCall(t) \in Pending
  /\ \A a \in Apps : /\ FirstEntry(a) \in Entry /\ Most \in Nat
                      /\ Most >= InStore(FirstEntry(a)) + Cost - 1 /\ ~(FirstEntry(a).tokens <= -Cost)
<1>1. \A a \in Apps : FirstEntry(a) \in Entry /\ FirstEntry(a).tokens \in {0, Upper}
  BY EntryParts DEF FirstEntry, Registered, Zeroed
<1>2. \A t \in Tasks : FirstCall(t) \in Pending
  BY NoCallType DEF FirstCall, Pending, Types
<1> QED
  BY <1>1, <1>2, StoreBounded, MostType, Constants, Products

LEMMA InitHolds == Init => IInv
<1> SUFFICES ASSUME Init
             PROVE  IInv
  OBVIOUS
<1>1. data = [a \in Apps |-> FirstEntry(a)] /\ call = [t \in Tasks |-> FirstCall(t)]
  BY DEF Init, FirstEntry, FirstCall
<1>2. LogOK(log) /\ calls \in 0 .. MaxCalls /\ resets \in 0 .. MaxResets
  BY EmptyLogType, Constants DEF Init
<1>3. TypeOK
  BY <1>1, <1>2, BootParts DEF Init, TypeOK, LogOK, Steps
<1> QED
  BY <1>1, <1>3, BootParts DEF Init, IInv, MeterOK, MutedOK

LEMMA BootHolds ==
  ASSUME TypeOK, LogOK(log'), UNCHANGED calls, resets' \in 0 .. MaxResets, Boot
  PROVE  IInv'
<1>1. data' = [a \in Apps |-> FirstEntry(a)] /\ call' = [t \in Tasks |-> FirstCall(t)]
  BY DEF Boot, FirstEntry, FirstCall
<1>2. TypeOK'
  BY <1>1, BootParts DEF Boot, TypeOK, LogOK, Steps
<1> QED
  BY <1>1, <1>2, BootParts DEF Boot, IInv, MeterOK, MutedOK

LEMMA ResetKeeps ==
  ASSUME IInv, ProcessorReset \/ PowerOnReset
  PROVE  IInv'
<1>1. LogOK(log')
  BY TornType, RestoredType, EmptyLogType, Constants DEF IInv, TypeOK, ProcessorReset, PowerOnReset
<1>2. resets' \in 0 .. MaxResets /\ Boot /\ UNCHANGED calls
  BY Constants DEF ProcessorReset, PowerOnReset, Reset, IInv, TypeOK
<1> QED
  BY <1>1, <1>2, BootHolds DEF IInv

LEMMA TickKeeps ==
  ASSUME IInv, Tick
  PROVE  IInv'
<1> DEFINE x(a) == [data[a] EXCEPT !.elapsed = IF @ < MaxElapsed THEN @ + 1 ELSE @]
<1>1. ASSUME NEW a \in Apps
      PROVE  /\ x(a) \in Entry /\ x(a).tokens = data[a].tokens
             /\ x(a).elapsed = IF data[a].elapsed < MaxElapsed THEN data[a].elapsed + 1 ELSE data[a].elapsed
  <2>1. data[a] \in Entry /\ data[a].elapsed \in 0 .. MaxElapsed
    BY DEF IInv, TypeOK, Entry
  <2>2. (IF data[a].elapsed < MaxElapsed THEN data[a].elapsed + 1 ELSE data[a].elapsed) \in 0 .. MaxElapsed
    BY <2>1, Constants
  <2> QED
    BY <2>1, <2>2 DEF Entry
<1>2. data' = [a \in Apps |-> x(a)]
  BY DEF Tick
<1>3. ASSUME NEW a \in Apps
      PROVE  InStore(x(a)) <= InStore(data[a]) + Rate /\ InStore(x(a)) <= Upper + Cost - 1
             /\ InStore(x(a)) \in Int /\ InStore(data[a]) \in Int
  BY <1>1, StoreOfTime, StoreBounded DEF IInv, TypeOK
<1> HIDE DEF x
<1>4. TypeOK'
  <2>1. meter' \in [Apps -> Int]
    BY MostType, Constants DEF Tick, IInv, TypeOK
  <2> QED
    BY <1>1, <1>2, <2>1 DEF Tick, IInv, TypeOK
<1>5. Burst > 0 => MeterOK'
  <2> SUFFICES ASSUME Burst > 0, NEW a \in Apps
               PROVE  /\ 0 <= meter'[a] /\ meter'[a] <= Most
                      /\ meter'[a] >= InStore(data'[a]) + Cost - 1
    BY DEF MeterOK
  <2>1. meter'[a] = (IF meter[a] + Rate < Most THEN meter[a] + Rate ELSE Most) /\ data'[a] = x(a)
    BY <1>2 DEF Tick
  <2>2. meter[a] \in Int /\ 0 <= meter[a] /\ meter[a] >= InStore(data[a]) + Cost - 1
    BY DEF IInv, TypeOK, MeterOK
  <2> QED
    BY <1>3, <2>1, <2>2, MostType, Products, Constants
<1>6. MutedOK'
  BY <1>1, <1>2 DEF Tick, IInv, MutedOK
<1> QED
  BY <1>4, <1>5, <1>6 DEF IInv

LEMMA GivenType == GivenFilters \subseteq Filters
<1>1. ASSUME NEW e \in Events, NEW m \in Masks
      PROVE  [NoFilters EXCEPT ![1] = [id |-> e, mask |-> m, count |-> 0]] \in Filters
  <2>1. [id |-> e, mask |-> m, count |-> 0] \in Filter
    BY Constants DEF Filter
  <2> HIDE DEF NoFilters
  <2> QED
    BY <2>1, EntryParts DEF Filters
<1> QED
  BY <1>1, EntryParts DEF GivenFilters

LEMMA RegisterKeeps ==
  ASSUME IInv, NEW t \in Tasks, RegisterBegin(t) \/ RegisterEnd(t)
  PROVE  IInv'
<1> DEFINE a == AppOf[t]
<1>1. a \in Apps /\ data[a] \in Entry
  BY Constants DEF IInv, TypeOK
<1>2. PICK x \in Entry : data' = [data EXCEPT ![a] = x] /\ x.tokens \in {0, Upper}
  <2>1. CASE RegisterBegin(t)
    BY <2>1, EntryParts DEF RegisterBegin, Zeroed
  <2>2. CASE RegisterEnd(t)
    <3>1. PICK f \in GivenFilters : data' = [data EXCEPT ![a] = Registered(data[a], f)]
      BY <2>2 DEF RegisterEnd
    <3>2. f \in Filters
      BY GivenType
    <3>3. Registered(data[a], f) \in Entry
      BY <1>1, <3>2, EntryParts
    <3>4. Registered(data[a], f).tokens = Upper
      BY <1>1 DEF Registered, Entry
    <3> HIDE DEF a
    <3> QED
      BY <3>1, <3>3, <3>4
  <2> QED
    BY <2>1, <2>2
<1>3. step' \in [Tasks -> Steps] /\ call' \in [Tasks -> Pending] /\ calls' \in 0 .. MaxCalls
  BY GoToType, NoCallType, Constants DEF RegisterBegin, RegisterEnd, IInv, TypeOK, Steps
<1>4. NewAccount(a) /\ UNCHANGED <<log, resets>>
  BY DEF RegisterBegin, RegisterEnd
<1> HIDE DEF a
<1>5. /\ data' \in [Apps -> Entry] /\ data'[a] = x /\ \A b \in Apps : b # a => data'[b] = data[b]
  BY <1>1, <1>2, OneEntry DEF IInv
<1>6. TypeOK'
  <2>1. meter' \in [Apps -> Int] /\ muted' \in [Apps -> BOOLEAN] /\ told' \in [Apps -> Nat]
    <3>1. Most \in Int /\ meter \in [Apps -> Int] /\ muted \in [Apps -> BOOLEAN] /\ told \in [Apps -> Nat]
      BY MostType DEF IInv, TypeOK
    <3> QED
      BY <1>4, <3>1 DEF NewAccount
  <2> QED
    BY <1>3, <1>4, <1>5, <2>1 DEF IInv, TypeOK
<1>7. 0 <= Most /\ Most >= InStore(x) + Cost - 1 /\ ~(x.tokens <= -Cost)
  BY <1>2, StoreBounded, MostType, Constants, Products
<1>8. /\ meter'[a] = Most /\ muted'[a] = FALSE /\ told'[a] = 0
      /\ \A b \in Apps : b # a => meter'[b] = meter[b] /\ muted'[b] = muted[b] /\ told'[b] = told[b]
  BY <1>1, <1>4 DEF NewAccount, IInv, TypeOK
<1>9. Burst > 0 => MeterOK'
  BY <1>5, <1>7, <1>8, MostType DEF IInv, MeterOK
<1>10. MutedOK'
  BY <1>5, <1>7, <1>8 DEF IInv, MutedOK
<1> QED
  BY <1>6, <1>9, <1>10 DEF IInv

\* EVS_CheckAndIncrementSquelchTokens
LEMMA SquelchKeeps ==
  ASSUME IInv, NEW t \in Tasks, Squelch(t)
  PROVE  IInv'
<1> DEFINE a == call[t].app
           e == data[a]
           x == Charged(e)
<1>1. a \in Apps /\ e \in Entry /\ call[t] \in Pending
  BY DEF IInv, TypeOK, Pending
<1>2. x \in Entry
  BY <1>1, ChargedType
<1>3. data' = [data EXCEPT ![a] = x]
  BY DEF Squelch
<1>4. /\ data' \in [Apps -> Entry] /\ data'[a] = x /\ \A b \in Apps : b # a => data'[b] = data[b]
  BY <1>1, <1>2, <1>3, OneEntry DEF IInv
<1>5. step' \in [Tasks -> Steps] /\ call' \in [Tasks -> Pending]
  <2>1. [NoCall EXCEPT !.event = call[t].event] \in Pending
    BY <1>1, NoCallType DEF Pending
  <2> QED
    BY <2>1, NoCallType, GoToType, NotifyType DEF Squelch, IInv, Steps, Types
<1>6. /\ meter' = [meter EXCEPT ![a] = IF Passes(e) THEN @ - Cost ELSE @]
      /\ muted' = [muted EXCEPT ![a] = ~Passes(e)]
      /\ told'  = [told EXCEPT ![a] = IF Passes(e) THEN 0 ELSE IF Tells(e) THEN @ + 1 ELSE @]
      /\ UNCHANGED <<log, calls, resets>>
  BY DEF Squelch
<1>7. TypeOK'
  BY <1>1, <1>4, <1>5, <1>6, Constants DEF IInv, TypeOK, Passes
<1>8. /\ meter'[a] = IF Passes(e) THEN meter[a] - Cost ELSE meter[a]
      /\ muted'[a] = ~Passes(e)
      /\ told'[a] = IF Passes(e) THEN 0 ELSE IF Tells(e) THEN told[a] + 1 ELSE told[a]
      /\ \A b \in Apps : b # a => meter'[b] = meter[b] /\ muted'[b] = muted[b] /\ told'[b] = told[b]
  BY <1>1, <1>6 DEF IInv, TypeOK
<1>9. meter[a] \in Int /\ InStore(e) \in Int /\ InStore(x) \in Int
  BY <1>1, <1>2, StoreBounded DEF IInv, TypeOK
<1> HIDE DEF a, e, x
<1>10. ASSUME Burst > 0
       PROVE  MeterOK'
  <2>1. 0 <= meter[a] /\ meter[a] <= Most /\ meter[a] >= InStore(e) + Cost - 1
    BY <1>1, <1>10 DEF IInv, MeterOK, e
  <2>2. CASE Passes(e)
    <3>1. InStore(e) >= 1 /\ InStore(x) = InStore(e) - Cost
      BY <1>1, <1>10, <2>2, PaidFromStore DEF x
    <3>2. 0 <= meter'[a] /\ meter'[a] <= Most /\ meter'[a] >= InStore(x) + Cost - 1
      BY <1>8, <1>9, <2>1, <2>2, <3>1, MostType, Constants
    <3> QED
      BY <1>4, <1>8, <1>10, <3>2 DEF IInv, MeterOK
  <2>3. CASE ~Passes(e)
    <3>1. InStore(x) <= InStore(e)
      BY <1>1, <2>3, NothingFromStore DEF x
    <3>2. 0 <= meter'[a] /\ meter'[a] <= Most /\ meter'[a] >= InStore(x) + Cost - 1
      BY <1>8, <1>9, <2>1, <2>3, <3>1, Constants
    <3> QED
      BY <1>4, <1>8, <1>10, <3>2 DEF IInv, MeterOK
  <2> QED
    BY <2>2, <2>3
<1>11. MutedOK'
  <2>1. told[a] = (IF muted[a] THEN 1 ELSE 0) /\ (muted[a] <=> (Burst > 0 /\ e.tokens <= -Cost))
    BY <1>1 DEF IInv, MutedOK, e
  <2>2. told'[a] = (IF muted'[a] THEN 1 ELSE 0) /\ (muted'[a] <=> (Burst > 0 /\ x.tokens <= -Cost))
    <3>1. CASE Passes(e)
      <4>1. Burst > 0 => ~(x.tokens <= -Cost)
        BY <1>1, <1>2, <3>1, PaidFromStore, Constants DEF x, Entry
      <4> QED
        BY <1>8, <3>1, <4>1
    <3>2. CASE ~Passes(e)
      <4>1. Burst > 0 /\ x.tokens <= -Cost
        BY <1>1, <3>2, NothingFromStore DEF x
      <4>2. Tells(e) <=> ~muted[a]
        <5>1. Credit(e) \in Nat /\ e.tokens \in -Upper .. Upper
          BY <1>1, TimeIsPaid DEF Entry
        <5> QED
          BY <2>1, <3>2, <4>1, <5>1, Constants, Products DEF Tells, Passes, Balance, Credited
      <4> QED
        <5>1. muted'[a] = TRUE /\ told'[a] = IF Tells(e) THEN told[a] + 1 ELSE told[a]
          BY <1>8, <3>2
        <5>2. told'[a] = 1
          BY <2>1, <4>2, <5>1
        <5> QED
          BY <4>1, <5>1, <5>2
    <3> QED
      BY <3>1, <3>2
  <2> QED
    BY <1>4, <1>8, <2>2 DEF IInv, MutedOK
<1> QED
  BY <1>7, <1>10, <1>11 DEF IInv

-----------------------------------------------------------------------------
(* Theorems                                                                *)

LEMMA CallsKeep ==
  ASSUME IInv, NEW t \in Tasks, Calls(t)
  PROVE  IInv'
<1>1. CASE RegisterBegin(t) \/ RegisterEnd(t)
  BY <1>1, RegisterKeeps
<1>2. CASE RegisterRefused(t)
  <2>1. TypeOK' /\ Steady
    BY <1>2, GoToType, NoCallType DEF RegisterRefused, IInv, TypeOK, Steps, Steady
  <2> QED
    BY <2>1, SteadyKeeps
<1>3. ASSUME NEW a \in Apps, SendNotRegistered(t, a)
      PROVE  IInv'
  BY <1>3, SendNotRegisteredSteady, SteadyKeeps DEF IInv
<1>4. ASSUME NEW a \in Apps, NEW e \in Events, SendEvent(t, a, e)
      PROVE  IInv'
  BY <1>4, SendEventSteady, SteadyKeeps DEF IInv
<1>5. CASE Count(t)
  BY <1>5, CountSteady, SteadyKeeps DEF IInv
<1>6. CASE Squelch(t)
  BY <1>6, SquelchKeeps
<1>7. CASE LogEvent(t) \/ SendOwn(t)
  BY <1>7, LogSteady, SteadyKeeps DEF IInv
<1>8. ASSUME NEW e \in Events, ResetFilter(t, e)
      PROVE  IInv'
  BY <1>8, ResetFilterSteady, SteadyKeeps DEF IInv
<1>9. CASE ResetAllFilters(t)
  BY <1>9, ResetFiltersSteady, SteadyKeeps DEF IInv, ResetAllFilters
<1> QED
  BY <1>1, <1>2, <1>3, <1>4, <1>5, <1>6, <1>7, <1>8, <1>9 DEF Calls

\* The invariant of Event Services, from which the theorems follow: the meter of an
\* application is ahead of its store, and it is muted exactly while it is in debt.
THEOREM InductiveInvariant == Spec => []IInv
<1>1. Init => IInv
  BY InitHolds
<1>2. IInv /\ [Next]_vars => IInv'
  <2> SUFFICES ASSUME IInv, [Next]_vars
               PROVE  IInv'
    OBVIOUS
  <2>1. ASSUME NEW t \in Tasks, Calls(t)
        PROVE  IInv'
    BY <2>1, CallsKeep
  <2>2. ASSUME NEW a \in Apps, Commands(a) \/ CleanUpApp(a)
        PROVE  IInv'
    BY <2>2, CommandsSteady, CleanUpSteady, SteadyKeeps DEF IInv
  <2>3. CASE Ground
    <3>1. ASSUME NEW type \in Switched, NEW on \in BOOLEAN, SetEventType(type, on)
          PROVE  IInv'
      BY <3>1, SetEventTypeSteady, SteadyKeeps DEF IInv
    <3>2. CASE ClearLogCmd \/ (\E m \in Modes : SetLogMode(m)) \/ WriteLogDataFile \/ ReportFile
      BY <3>2, LogCommandsSteady, SteadyKeeps DEF IInv
    <3> QED
      BY <2>3, <3>1, <3>2 DEF Ground
  <2>4. CASE Tick
    BY <2>4, TickKeeps
  <2>5. CASE ProcessorReset \/ PowerOnReset
    BY <2>5, ResetKeeps
  <2>6. CASE UNCHANGED vars
    BY <2>6 DEF vars, IInv, TypeOK, MeterOK, MutedOK, InStore, Balance, Credited, Credit
  <2> QED
    BY <2>1, <2>2, <2>3, <2>4, <2>5, <2>6 DEF Next
<1> QED
  BY <1>1, <1>2, PTL DEF Spec

\* Every variable of Event Services keeps its type: the balances of tokens their two
\* thresholds, the index of the log its range, after resets at any moment too.
THEOREM TypeCorrect == Spec => []TypeOK
<1>1. IInv => TypeOK
  BY DEF IInv
<1> QED
  BY <1>1, InductiveInvariant, PTL

\* EVS_CheckAndIncrementSquelchTokens: for any burst and rate, the events of an
\* application that pass stay within the documented rate, and one that has been silent
\* long enough is heard again.
THEOREM FloodsBounded == Spec => []FloodBounded
<1>1. ASSUME IInv
      PROVE  FloodBounded
  <2> SUFFICES ASSUME Burst > 0, NEW a \in Apps
               PROVE  meter[a] >= 0 /\ (Credit(data[a]) >= Upper + Cost => Passes(data[a]))
    BY DEF FloodBounded
  <2>1. meter[a] >= 0
    BY <1>1 DEF IInv, MeterOK, TypeOK
  <2>2. data[a] \in Entry /\ Credit(data[a]) \in Nat /\ data[a].tokens \in -Upper .. Upper
    BY <1>1, TimeIsPaid DEF IInv, TypeOK, Entry
  <2> QED
    BY <2>1, <2>2, Constants, Products DEF Passes, Balance, Credited
<1> QED
  BY <1>1, InductiveInvariant, PTL

\* Each episode of squelching is told once, with the first event that is squelched, for
\* any burst, rate and cost.
THEOREM EveryEpisodeTold == Spec => []EpisodesTold
<1>1. IInv => EpisodesTold
  BY DEF IInv, MutedOK, EpisodesTold
<1> QED
  BY <1>1, InductiveInvariant, PTL

-----------------------------------------------------------------------------
(* The log implements its specification                                    *)

\* Until it is full the ring begins at the first entry, and the flag says when it is.
RingOK(l) ==
  /\ LogOK(l) /\ (l.LogFullFlag <=> l.LogCount = LogMax)
  /\ l.LogCount < LogMax => l.Next = l.LogCount

LEMMA EntriesType ==
  ASSUME NEW l, RingOK(l)
  PROVE  /\ Entries(l) \in Seq(Events \cup {NoEvent}) /\ Len(Entries(l)) = l.LogCount
         /\ \A i \in 1 .. l.LogCount : Entries(l)[i] = l.LogEntry[Around(First(l) + i - 1)]
<1>1. /\ l.LogCount \in 0 .. LogMax /\ l.Next \in 0 .. LogMax - 1
      /\ l.LogEntry \in [0 .. LogMax - 1 -> Events \cup {NoEvent}]
  BY Constants DEF RingOK, LogOK, Logs
<1>2. First(l) \in 0 .. LogMax - 1
  BY <1>1, Constants DEF First
<1>3. ASSUME NEW i \in 1 .. l.LogCount
      PROVE  Around(First(l) + i - 1) \in 0 .. LogMax - 1
  BY <1>1, <1>2, Constants DEF Around
<1>4. ASSUME NEW i \in 1 .. l.LogCount
      PROVE  l.LogEntry[Around(First(l) + i - 1)] \in Events \cup {NoEvent}
  BY <1>1, <1>3
<1> QED
  BY <1>1, <1>4 DEF Entries

LEMMA EmptyLogEntries ==
  ASSUME NEW m \in Modes
  PROVE  RingOK(EmptyLog(m)) /\ Entries(EmptyLog(m)) = <<>> /\ EmptyLog(m).LogMode = m
<1>1. RingOK(EmptyLog(m)) /\ EmptyLog(m).LogCount = 0 /\ EmptyLog(m).LogMode = m
  BY EmptyLogType, Constants DEF RingOK, EmptyLog
<1> QED
  BY <1>1, EntriesType

\* The log when its parts are written one after the other.
LEMMA AddLogParts ==
  ASSUME NEW l, RingOK(l), NEW e \in Events, Admits(l)
  PROVE  LET n == AddLog(l, e) IN
         /\ RingOK(n) /\ n.LogMode = l.LogMode
         /\ n.LogEntry = [l.LogEntry EXCEPT ![l.Next] = e]
         /\ n.Next = IF l.Next + 1 = LogMax THEN 0 ELSE l.Next + 1
         /\ n.LogCount = IF l.LogCount < LogMax THEN l.LogCount + 1 ELSE LogMax
<1> DEFINE a == Advanced(Stored(l, e))
           w == Wrapped(a)
           c == Counted(w)
           n == AddLog(l, e)
<1>1. /\ l \in Logs /\ l.LogCount \in 0 .. LogMax /\ l.Next \in 0 .. LogMax - 1
      /\ l.LogFullFlag \in BOOLEAN /\ (l.LogFullFlag <=> l.LogCount = LogMax)
  BY Constants DEF RingOK, LogOK, Logs
<1>2. /\ a.LogEntry = [l.LogEntry EXCEPT ![l.Next] = e] /\ a.Next = l.Next + 1
      /\ a.LogCount = l.LogCount /\ a.LogMode = l.LogMode /\ a.LogFullFlag = l.LogFullFlag
  BY <1>1 DEF Advanced, Stored, Logs
<1>3. a \in Logs /\ LogOK(w) /\ LogOK(c) /\ LogOK(n)
  BY PartsType, AddLogType DEF RingOK
<1>4. n = Flagged(w, c)
  BY DEF AddLog
<1> HIDE DEF a, n
<1>5. /\ w.LogEntry = a.LogEntry /\ w.Next = (IF l.Next + 1 = LogMax THEN 0 ELSE l.Next + 1)
      /\ w.LogCount = a.LogCount /\ w.LogMode = a.LogMode /\ w.LogFullFlag = a.LogFullFlag
  BY <1>1, <1>2, <1>3, Constants DEF Wrapped, Logs
<1> HIDE DEF w
<1>6. /\ c.LogEntry = w.LogEntry /\ c.Next = w.Next
      /\ c.LogCount = (IF w.LogCount < LogMax THEN w.LogCount + 1 ELSE w.LogCount)
      /\ c.LogMode = w.LogMode /\ c.LogFullFlag = w.LogFullFlag
  BY <1>3 DEF Counted, LogOK, Logs
<1> HIDE DEF c
<1>7. /\ n.LogEntry = c.LogEntry /\ n.Next = c.Next /\ n.LogCount = c.LogCount /\ n.LogMode = c.LogMode
      /\ n.LogFullFlag = IF w.LogCount < LogMax /\ c.LogCount = LogMax THEN TRUE ELSE c.LogFullFlag
  BY <1>3, <1>4 DEF Flagged, LogOK, Logs
<1>8. n.LogCount = IF l.LogCount < LogMax THEN l.LogCount + 1 ELSE LogMax
  BY <1>1, <1>2, <1>5, <1>6, <1>7, Constants
<1>9. n.LogFullFlag <=> n.LogCount = LogMax
  <2>1. CASE l.LogCount < LogMax
    <3>1. ~l.LogFullFlag /\ n.LogCount = c.LogCount /\ w.LogCount < LogMax
      BY <1>1, <1>2, <1>5, <1>7, <2>1, Constants
    <3>2. c.LogFullFlag = l.LogFullFlag
      BY <1>2, <1>5, <1>6
    <3> QED
      BY <1>7, <3>1, <3>2
  <2>2. CASE l.LogCount = LogMax
    <3>1. l.LogFullFlag /\ n.LogCount = LogMax
      BY <1>1, <1>8, <2>2, Constants
    <3>2. c.LogFullFlag = l.LogFullFlag
      BY <1>2, <1>5, <1>6
    <3> QED
      BY <1>7, <3>1, <3>2
  <2> QED
    BY <1>1, <2>1, <2>2, Constants
<1>10. n.LogCount < LogMax => n.Next = n.LogCount
  BY <1>1, <1>5, <1>6, <1>7, <1>8, Constants DEF RingOK
<1> QED
  BY <1>2, <1>3, <1>5, <1>6, <1>7, <1>8, <1>9, <1>10 DEF RingOK, n

\* An event is put after the others while there is room.
LEMMA AddKeeps ==
  ASSUME NEW l, RingOK(l), NEW e \in Events, Admits(l), l.LogCount < LogMax
  PROVE  Entries(AddLog(l, e)) = Append(Entries(l), e)
<1> DEFINE n == AddLog(l, e)
<1>1. /\ RingOK(n) /\ n.LogEntry = [l.LogEntry EXCEPT ![l.Next] = e]
      /\ n.Next = (IF l.Next + 1 = LogMax THEN 0 ELSE l.Next + 1) /\ n.LogCount = l.LogCount + 1
  BY AddLogParts
<1>2. /\ l.LogCount \in 0 .. LogMax - 1 /\ l.Next = l.LogCount
      /\ l.LogEntry \in [0 .. LogMax - 1 -> Events \cup {NoEvent}]
  BY Constants DEF RingOK, LogOK, Logs
<1> HIDE DEF n
<1>3. First(l) = 0 /\ First(n) = 0
  BY <1>1, <1>2, Constants DEF First
<1>4. ASSUME NEW i \in 1 .. l.LogCount + 1
      PROVE  Entries(n)[i] = Append(Entries(l), e)[i]
  <2>1. Around(First(n) + i - 1) = i - 1 /\ Entries(n)[i] = n.LogEntry[i - 1]
    BY <1>1, <1>2, <1>3, EntriesType, Constants DEF Around
  <2>2. CASE i = l.LogCount + 1
    <3>1. n.LogEntry[i - 1] = e
      <4>1. i - 1 = l.Next /\ l.Next \in 0 .. LogMax - 1
        BY <1>2, <2>2
      <4> QED
        BY <1>1, <1>2, <4>1
    <3>2. Append(Entries(l), e)[i] = e
      BY <2>2, EntriesType
    <3> QED
      BY <2>1, <3>1, <3>2
  <2>3. CASE i \in 1 .. l.LogCount
    <3>1. n.LogEntry[i - 1] = l.LogEntry[i - 1]
      BY <1>1, <1>2, <2>3
    <3>2. Around(First(l) + i - 1) = i - 1 /\ Entries(l)[i] = l.LogEntry[i - 1]
      BY <1>2, <1>3, <2>3, EntriesType, Constants DEF Around
    <3>3. Append(Entries(l), e)[i] = Entries(l)[i]
      BY <2>3, EntriesType
    <3> QED
      BY <2>1, <3>1, <3>2, <3>3
  <2>4. i = l.LogCount + 1 \/ i \in 1 .. l.LogCount
    BY <1>2
  <2> QED
    BY <2>2, <2>3, <2>4, Zenon
<1>5. /\ Entries(n) \in Seq(Events \cup {NoEvent}) /\ Len(Entries(n)) = l.LogCount + 1
      /\ Append(Entries(l), e) \in Seq(Events \cup {NoEvent}) /\ Len(Append(Entries(l), e)) = l.LogCount + 1
  BY <1>1, EntriesType
<1> QED
  BY <1>4, <1>5, SeqEqual DEF n

\* The oldest event gives way when there is none.
LEMMA AddReplaces ==
  ASSUME NEW l, RingOK(l), NEW e \in Events, Admits(l), l.LogCount = LogMax
  PROVE  Entries(AddLog(l, e)) = Append(Tail(Entries(l)), e)
<1> DEFINE n == AddLog(l, e)
<1>1. /\ RingOK(n) /\ n.LogEntry = [l.LogEntry EXCEPT ![l.Next] = e]
      /\ n.Next = (IF l.Next + 1 = LogMax THEN 0 ELSE l.Next + 1) /\ n.LogCount = LogMax
  BY AddLogParts, Constants
<1>2. l.Next \in 0 .. LogMax - 1 /\ l.LogEntry \in [0 .. LogMax - 1 -> Events \cup {NoEvent}]
  BY Constants DEF RingOK, LogOK, Logs
<1> HIDE DEF n
<1>3. First(l) = l.Next /\ First(n) = n.Next
  BY <1>1 DEF First
<1>4. /\ Entries(l) \in Seq(Events \cup {NoEvent}) /\ Len(Entries(l)) = LogMax
      /\ Entries(n) \in Seq(Events \cup {NoEvent}) /\ Len(Entries(n)) = LogMax
  BY <1>1, EntriesType
<1>5. /\ Tail(Entries(l)) \in Seq(Events \cup {NoEvent}) /\ Len(Tail(Entries(l))) = LogMax - 1
      /\ \A i \in 1 .. LogMax - 1 : Tail(Entries(l))[i] = Entries(l)[i + 1]
  BY <1>4, Constants, HeadTailProperties
<1>6. ASSUME NEW i \in 1 .. LogMax
      PROVE  Entries(n)[i] = Append(Tail(Entries(l)), e)[i]
  <2>1. Entries(n)[i] = n.LogEntry[Around(n.Next + i - 1)]
    <3>1. i \in 1 .. n.LogCount
      BY <1>1
    <3>2. Entries(n)[i] = n.LogEntry[Around(First(n) + i - 1)]
      BY <1>1, <3>1, EntriesType
    <3> QED
      BY <1>3, <3>2
  <2>2. CASE i = LogMax
    <3>1. Around(n.Next + i - 1) = l.Next
      BY <1>1, <1>2, <2>2, Constants DEF Around
    <3>2. n.LogEntry[l.Next] = e
      BY <1>1, <1>2
    <3>3. Append(Tail(Entries(l)), e)[i] = e
      BY <1>5, <2>2, Constants
    <3> QED
      BY <2>1, <3>1, <3>2, <3>3
  <2>3. CASE i \in 1 .. LogMax - 1
    <3>1. /\ Around(n.Next + i - 1) = Around(l.Next + (i + 1) - 1)
          /\ Around(n.Next + i - 1) \in 0 .. LogMax - 1 /\ Around(n.Next + i - 1) # l.Next
      BY <1>1, <1>2, <2>3, Constants DEF Around
    <3>2. n.LogEntry[Around(n.Next + i - 1)] = l.LogEntry[Around(l.Next + (i + 1) - 1)]
      BY <1>1, <1>2, <3>1
    <3>3. Entries(l)[i + 1] = l.LogEntry[Around(l.Next + (i + 1) - 1)]
      BY <1>3, <2>3, EntriesType, Constants
    <3>4. Append(Tail(Entries(l)), e)[i] = Entries(l)[i + 1]
      BY <1>5, <2>3, Constants
    <3> QED
      BY <2>1, <3>2, <3>3, <3>4
  <2>4. i = LogMax \/ i \in 1 .. LogMax - 1
    BY Constants
  <2> QED
    BY <2>2, <2>3, <2>4, Zenon
<1>7. Append(Tail(Entries(l)), e) \in Seq(Events \cup {NoEvent}) /\ Len(Append(Tail(Entries(l)), e)) = LogMax
  BY <1>5, Constants
<1> QED
  BY <1>4, <1>6, <1>7, SeqEqual DEF n

\* What a step of the log must be.
LogStep == RingOK(log') /\ [Abstract!Next]_(Abstract!vars)

LEMMA AddImplements ==
  ASSUME RingOK(log), NEW e \in Events, log' = AddLog(log, e)
  PROVE  LogStep
<1>1. log.LogCount \in 0 .. LogMax /\ Len(Entries(log)) = log.LogCount
  BY EntriesType DEF RingOK, LogOK, Logs
<1>2. CASE ~Admits(log)
  <2>1. log' = log
    BY <1>2 DEF AddLog
  <2> QED
    BY <2>1 DEF LogStep, Abstract!vars
<1>3. CASE Admits(log)
  <2>1. RingOK(log') /\ log'.LogMode = log.LogMode
    BY <1>3, AddLogParts
  <2>2. CASE log.LogCount < LogMax
    <3>1. Entries(log') = Append(Entries(log), e)
      BY <1>3, <2>2, AddKeeps
    <3>2. Abstract!Keep(e)
      BY <1>1, <2>1, <2>2, <3>1 DEF Abstract!Keep
    <3> QED
      BY <2>1, <3>2 DEF LogStep, Abstract!Next
  <2>3. CASE log.LogCount = LogMax
    <3>1. Entries(log') = Append(Tail(Entries(log)), e)
      BY <1>3, <2>3, AddReplaces
    <3>2. log.LogMode = Overwrite
      BY <1>3, <2>3 DEF Admits, RingOK
    <3>3. Abstract!Replace(e)
      BY <1>1, <2>1, <2>3, <3>1, <3>2 DEF Abstract!Replace
    <3> QED
      BY <2>1, <3>3 DEF LogStep, Abstract!Next
  <2> QED
    BY <1>1, <2>2, <2>3, Constants
<1> QED
  BY <1>2, <1>3

\* Clearing leaves the mode; a power-on reset, and a reset that finds no log, do not.
LEMMA EmptyImplements ==
  ASSUME RingOK(log), NEW m \in {log.LogMode, DefaultMode}, log' = EmptyLog(m)
  PROVE  LogStep
<1>1. m \in Modes
  BY Constants DEF RingOK, LogOK, Logs
<1>2. RingOK(log') /\ Entries(log') = <<>> /\ log'.LogMode = m
  BY <1>1, EmptyLogEntries
<1> QED
  BY <1>2 DEF LogStep, Abstract!Next, Abstract!Clear, Abstract!PowerOn

LEMMA SetModeImplements ==
  ASSUME RingOK(log), NEW m \in Modes, log' = [log EXCEPT !.LogMode = m]
  PROVE  LogStep
<1>1. /\ log'.LogEntry = log.LogEntry /\ log'.Next = log.Next /\ log'.LogCount = log.LogCount
      /\ log'.LogFullFlag = log.LogFullFlag /\ log'.LogMode = m /\ log' \in Logs
  BY DEF RingOK, LogOK, Logs
<1>2. Entries(log') = Entries(log)
  BY <1>1 DEF Entries, First
<1>3. Abstract!SetMode(m)
  BY <1>1, <1>2 DEF Abstract!SetMode
<1> QED
  BY <1>1, <1>3 DEF LogStep, RingOK, LogOK, Abstract!Next

LEMMA UnchangedImplements ==
  ASSUME RingOK(log), log' = log
  PROVE  LogStep
BY DEF LogStep, Abstract!vars

LEMMA LogStepOfNext ==
  ASSUME IInv, RingOK(log), AnyMoment = FALSE, [Next]_vars
  PROVE  LogStep
<1>1. ASSUME NEW t \in Tasks, Calls(t)
      PROVE  LogStep
  <2>1. CASE LogEvent(t) \/ SendOwn(t)
    <3>1. call[t].event \in Events /\ Own \in Events
      BY Constants DEF IInv, TypeOK, Pending
    <3> QED
      BY <2>1, <3>1, AddImplements, UnchangedImplements DEF LogEvent, SendOwn
  <2>2. CASE ~(LogEvent(t) \/ SendOwn(t))
    <3>1. log' = log
      BY <1>1, <2>2 DEF Calls, RegisterBegin, RegisterEnd, RegisterRefused, SendNotRegistered, SendEvent,
                        Count, Squelch, ResetFilter, ResetAllFilters, ResetFilters
    <3> QED
      BY <3>1, UnchangedImplements
  <2> QED
    BY <2>1, <2>2
<1>2. ASSUME NEW a \in Apps, Commands(a) \/ CleanUpApp(a)
      PROVE  LogStep
  <2>1. log' = log
    BY <1>2 DEF Commands, CleanUpApp, GetApplicationInfo, ResetAllFiltersCmd, SetAppEvents, SetAppEventType,
                ResetFilterCmd, DeleteEventFilter, SetFilter, AddEventFilter, OnFilter, Apply
  <2> QED
    BY <2>1, UnchangedImplements
<1>3. CASE Ground
  <2>1. CASE ClearLogCmd
    BY <2>1, EmptyImplements DEF ClearLogCmd, ClearLog
  <2>2. ASSUME NEW m \in Modes, SetLogMode(m)
        PROVE  LogStep
    BY <2>2, SetModeImplements DEF SetLogMode
  <2>3. ASSUME \/ \E type \in Switched, on \in BOOLEAN : SetEventType(type, on)
               \/ WriteLogDataFile \/ ReportFile
        PROVE  LogStep
    BY <2>3, UnchangedImplements DEF SetEventType, WriteLogDataFile, ReportFile
  <2> QED
    BY <1>3, <2>1, <2>2, <2>3 DEF Ground
<1>4. CASE Tick \/ UNCHANGED vars
  BY <1>4, UnchangedImplements DEF Tick, vars
<1>5. CASE ProcessorReset
  <2>1. log' = Restored(log)
    BY <1>5 DEF ProcessorReset
  <2> QED
    BY <2>1, UnchangedImplements, EmptyImplements DEF Restored
<1>6. CASE PowerOnReset
  BY <1>6, EmptyImplements DEF PowerOnReset
<1> QED
  BY <1>1, <1>2, <1>3, <1>4, <1>5, <1>6 DEF Next

\* EVS_AddLog, EVS_ClearLog, CFE_EVS_SetLogModeCmd and CFE_EVS_EarlyInit: for any number
\* of entries, the ring keeps what a log promises, across resets that do not come in the
\* middle of a call.
THEOREM RingIsLog ==
  ASSUME AnyMoment = FALSE
  PROVE  Spec => LogKeeps
<1>1. Init => RingOK(log) /\ Abstract!Init
  BY EmptyLogEntries, Constants DEF Init, Abstract!Init
<1>2. IInv /\ RingOK(log) /\ [Next]_vars => RingOK(log)' /\ [Abstract!Next]_(Abstract!vars)
  BY LogStepOfNext DEF LogStep
<1> QED
  BY <1>1, <1>2, InductiveInvariant, PTL DEF Spec, LogKeeps, Abstract!Spec
=============================================================================
