------------------------------- MODULE EVSLog -------------------------------
(***************************************************************************)
(* The local event log of EVS: a ring of entries in the reset area, with   *)
(* the index of the next entry, the number of entries in use and a flag     *)
(* that says it is full.  The operators below are functions of the log, as  *)
(* cfe_evs_log.c computes them under the mutex of EVS; the telemetry        *)
(* counter of lost events is left out.                                      *)
(***************************************************************************)
EXTENDS Integers, Sequences

CONSTANTS
  Events,       \* what may be logged
  LogMax,       \* CFE_PLATFORM_EVS_LOG_MAX
  NoEvent,      \* an entry of zeros
  Overwrite, Discard,
  DefaultMode   \* CFE_PLATFORM_EVS_DEFAULT_LOG_MODE

ASSUME EVSLogAssumption ==
  LogMax \in Nat \ {0} /\ NoEvent \notin Events /\ Overwrite # Discard /\ DefaultMode \in {Overwrite, Discard}

Modes == {Overwrite, Discard}
\* Next reaches LogMax for the moment before it is set to 0.
Logs  == [Next : 0 .. LogMax, LogCount : 0 .. LogMax, LogFullFlag : BOOLEAN, LogMode : Modes,
          LogEntry : [0 .. LogMax - 1 -> Events \cup {NoEvent}]]

EmptyLog(mode) == [Next |-> 0, LogCount |-> 0, LogFullFlag |-> FALSE, LogMode |-> mode,
                   LogEntry |-> [i \in 0 .. LogMax - 1 |-> NoEvent]]

-----------------------------------------------------------------------------
(* EVS_AddLog: the log after each of its writes. *)

Admits(log) == ~log.LogFullFlag \/ log.LogMode = Overwrite
Stored(log, e) == [log EXCEPT !.LogEntry[log.Next] = e]
Advanced(log)  == [log EXCEPT !.Next = @ + 1]
Wrapped(log)   == IF log.Next >= LogMax THEN [log EXCEPT !.Next = 0] ELSE log
Counted(log)   == IF log.LogCount < LogMax THEN [log EXCEPT !.LogCount = @ + 1] ELSE log
\* The flag is looked at only by the call that raised the count.
Flagged(old, log) ==
  IF old.LogCount < LogMax /\ log.LogCount = LogMax THEN [log EXCEPT !.LogFullFlag = TRUE] ELSE log

AddLog(log, e) ==
  IF ~Admits(log) THEN log
  ELSE LET put == Wrapped(Advanced(Stored(log, e))) IN Flagged(put, Counted(put))
\* What a reset in the middle of AddLog leaves.
PartsOfAdd(log, e) ==
  IF ~Admits(log) THEN {log}
  ELSE LET next == Advanced(Stored(log, e))
       IN  {log, Stored(log, e), next, Wrapped(next), Counted(Wrapped(next))}

(* EVS_ClearLog, which leaves the mode *)

ClearLog(log) == EmptyLog(log.LogMode)

(* What CFE_EVS_WriteLogDataFileCmd writes: the entries in use from the oldest. *)

\* Mutant of First: the entries are written in the order of the array.
FirstOfArray(log) == 0
First(log)   == IF log.LogCount = LogMax THEN log.Next ELSE 0
Around(i)    == IF i >= LogMax THEN i - LogMax ELSE i
Entries(log) == [i \in 1 .. log.LogCount |-> log.LogEntry[Around(First(log) + i - 1)]]

(* CFE_EVS_EarlyInit *)

Believable(log) == log.LogMode \in Modes /\ log.LogFullFlag \in BOOLEAN /\ log.Next < LogMax
Restored(log)   == IF Believable(log) THEN log ELSE EmptyLog(DefaultMode)
=============================================================================
