------------------------------ MODULE EventLog ------------------------------
(***************************************************************************)
(* What the local event log of EVS promises: it keeps events in the order  *)
(* in which they were logged.  When it is full it gives up its oldest event *)
(* for a new one, or keeps what it has, as its mode says; and a reset of    *)
(* the processor changes nothing.                                           *)
(***************************************************************************)
EXTENDS Integers, Sequences

CONSTANTS Events, Capacity, Modes, Overwrite, DefaultMode

VARIABLES kept,   \* the events, oldest first
          mode

vars == <<kept, mode>>
Init == kept = <<>> /\ mode = DefaultMode

Keep(e) ==
  /\ Len(kept) < Capacity
  /\ kept' = Append(kept, e) /\ UNCHANGED mode
\* In the other mode an event that finds the log full is lost: a stutter.
Replace(e) ==
  /\ Len(kept) = Capacity /\ mode = Overwrite
  /\ kept' = Append(Tail(kept), e) /\ UNCHANGED mode
Clear      == kept' = <<>> /\ UNCHANGED mode
SetMode(m) == mode' = m /\ UNCHANGED kept
PowerOn    == kept' = <<>> /\ mode' = DefaultMode

Next == \/ \E e \in Events : Keep(e) \/ Replace(e)
        \/ Clear \/ (\E m \in Modes : SetMode(m)) \/ PowerOn
Spec == Init /\ [][Next]_vars
=============================================================================
