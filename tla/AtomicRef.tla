------------------------------ MODULE AtomicRef ------------------------------
(***************************************************************************)
(* What the time reference promises its readers: one value, replaced as a  *)
(* whole by each update, and reads that return the value it had at some    *)
(* moment of the call, or say that they failed.                            *)
(***************************************************************************)
CONSTANTS Readers, Values, Failed

VARIABLES
  ref,      \* the value
  reading,  \* the readers inside a call
  seen,     \* the value each of them met last
  result    \* what the last call of each returned

vars == <<ref, reading, seen, result>>

TypeOK ==
  /\ ref \in Values
  /\ reading \subseteq Readers
  /\ seen \in [Readers -> Values]
  /\ result \in [Readers -> Values \cup {Failed}]

Init ==
  /\ ref \in Values
  /\ reading = {}
  /\ seen \in [Readers -> Values]
  /\ result = [r \in Readers |-> Failed]

Update(v) ==
  /\ ref' = v
  /\ UNCHANGED <<reading, seen, result>>

Begin(r) ==
  /\ r \notin reading
  /\ reading' = reading \cup {r}
  /\ UNCHANGED <<ref, seen, result>>

Look(r) ==
  /\ r \in reading
  /\ seen' = [seen EXCEPT ![r] = ref]
  /\ UNCHANGED <<ref, reading, result>>

Return(r, v) ==
  /\ r \in reading
  /\ v \in {seen[r], Failed}
  /\ reading' = reading \ {r}
  /\ result' = [result EXCEPT ![r] = v]
  /\ UNCHANGED <<ref, seen>>

Next ==
  \/ \E v \in Values : Update(v)
  \/ \E r \in Readers : Begin(r) \/ Look(r) \/ \E v \in Values \cup {Failed} : Return(r, v)

Spec == Init /\ [][Next]_vars
==============================================================================
