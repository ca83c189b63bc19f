------------------------------ MODULE CDSStore ------------------------------
(***************************************************************************)
(* What the Critical Data Store promises: each name keeps one image.  Only  *)
(* calls made for a name change what it keeps, an image that is copied is   *)
(* kept whole or lost, a reset of the processor changes nothing else, and   *)
(* a reset with the power off forgets everything.                           *)
(***************************************************************************)
CONSTANTS Names, Images,
          None,   \* the name is not registered
          Lost    \* it is, but a restore would report an error

VARIABLES kept,   \* what each name keeps
          copy    \* the copy that is being made: a name and an image

vars == <<kept, copy>>
Init == kept = [n \in Names |-> None] /\ copy = None

\* A name is registered: the memory it is given holds whatever it held before.
Register(n) ==
  /\ kept[n] \in {None, Lost} /\ copy = None /\ UNCHANGED copy
  /\ \E x \in Images \cup {Lost} : kept' = [kept EXCEPT ![n] = x]
\* The memory of a name is given back, to be deleted or to be taken in another size.
Release(n) == kept[n] # None /\ copy = None /\ kept' = [kept EXCEPT ![n] = Lost] /\ UNCHANGED copy
Delete(n)  == kept[n] = Lost /\ copy = None /\ kept' = [kept EXCEPT ![n] = None] /\ UNCHANGED copy
\* An image is copied: what was there may be lost before the new one is complete.
BeginCopy(n, x) ==
  /\ kept[n] # None /\ copy = None /\ copy' = <<n, x>>
  /\ \E y \in {x, Lost} : kept' = [kept EXCEPT ![n] = y]
EndCopy ==
  /\ copy # None /\ kept' = [kept EXCEPT ![copy[1]] = copy[2]] /\ copy' = None
Reset   == copy' = None /\ UNCHANGED kept
PowerOn == copy' = None /\ kept' = [n \in Names |-> None]

Next == \/ \E n \in Names : Register(n) \/ Release(n) \/ Delete(n) \/ (\E x \in Images : BeginCopy(n, x))
        \/ EndCopy \/ Reset \/ PowerOn
Spec == Init /\ [][Next]_vars
=============================================================================
