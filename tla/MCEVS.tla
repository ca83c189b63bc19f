------------------------------- MODULE MCEVS -------------------------------
(* Instances of Event Services for TLC. *)
EXTENDS EVS, TLC

CONSTANTS A, B, a1, b1, e1

TwoApps  == (a1 :> A) @@ (b1 :> B) @@ (EvsTask :> Evs)
\* Both tasks send for A: as its child, or as a library does when B calls it.
BothForA == (a1 :> {A}) @@ (b1 :> {A}) @@ (EvsTask :> {})
OneApp   == (a1 :> A) @@ (b1 :> A) @@ (EvsTask :> Evs)
OneType  == [e \in Events |-> "INFORMATION"]
=============================================================================
