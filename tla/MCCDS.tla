------------------------------- MODULE MCCDS -------------------------------
(* Instances of the Critical Data Store for TLC. *)
EXTENDS CDS

TwoBuckets == <<1, 2>>
=============================================================================
