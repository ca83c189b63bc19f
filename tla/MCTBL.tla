------------------------------- MODULE MCTBL -------------------------------
(* Instances of Table Services for TLC: table t belongs to a, table u to b *)
(* or, where a is the only application, to a.                              *)
EXTENDS TBL, TLC

CONSTANTS a, b, t, u

OneTable  == t :> a
TwoTables == t :> a @@ u :> b
OwnedByA  == t :> a @@ u :> a
=============================================================================
