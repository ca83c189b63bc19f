------------------------------ MODULE MCIdMap -------------------------------
(* Small instances of the OSAL object map for TLC.                         *)
EXTENDS IdMap, TLC

CONSTANTS t1, t2, t3, n1, n2

\* Two tasks that make every call.
AllCalls == DOMAIN Mode \cup {"foreach"}
TwoAlike == [t \in {t1, t2} |-> AllCalls]
TwoEach  == t1 :> 2 @@ t2 :> 2

\* t1 makes the objects, t2 uses them, t3 deletes them; t1 and t2 may delete too.
Roles == t1 :> {"create", "foreach"} @@ t2 :> {"use", "translate", "find", "delete"}
         @@ t3 :> {"delete", "rmfs", "info"}
RoleCalls == t1 :> 3 @@ t2 :> 2 @@ t3 :> 1
=============================================================================
