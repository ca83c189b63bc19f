------------------------------ MODULE MCTimeRef ------------------------------
(* Values for TLC: two fields, changed together or one alone. *)
EXTENDS TimeRef

CONSTANTS f1, f2
MCChanges == {{f1, f2}, {f1}}
==============================================================================
