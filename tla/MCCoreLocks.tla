---------------------------- MODULE MCCoreLocks ----------------------------
(* CoreLocks is finite as it stands.                                       *)
EXTENDS CoreLocks

============================================================================
