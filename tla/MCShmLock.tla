----------------------------- MODULE MCShmLock ------------------------------
(* ShmLock with a few processes.  They are not declared interchangeable,   *)
(* as the same module checks liveness.                                     *)
EXTENDS ShmLock
=============================================================================
