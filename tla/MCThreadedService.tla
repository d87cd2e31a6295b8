------------------------- MODULE MCThreadedService --------------------------
(* ThreadedService with a few callers.                                     *)
EXTENDS ThreadedService
=============================================================================
