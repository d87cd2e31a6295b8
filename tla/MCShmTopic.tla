----------------------------- MODULE MCShmTopic -----------------------------
(* ShmTopic with a small segment; handles and readers are interchangeable. *)
EXTENDS ShmTopic, TLC

Symmetry == Permutations(Handles) \cup Permutations(Readers)
=============================================================================
