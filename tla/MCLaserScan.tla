---------------------------- MODULE MCLaserScan -----------------------------
(* LaserScan with a small segment; handles and readers are interchangeable. *)
EXTENDS LaserScan, TLC

Symmetry == Permutations(Handles) \cup Permutations(Readers)
=============================================================================
