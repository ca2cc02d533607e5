------------------------------- MODULE MCHistory -------------------------------
(* Small instances of History.                                               *)
EXTENDS History, TLC

MCSymmetry == Permutations(Inodes) \cup Permutations(Workers) \cup Permutations(Titles)
=============================================================================
