------------------------------- MODULE MCReports -------------------------------
(* Small instances of Reports.                                               *)
EXTENDS Reports, TLC

MCSymmetry == Permutations(Pids) \cup Permutations(Senders)
=============================================================================
