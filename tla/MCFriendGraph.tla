----------------------------- MODULE MCFriendGraph -----------------------------
(* Small instances of FriendGraph.  PIDs are compared, never ordered, and   *)
(* every instance takes all or none of them as Fans: any permutation of     *)
(* them is a symmetry.                                                      *)
EXTENDS FriendGraph, TLC

Symmetry == Permutations(Pids)
=============================================================================
