---------------------------- MODULE MCAccountLinks -----------------------------
(* Addresses and handlers are interchangeable.                              *)
EXTENDS AccountLinks, TLC

Symmetry == Permutations(Mails) \cup Permutations(Workers)
=============================================================================
