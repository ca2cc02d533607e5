------------------------------ MODULE MCAccounts -------------------------------
(* Addresses and handlers are interchangeable.                              *)
EXTENDS Accounts, TLC

Symmetry == Permutations(Mails) \cup Permutations(Workers)
=============================================================================
