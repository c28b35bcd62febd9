------------------------------ MODULE MCAccounts ------------------------------
(* Instances of Accounts for TLC *)
EXTENDS Accounts, TLC

(* Names and ids are interchangeable; created orders the devices *)
Symmetry ==
  Permutations(Users) \cup Permutations(Invitations)
    \cup Permutations(Calls) \cup Permutations(Old)
=============================================================================
