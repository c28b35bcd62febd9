----------------------------- MODULE MCTwoFactor -----------------------------
(* Instances of TwoFactor for TLC *)
EXTENDS TwoFactor, TLC

(* Challenges and calls are interchangeable *)
Symmetry == Permutations(Challenges) \cup Permutations(Calls)
=============================================================================
