----------------------------- MODULE MCTwoFactor -----------------------------
EXTENDS TwoFactor, TLC
Symmetry == Permutations(Users) \cup Permutations(Tickets) \cup Permutations(Requests)
=============================================================================
