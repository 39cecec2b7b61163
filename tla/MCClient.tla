------------------------------ MODULE MCClient ------------------------------
EXTENDS Client, TLC
(* Accounts has the members of Users, Secrets those of Vaults and Phrases  *)
(* those of Tabs, so that fewer permutations serve all parts.              *)
Symmetry == Permutations(Tabs) \cup Permutations(Users) \cup Permutations(Vaults)
            \cup Permutations(Passwords)
=============================================================================
