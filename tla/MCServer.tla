------------------------------ MODULE MCServer ------------------------------
EXTENDS Server, TLC
(* The two parts share Requests; Rows and Codes, Users and Accounts have   *)
(* the same members, so one set of permutations serves both.               *)
Symmetry == Permutations(Users) \cup Permutations(Requests) \cup Permutations(Rows)
=============================================================================
