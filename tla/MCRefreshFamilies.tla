------------------------- MODULE MCRefreshFamilies -------------------------
(* RefreshFamilies for TLC.                                                *)
EXTENDS RefreshFamilies, TLC

(* Rows and requests are interchangeable; sound for the safety runs only.  *)
RowSymmetry == Permutations(Tokens) \cup Permutations(Requests)
=============================================================================
