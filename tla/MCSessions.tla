----------------------------- MODULE MCSessions -----------------------------
(* Sessions for TLC.                                                       *)
EXTENDS Sessions, TLC

(* Rows and requests are interchangeable; sound for the safety runs only.  *)
SessionSymmetry == Permutations(Tokens) \cup Permutations(Requests)
=============================================================================
