---------------------------- MODULE MCEpochCache ----------------------------
(* EpochCache for TLC.                                                     *)
EXTENDS EpochCache, TLC

(* Callers are interchangeable; sound for the safety runs only.            *)
CallerSymmetry == Permutations(Requests)
=============================================================================
