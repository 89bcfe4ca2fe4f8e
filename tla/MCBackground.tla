---------------------------- MODULE MCBackground ----------------------------
(* DBBackground instantiated for TLC.                                      *)
EXTENDS DBBackground, TLC

(* Callers run the same code, and so do pool threads.  Used in the runs    *)
(* that check no liveness.                                                 *)
Symmetry == Permutations(Caller) \cup Permutations(Worker)

=============================================================================
