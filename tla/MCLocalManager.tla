--------------------------- MODULE MCLocalManager ---------------------------
(* Model-checking instance of LocalManager. *)
EXTENDS LocalManager, TLC

\* Callers and child structs are interchangeable (used by the safety runs only).
Symm == Permutations(Callers) \cup Permutations(Procs)
=============================================================================
