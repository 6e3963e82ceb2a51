---------------------------- MODULE MCLifecycle ----------------------------
(* Model-checking instance of Lifecycle. *)
EXTENDS Lifecycle, TLC

\* Handlers are interchangeable (used by the safety runs only).
Symm == Permutations(Clients)
=============================================================================
