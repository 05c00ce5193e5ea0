------------------------------- MODULE MCQueue -------------------------------
(* Two actions and two processes; both sets are symmetric.                 *)
EXTENDS ConfirmationQueue, TLC

Symmetry == Permutations(Actions) \union Permutations(Procs)
=============================================================================
