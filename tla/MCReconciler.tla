---------------------------- MODULE MCReconciler ----------------------------
(* Small instances of Reconciler for TLC. *)
EXTENDS Reconciler, TLC

AllFaults == {"scope", "activities", "path", "db"}
NoFaults == {}

\* Passes, activities and drives are interchangeable.
Symm == Permutations(Passes) \cup Permutations(Activities) \cup Permutations(Drives)
=============================================================================
