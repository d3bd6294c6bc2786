---------------------------- MODULE MCSSEManager ----------------------------
(* Small instances of SSEManager for TLC. *)
EXTENDS SSEManager, TLC

AllFaults == {"list", "automation"}
NoFaults == {}

\* Users and goroutine slots are interchangeable.
Symm == Permutations(Users) \cup Permutations(Ids)
=============================================================================
