---------------------------- MODULE MCAutomation ----------------------------
(* Small instances of Automation for TLC. *)
EXTENDS Automation, TLC

AllFaults == {"mint", "store", "revoke", "delete", "list", "restart", "newkey"}
NoFaults == {}

\* Users, tokens and requests are interchangeable.
Symm == Permutations(Users) \cup Permutations(Tokens) \cup Permutations(Requests)
=============================================================================
