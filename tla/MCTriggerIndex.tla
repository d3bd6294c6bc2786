--------------------------- MODULE MCTriggerIndex ---------------------------
(* Small instances of TriggerIndex for TLC. *)
EXTENDS TriggerIndex, TLC

CONSTANTS manual, nightly, upload

Few == {manual, nightly, upload}
FewKinds == (manual :> "manual") @@ (nightly :> "schedule") @@ (upload :> "event")

AllFaults == {"store", "me", "index", "list", "crash"}
NoFaults == {}

\* Requests and workflows are interchangeable.
Symm == Permutations(Requests) \cup Permutations(Workflows)
=============================================================================
