---------------------------- MODULE MCScheduler ----------------------------
(* Small instances of Scheduler for TLC. *)
EXTENDS Scheduler, TLC

CONSTANTS early, late, garbled

\* Two valid expressions with a shared instant, and one that does not parse.
Expressions == {early, late, garbled}
Instants == (early :> {1, 2}) @@ (late :> {2, 3})

AllFaults == {"list", "automation", "load"}
NoFaults == {}
=============================================================================
