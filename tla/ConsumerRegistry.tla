--------------------------- MODULE ConsumerRegistry ---------------------------
(***************************************************************************)
(* What the SSE consumer manager (src/backend/pkg/sse/manager.go) promises *)
(* to the rest of the program, without goroutines, ids, cancel functions   *)
(* or channels: a set of users that are served.  A pass makes it the set   *)
(* of users it listed, in one step; a user who has started being served    *)
(* stays so until a pass drops him or the process shuts down; and what is  *)
(* dropped may linger, but never comes back.  SSEManager implements it.    *)
(***************************************************************************)
CONSTANT Users

VARIABLES
    triggers,   \* users with an event trigger
    connected,  \* users with a stored credential
    pass,       \* the reconcile loop: "idle", "listed" (a pass is under way), "over"
    listed,     \* the users that pass listed
    phase,      \* what each user's consumer is doing
    lingering,  \* users with a consumer that was dropped and has yet to return
    shutdown    \* the process context is done

vars == <<triggers, connected, pass, listed, phase, lingering, shutdown>>

Phases == {"off", "starting", "serving"}

Served == {u \in Users : phase[u] # "off"}

Init ==
    /\ triggers \in SUBSET Users
    /\ connected \in SUBSET Users
    /\ pass = "idle"
    /\ listed = {}
    /\ phase = [u \in Users |-> "off"]
    /\ lingering = {}
    /\ shutdown = FALSE

\* Triggers and credentials come and go while the process runs.
Change ==
    /\ ~shutdown
    /\ triggers' \in SUBSET Users
    /\ connected' \in SUBSET Users
    /\ UNCHANGED <<pass, listed, phase, lingering, shutdown>>

Shutdown ==
    /\ shutdown' = TRUE
    /\ UNCHANGED <<triggers, connected, pass, listed, phase, lingering>>

List ==
    /\ pass = "idle"
    /\ pass' = "listed"
    /\ listed' = triggers
    /\ UNCHANGED <<triggers, connected, phase, lingering, shutdown>>

\* Whoever is listed and not served starts, whoever is served and not listed is
\* dropped, everybody else is left alone.  After the shutdown some who returned
\* by themselves are still taken for served.
Apply ==
    /\ pass = "listed"
    /\ \E missing \in SUBSET (listed \ Served) :
        /\ ~shutdown => missing = listed \ Served
        /\ phase' = [u \in Users |->
                       IF u \in missing THEN "starting"
                       ELSE IF u \in listed THEN phase[u] ELSE "off"]
    /\ lingering' = lingering \cup (Served \ listed)
    /\ listed' = {}
    /\ pass' = "idle"
    /\ UNCHANGED <<triggers, connected, shutdown>>

\* The loop ends with the process and drops everybody.
StopAll ==
    /\ shutdown
    /\ pass = "idle"
    /\ pass' = "over"
    /\ phase' = [u \in Users |-> "off"]
    /\ lingering' = lingering \cup Served
    /\ UNCHANGED <<triggers, connected, listed, shutdown>>

\* Serving begins with the credential of a user who is connected at the moment.
Found(u) ==
    /\ phase[u] = "starting"
    /\ u \in connected
    /\ phase' = [phase EXCEPT ![u] = "serving"]
    /\ UNCHANGED <<triggers, connected, pass, listed, lingering, shutdown>>

\* A consumer that finds no credential gives up, for a later pass to retry ...
GiveUp(u) ==
    /\ phase[u] = "starting"
    /\ phase' = [phase EXCEPT ![u] = "off"]
    /\ UNCHANGED <<triggers, connected, pass, listed, lingering, shutdown>>

\* ... but one that serves returns by itself only when the process shuts down.
Return(u) ==
    /\ shutdown
    /\ phase[u] = "serving"
    /\ phase' = [phase EXCEPT ![u] = "off"]
    /\ UNCHANGED <<triggers, connected, pass, listed, lingering, shutdown>>

Leave(u) ==
    /\ lingering' = lingering \ {u}
    /\ UNCHANGED <<triggers, connected, pass, listed, phase, shutdown>>

Next ==
    \/ Change \/ Shutdown \/ List \/ Apply \/ StopAll
    \/ \E u \in Users : Found(u) \/ GiveUp(u) \/ Return(u) \/ Leave(u)

Spec == Init /\ [][Next]_vars
=============================================================================
