---------------------------- MODULE WorkflowList ----------------------------
(***************************************************************************)
(* The page that lists the workflows, with the panel that disconnects      *)
(* automation (frontend views/WorkflowList.vue, AutomationPanel.vue), and  *)
(* the builder's page, which the user goes to and back from; another tab   *)
(* changes the credential and deletes the workflow meanwhile.  The list    *)
(* reconnects by itself as it is mounted.                                  *)
(***************************************************************************)
EXTENDS WorkflowBuilder

VARIABLES
    at,         \* the page that is open, "list" or "builder"
    workflows,  \* what it shows: "none", or one that is "manual" or "automated"
    loading,    \* "mount" or "again" while it loads them, then "done" or "failed"
    status,     \* of the credential: "loading", "done", "failed"
    shown,      \* automationConnected
    mount,      \* "loading", "connecting", "done"
    panel,      \* "closed", "open", "confirming", "disconnecting"
    orphan,     \* a panel was closed while its disconnection was under way
    apart       \* ghost: the credential came or went without this page being told

reads == <<workflows, loading, status>>
list == <<reads, shown, mount, panel, orphan, apart>>
vars == <<at, backend, builder, list>>

Init ==
    /\ BuilderInit
    /\ at = "list"
    /\ workflows = "none" /\ loading = "mount" /\ status = "loading"
    /\ shown = FALSE
    /\ mount = "loading"
    /\ panel = "closed" /\ orphan = FALSE
    /\ apart = FALSE

Unmounted ==
    /\ workflows' = "none" /\ loading' = "mount" /\ status' = "loading"
    /\ shown' = FALSE
    /\ mount' = "loading"
    /\ panel' = "closed" /\ orphan' = FALSE
    /\ apart' = FALSE

\* Back to workflows: what Save awaits is given up.
OpenList ==
    /\ at = "builder" /\ at' = "list"
    /\ Blank
    /\ Unmounted
    /\ UNCHANGED <<backend, route>>

\* A row's link, or Add workflow.
OpenBuilder ==
    /\ at = "list" /\ at' = "builder"
    /\ Open
    /\ Unmounted

-----------------------------------------------------------------------------
(* Mounting: two reads at once, then reconcileAutomation. *)

\* A failure leaves what was loaded before, and hides it.
LoadWorkflows ==
    /\ loading \in {"mount", "again"}
    /\ \/ /\ loading' = "done"
          /\ workflows' = IF stored = None THEN "none"
                          ELSE IF Automated(stored) THEN "automated" ELSE "manual"
       \/ loading' = "failed" /\ UNCHANGED workflows
    /\ UNCHANGED <<backend, builder, status, shown, mount, panel, orphan, apart>>

LoadAutomationStatus ==
    /\ status = "loading"
    /\ \/ status' = "done" /\ shown' = connected /\ apart' = FALSE
       \/ status' = "failed" /\ UNCHANGED <<shown, apart>>
    /\ UNCHANGED <<backend, builder, workflows, loading, mount, panel, orphan>>

\* A list that loads again by now is not waited for.
ReconcileAutomation ==
    /\ mount = "loading"
    /\ loading # "mount" /\ status # "loading"
    /\ mount' = IF shown \/ workflows # "automated" THEN "done" ELSE "connecting"
    /\ UNCHANGED <<backend, builder, reads, shown, panel, orphan, apart>>

\* Either call may fail, also after it has taken effect.
AwaitReconnect ==
    /\ mount = "connecting"
    /\ mount' = "done"
    /\ \/ connected' = TRUE /\ shown' = TRUE /\ apart' = FALSE
       \/ connected' = TRUE /\ apart' = TRUE /\ UNCHANGED shown
       \/ UNCHANGED <<connected, shown, apart>>
    /\ UNCHANGED <<stored, builder, reads, panel, orphan>>

-----------------------------------------------------------------------------
(* The panel, which only a page that shows "active" opens. *)

OpenPanel ==
    /\ shown /\ panel = "closed"
    /\ panel' = "open"
    /\ UNCHANGED <<backend, builder, reads, shown, mount, orphan, apart>>

\* It closes at any time; a component that is gone is not heard any more.
ClosePanel ==
    /\ panel # "closed"
    /\ panel' = "closed"
    /\ orphan' = (orphan \/ panel = "disconnecting")
    /\ UNCHANGED <<backend, builder, reads, shown, mount, apart>>

OnDisconnectClick ==
    /\ \/ panel = "open" /\ panel' = IF workflows = "automated" THEN "confirming" ELSE "disconnecting"
       \/ panel = "confirming" /\ panel' \in {"open", "disconnecting"}
    /\ UNCHANGED <<backend, builder, reads, shown, mount, orphan, apart>>

\* Mutant: the panel closes, and the page goes on showing what it did.
DisconnectedUntold == panel' = "closed" /\ UNCHANGED shown
\* Mutant: the panel stays, with its Disconnect button.
DisconnectedOpen == panel' = "open" /\ shown' = FALSE
OnAutomationDisconnected == panel' = "closed" /\ shown' = FALSE

AwaitDisconnect ==
    /\ panel = "disconnecting"
    /\ \/ connected' = FALSE /\ apart' = FALSE /\ OnAutomationDisconnected
       \/ connected' = FALSE /\ apart' = TRUE /\ panel' = "open" /\ UNCHANGED shown
       \/ panel' = "open" /\ UNCHANGED <<connected, shown, apart>>
    /\ UNCHANGED <<stored, builder, reads, mount, orphan>>

AwaitOrphan ==
    /\ orphan
    /\ orphan' = FALSE
    /\ \/ connected' = FALSE /\ apart' = TRUE
       \/ UNCHANGED <<connected, apart>>
    /\ UNCHANGED <<stored, builder, reads, shown, mount, panel>>

\* remove: the workflow, if it is still there, and then the list again.
Remove ==
    /\ loading = "done" /\ workflows # "none"
    /\ stored # None
    /\ stored' = None
    /\ loading' \in {"again", "done"}
    /\ UNCHANGED <<connected, builder, workflows, status, shown, mount, panel, orphan, apart>>

-----------------------------------------------------------------------------
ListStep ==
    /\ at = "list" /\ UNCHANGED at
    /\ \/ LoadWorkflows \/ LoadAutomationStatus
       \/ ReconcileAutomation \/ AwaitReconnect
       \/ OpenPanel \/ ClosePanel \/ OnDisconnectClick \/ AwaitDisconnect \/ AwaitOrphan
       \/ Remove

BuilderStep == at = "builder" /\ BuilderNext /\ UNCHANGED <<at, list>>

\* Another tab; neither page is told.
Elsewhere ==
    /\ \/ connected' = ~connected /\ UNCHANGED stored
       \/ stored # None /\ stored' = None /\ UNCHANGED connected
    /\ dropped' = (dropped \/ (connected # connected' /\ connected /\ save # "idle"))
    /\ apart' = (apart \/ (connected # connected' /\ at = "list"))
    /\ UNCHANGED <<at, route, canvas, picker, save, payload, early,
                   reads, shown, mount, panel, orphan>>

Next == ListStep \/ BuilderStep \/ OpenList \/ OpenBuilder \/ Elsewhere
Spec == Init /\ [][Next]_vars

-----------------------------------------------------------------------------
(* Properties. *)

\* The type invariant of both pages; the panel is over a page that shows a credential
\* to disconnect (WorkflowList.vue:138-142).
TypeOK ==
    /\ BuilderTypeOK
    /\ at \in {"list", "builder"}
    /\ workflows \in {"none", "manual", "automated"}
    /\ loading \in {"mount", "again", "done", "failed"}
    /\ status \in {"loading", "done", "failed"}
    /\ shown \in BOOLEAN
    /\ mount \in {"loading", "connecting", "done"}
    /\ panel \in {"closed", "open", "confirming", "disconnecting"}
    /\ panel # "closed" => shown
    /\ orphan \in BOOLEAN /\ apart \in BOOLEAN

\* "Background execution active" (WorkflowList.vue:6-14) is shown exactly while
\* there is a credential: through the reads of the mount, the reconnection and a
\* disconnection in whatever order they are answered, unless the status could not
\* be read, an answer was lost or had no panel to go to any more, or another tab
\* did something.
ShownIsTrue ==
    (status # "loading" /\ ~apart /\ (status = "failed" => shown)) => shown = connected
=============================================================================
