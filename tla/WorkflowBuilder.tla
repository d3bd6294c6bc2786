--------------------------- MODULE WorkflowBuilder ---------------------------
(***************************************************************************)
(* The page that edits a workflow (frontend views/WorkflowBuilder.vue): it *)
(* loads the definition while the user may already add nodes, it numbers   *)
(* the nodes it adds itself, and Save awaits up to three calls of which it *)
(* builds the last from what the page shows by then.  Edges, names and     *)
(* positions are left out, and so is the library that draws the canvas.    *)
(***************************************************************************)
EXTENDS Naturals, FiniteSets

CONSTANTS
    Kinds,      \* the kinds of node besides the trigger
    MaxNodes,   \* bound: the nodes added in a behaviour
    MaxPages,   \* bound: how often the page is opened
    None

ASSUME BoundAssumption == MaxNodes \in Nat /\ MaxPages \in Nat \ {0}
ASSUME KindAssumption == "trigger" \notin Kinds

\* kind and n are the id, as in llm-1; card tells apart nodes with one id, and
\* page says at which opening of the page the node was added.
Node == [kind : Kinds \cup {"trigger"}, n : 0 .. MaxNodes,
         card : 1 .. MaxNodes, page : 1 .. MaxPages]
Id(x) == <<x.kind, x.n>>

\* wants: enabled, with a trigger of type schedule or event if there is one.
Definition == [nodes : SUBSET Node, wants : BOOLEAN]
ASSUME NullAssumption == None \notin Definition
Automated(d) == d.wants /\ \E x \in d.nodes : x.kind = "trigger"

VARIABLES
    stored,     \* the definition the backend has, or None
    connected,  \* the backend holds a credential for the user
    isNew,      \* the page's route is that of a new workflow
    page,       \* how often it has been opened
    load,       \* "pending", "done" or "failed"
    nodes, wants, counter,
    picker,     \* "closed", or what it was opened for: "trigger", "others"
    save,       \* what Save awaits: "idle", "status", "connect", "sent"
    payload,    \* the definition sent, while it is
    early,      \* ghost: this page was saved without having loaded
    made,       \* ghost: the nodes added so far, on any page
    removed,    \* ghost: the cards the user deleted
    dropped     \* ghost: the credential went away since Save was clicked

backend == <<stored, connected>>
canvas == <<nodes, wants, counter, made, removed>>
saving == <<save, payload, early, dropped>>
route == <<isNew, page, load>>
builder == <<route, canvas, picker, saving>>

BuilderInit ==
    /\ stored = None
    /\ connected \in BOOLEAN
    /\ isNew = TRUE
    /\ page = 0
    /\ load = "done"
    /\ nodes = {}
    /\ wants = TRUE
    /\ counter = 0
    /\ picker = "closed"
    /\ save = "idle"
    /\ payload = None
    /\ early = FALSE
    /\ made = 0
    /\ removed = {}
    /\ dropped = FALSE

-----------------------------------------------------------------------------
(* Opening and loading. *)

\* What a page that is opened, or left, keeps of the canvas and of Save: nothing.
Blank ==
    /\ nodes' = {} /\ wants' = TRUE /\ counter' = 0
    /\ picker' = "closed"
    /\ save' = "idle" /\ payload' = None
    /\ early' = FALSE /\ dropped' = FALSE
    /\ UNCHANGED <<made, removed>>

\* From the list, by a reload, or by the navigation after a creation.
Open ==
    /\ page < MaxPages
    /\ page' = page + 1
    /\ isNew' = (stored = None)
    /\ load' = IF stored = None THEN "done" ELSE "pending"
    /\ Blank
    /\ UNCHANGED backend

\* Mutant: the definition does not replace what the user has added by then.
LoadedUnlessEdited == IF nodes = {} THEN stored.nodes ELSE nodes
Loaded == stored.nodes

\* The answer replaces what the user did in the meantime.
Load ==
    /\ load = "pending"
    /\ \/ /\ stored # None
          /\ load' = "done"
          /\ nodes' = Loaded
          /\ wants' = stored.wants
       \/ load' = "failed" /\ UNCHANGED <<nodes, wants>>
    /\ UNCHANGED <<backend, isNew, page, counter, picker, made, removed, saving>>

-----------------------------------------------------------------------------
(* Editing. *)

HasTrigger == \E x \in nodes : x.kind = "trigger"

\* What the picker offers is settled as it opens.
OpenPicker ==
    /\ picker = "closed"
    /\ picker' = IF HasTrigger THEN "others" ELSE "trigger"
    /\ UNCHANGED <<backend, route, canvas, saving>>

\* Mutant: numbered after the nodes on the canvas.
NextNumberCount == Cardinality(nodes) + 1
NextNumber == counter + 1

OnPickNodeType(kind) ==
    /\ picker # "closed"
    /\ (kind = "trigger") = (picker = "trigger")
    /\ made < MaxNodes
    /\ picker' = "closed"
    /\ made' = made + 1
    /\ LET n == IF kind = "trigger" THEN 0 ELSE NextNumber IN
       /\ counter' = IF kind = "trigger" THEN counter ELSE n
       /\ nodes' = nodes \cup {[kind |-> kind, n |-> n, card |-> made + 1, page |-> page]}
    /\ UNCHANGED <<backend, route, wants, removed, saving>>

\* The canvas deletes by id.
DeleteNode(x) ==
    /\ x \in nodes
    /\ nodes' = {y \in nodes : Id(y) # Id(x)}
    /\ removed' = removed \cup {y.card : y \in nodes \ nodes'}
    /\ UNCHANGED <<backend, route, wants, counter, picker, made, saving>>

\* The Active checkbox, or the trigger's type.
Toggle ==
    /\ wants' = ~wants
    /\ UNCHANGED <<backend, route, nodes, counter, picker, made, removed, saving>>

-----------------------------------------------------------------------------
(* Saving.  The button is disabled meanwhile, the rest of the page is not.   *)

Shown == [nodes |-> nodes, wants |-> wants]
NeedsAutomation == Automated(Shown)

\* The payload is what the page shows as the last call before it is answered.
Send ==
    /\ save' = "sent"
    /\ payload' = Shown
    /\ early' = (early \/ load # "done")
    /\ UNCHANGED dropped
Await(call) == save' = call /\ UNCHANGED <<payload, early, dropped>>

\* Save is over, well or with an error shown: the button is enabled again.
Finish == save' = "idle" /\ payload' = None /\ dropped' = FALSE /\ UNCHANGED early

SaveClick ==
    /\ save = "idle"
    /\ IF NeedsAutomation THEN Await("status") ELSE Send
    /\ UNCHANGED <<backend, route, canvas, picker>>

\* Mutant: not being connected is left to the list.
StatusTaken == Send
StatusAnswered == IF connected THEN Send ELSE Await("connect")

AwaitStatus ==
    /\ save = "status"
    /\ StatusAnswered \/ Finish
    /\ UNCHANGED <<backend, route, canvas, picker>>

\* The call may fail, also after it has taken effect.
AwaitConnect ==
    /\ save = "connect"
    /\ \/ connected' = TRUE /\ (Send \/ Finish)
       \/ UNCHANGED connected /\ Finish
    /\ UNCHANGED <<stored, route, canvas, picker>>

\* POST on a new workflow's page, PATCH on another's: that fails where the
\* workflow has been deleted.  After a creation the page is left (Open), but until
\* then Save works again: it creates another workflow, which is not followed here.
Persist ==
    IF isNew THEN stored' = IF stored = None THEN payload ELSE stored
    ELSE stored # None /\ stored' = payload

\* The workflow is stored, and the answer to that may be lost; or the call fails.
AwaitPersist ==
    /\ save = "sent"
    /\ Persist \/ UNCHANGED stored
    /\ Finish
    /\ UNCHANGED <<connected, route, canvas, picker>>

BuilderNext ==
    \/ Open \/ Load \/ OpenPicker \/ Toggle
    \/ \E k \in Kinds \cup {"trigger"} : OnPickNodeType(k)
    \/ \E x \in nodes : DeleteNode(x)
    \/ SaveClick \/ AwaitStatus \/ AwaitConnect \/ AwaitPersist

-----------------------------------------------------------------------------
(* Properties. *)

BuilderTypeOK ==
    /\ stored \in Definition \cup {None}
    /\ connected \in BOOLEAN
    /\ isNew \in BOOLEAN
    /\ page \in 0 .. MaxPages
    /\ load \in {"pending", "done", "failed"}
    /\ nodes \subseteq Node
    /\ wants \in BOOLEAN
    /\ counter \in 0 .. MaxNodes
    /\ picker \in {"closed", "trigger", "others"}
    /\ save \in {"idle", "status", "connect", "sent"}
    /\ payload \in Definition \cup {None}
    /\ made \in 0 .. MaxNodes
    /\ removed \subseteq 1 .. MaxNodes
    /\ early \in BOOLEAN /\ dropped \in BOOLEAN

\* The executor keeps one node of each id (executor.go:123-126).  Two numbered nodes
\* with one id come from two openings of the page, each with a counter of its own
\* (WorkflowBuilder.vue:204), whatever was added, deleted, loaded and saved between.
TwinsFromTwoPages ==
    stored # None => \A x, y \in stored.nodes :
        Id(x) = Id(y) /\ x.kind # "trigger" /\ x.page = y.page => x = y

\* "showing success before the real action is durable would let a user navigate
\* away and lose unsaved work" (useAutomationConnect.ts:9-11): no node is lost
\* from the store but by a deletion, or by a page saved without having loaded
\* (WorkflowBuilder.vue:177-191, 292-305).
NothingOverwritten ==
    [][(stored # None /\ stored' # None) =>
        \A x \in stored.nodes :
            x \in stored'.nodes \/ x.card \in removed \/ early]_<<backend, builder>>

\* needsAutomation (WorkflowBuilder.vue:264-290): a workflow that is to run by itself
\* is sent only with a credential in place, unless that went away since Save was
\* clicked, however the user edits the page while the calls before are awaited.
SavedIsServed ==
    (save = "sent" /\ Automated(payload)) => connected \/ dropped
=============================================================================
