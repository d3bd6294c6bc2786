---------------------------- MODULE TriggerIndex ----------------------------
(***************************************************************************)
(* The workflow API (src/backend/pkg/service/workflows.go): a definition   *)
(* is a file in its owner's oCIS space, and the local trigger_index table  *)
(* repeats what the background loops need of it.  Every request is a       *)
(* goroutine of its own that first changes the file, then the index, then  *)
(* wakes the SSE manager; requests interleave, calls fail, and the process *)
(* may die between any two calls.                                          *)
(***************************************************************************)
EXTENDS FiniteSets

CONSTANTS
    Users,
    Workflows,      \* the ids uuid.NewString hands out
    Requests,       \* goroutine slots for requests, no more run at once
    Triggers,       \* the triggers a definition may have
    KindOf,         \* the type of each: "manual", "schedule" or "event"
    Manual,         \* the trigger of a definition created without one
    Faults,         \* what may fail: "store", "me", "index", "list", or a "crash"
    None

Kinds == {"manual", "schedule", "event"}

ASSUME TriggerAssumption ==
    /\ KindOf \in [Triggers -> Kinds]
    /\ Manual \in Triggers /\ KindOf[Manual] = "manual"

VARIABLES
    owner,      \* in whose space each definition lives, None for an unused id
    file,       \* the stored definitions
    index,      \* the trigger_index rows
    req,        \* the requests in flight
    kick,       \* the manager's kick channel holds a value (or its Start is ahead)
    watched,    \* users the SSE manager found event triggers for
    behind,     \* the manager's last look at the index failed
    stored,     \* ghost: the definitions each file has held
    synced      \* ghost: workflows whose last request ran alone and unharmed

dataVars == <<owner, file, index>>
managerVars == <<kick, watched, behind>>
vars == <<owner, file, index, req, kick, watched, behind, stored, synced>>

Definition == [enabled : BOOLEAN, trigger : Triggers]
Patch == [enabled : BOOLEAN \cup {None}, trigger : Triggers \cup {None}]
Row == [user : Users, trigger : Triggers]

ASSUME NoneAssumption ==
    /\ None \notin Users \cup Workflows \cup Triggers \cup BOOLEAN
    /\ None \notin Definition \cup Row

NoPatch == [enabled |-> None, trigger |-> None]
Blank == [enabled |-> FALSE, trigger |-> Manual]

Free == [at |-> "none", wf |-> None, def |-> Blank, patch |-> NoPatch, alone |-> FALSE]

Init ==
    /\ owner = [w \in Workflows |-> None]
    /\ file = [w \in Workflows |-> None]
    /\ index = [w \in Workflows |-> None]
    /\ req = [r \in Requests |-> Free]
    /\ kick = TRUE
    /\ watched = {}
    /\ behind = FALSE
    /\ stored = [w \in Workflows |-> {}]
    /\ synced = {}

-----------------------------------------------------------------------------
(* A request's life. *)

InFlight(w) == {r \in Requests : req[r].wf = w}

\* A request on w starts: from here no request on w has it to itself unless it
\* is the only one.
Begin(r, w, stage, patch, def) ==
    /\ req[r] = Free
    /\ req' = [q \in Requests |->
         IF q = r THEN [at |-> stage, wf |-> w, def |-> def, patch |-> patch,
                        alone |-> InFlight(w) = {}]
         ELSE IF req[q].wf = w THEN [req[q] EXCEPT !.alone = FALSE] ELSE req[q]]
    /\ synced' = synced \ {w}

Goto(r, stage) == req' = [req EXCEPT ![r].at = stage]

\* The handler returns after a call failed or there was nothing to change.
GiveUp(r) == req' = [req EXCEPT ![r] = Free] /\ UNCHANGED synced

\* The handler returns with everything done.
Done(r) ==
    /\ req' = [req EXCEPT ![r] = Free]
    /\ synced' = IF req[r].alone THEN synced \cup {req[r].wf} ELSE synced

\* Mutant: absent fields overwrite.
MergeAbsent(def, patch) ==
    [enabled |-> patch.enabled,
     trigger |-> IF patch.trigger = None THEN def.trigger ELSE patch.trigger]
\* What a definition becomes with the fields the request's body names.
Merge(def, patch) ==
    [enabled |-> IF patch.enabled = None THEN def.enabled ELSE patch.enabled,
     trigger |-> IF patch.trigger = None THEN def.trigger ELSE patch.trigger]

Write(w, def) ==
    /\ file' = [file EXCEPT ![w] = def]
    /\ stored' = [stored EXCEPT ![w] = @ \cup {def}]

-----------------------------------------------------------------------------
(* Create, Patch, Delete. *)

Create(r, u, w, patch) ==
    /\ owner[w] = None
    /\ Begin(r, w, "put", NoPatch, Merge(Blank, patch))
    /\ owner' = [owner EXCEPT ![w] = u]
    /\ UNCHANGED <<file, index, managerVars, stored>>

PatchBegin(r, w, patch) ==
    /\ owner[w] # None
    /\ Begin(r, w, "get", patch, Blank)
    /\ UNCHANGED <<dataVars, managerVars, stored>>

\* The handler goes on with its own merged copy of what it read here.
PatchGet(r) ==
    /\ req[r].at = "get"
    /\ file[req[r].wf] # None
    /\ req' = [req EXCEPT ![r].at = "put",
                          ![r].patch = NoPatch,
                          ![r].def = Merge(file[req[r].wf], req[r].patch)]
    /\ UNCHANGED <<dataVars, managerVars, stored, synced>>

PatchGetFails(r) ==
    /\ req[r].at = "get"
    /\ file[req[r].wf] = None \/ "store" \in Faults
    /\ GiveUp(r)
    /\ UNCHANGED <<dataVars, managerVars, stored>>

\* Put creates or overwrites: a file deleted in between is back.
Put(r) ==
    /\ req[r].at = "put"
    /\ Write(req[r].wf, req[r].def)
    /\ Goto(r, "sync")
    /\ UNCHANGED <<owner, index, managerVars, synced>>

\* Mutant: a failed Put still syncs the index.
PutFailsGoingOn(r) ==
    /\ req[r].at = "put"
    /\ "store" \in Faults
    /\ Goto(r, "sync")
    /\ UNCHANGED <<dataVars, managerVars, stored, synced>>
\* Put fails, before or after the server took the file.
PutFails(r) ==
    /\ req[r].at = "put"
    /\ "store" \in Faults
    /\ \/ Write(req[r].wf, req[r].def)
       \/ UNCHANGED <<file, stored>>
    /\ GiveUp(r)
    /\ UNCHANGED <<owner, index, managerVars>>

DeleteBegin(r, w) ==
    /\ owner[w] # None
    /\ Begin(r, w, "delete", NoPatch, Blank)
    /\ UNCHANGED <<dataVars, managerVars, stored>>

DeleteFile(r) ==
    /\ req[r].at = "delete"
    /\ file[req[r].wf] # None
    /\ file' = [file EXCEPT ![req[r].wf] = None]
    /\ Goto(r, "unindex")
    /\ UNCHANGED <<owner, index, managerVars, stored, synced>>

\* A missing file (404) or a failure, before or after the server removed it,
\* leaves the index as it is.
DeleteFileFails(r) ==
    /\ req[r].at = "delete"
    /\ \/ file[req[r].wf] = None /\ UNCHANGED file
       \/ /\ "store" \in Faults
          /\ file' \in {file, [file EXCEPT ![req[r].wf] = None]}
    /\ GiveUp(r)
    /\ UNCHANGED <<owner, index, managerVars, stored>>

-----------------------------------------------------------------------------
(* syncTriggerIndex, with the request's own copy of the definition. *)

\* Mutant: disabling a workflow keeps its row.
IndexableDisabled(def) == KindOf[def.trigger] \in {"schedule", "event"}
Indexable(def) == def.enabled /\ KindOf[def.trigger] \in {"schedule", "event"}

DeleteTriggerIndexEntry(w) == index' = [index EXCEPT ![w] = None]

\* The last call of a delete, and of a create or patch without a live trigger.
Unindex(r) ==
    /\ \/ req[r].at = "unindex"
       \/ req[r].at = "sync" /\ ~Indexable(req[r].def)
    /\ \/ DeleteTriggerIndexEntry(req[r].wf) /\ Done(r)
       \/ "index" \in Faults /\ UNCHANGED index /\ GiveUp(r)
    /\ UNCHANGED <<owner, file, managerVars, stored>>

\* The caller's id is resolved; a failure leaves the row that was there.
Me(r) ==
    /\ req[r].at = "sync"
    /\ Indexable(req[r].def)
    /\ \/ Goto(r, "upsert") /\ UNCHANGED synced
       \/ "me" \in Faults /\ GiveUp(r)
    /\ UNCHANGED <<dataVars, managerVars, stored>>

\* Mutant: the manager is left to its ticker.
UpsertNoKick(r) ==
    /\ req[r].at = "upsert"
    /\ index' = [index EXCEPT ![req[r].wf] =
         [user |-> owner[req[r].wf], trigger |-> req[r].def.trigger]]
    /\ Done(r)
    /\ UNCHANGED <<owner, file, managerVars, stored>>
\* Only event rows are worth a Kick.
Upsert(r) ==
    /\ req[r].at = "upsert"
    /\ index' = [index EXCEPT ![req[r].wf] =
         [user |-> owner[req[r].wf], trigger |-> req[r].def.trigger]]
    /\ IF KindOf[req[r].def.trigger] = "event"
       THEN Goto(r, "kick") /\ UNCHANGED synced
       ELSE Done(r)
    /\ UNCHANGED <<owner, file, managerVars, stored>>

UpsertFails(r) ==
    /\ req[r].at = "upsert"
    /\ "index" \in Faults
    /\ GiveUp(r)
    /\ UNCHANGED <<dataVars, managerVars, stored>>

Kick(r) ==
    /\ req[r].at = "kick"
    /\ kick' = TRUE
    /\ Done(r)
    /\ UNCHANGED <<dataVars, watched, behind, stored>>

-----------------------------------------------------------------------------
(* The SSE manager's look at the index (SSEManager has the rest of it), on  *)
(* a kick and on the ticker, and a restart.                                 *)

EventUsers == {index[w].user : w \in {x \in Workflows :
                  index[x] # None /\ KindOf[index[x].trigger] = "event"}}

Look ==
    /\ kick' \in {FALSE, kick}
    /\ \/ watched' = EventUsers /\ behind' = FALSE
       \/ "list" \in Faults /\ UNCHANGED watched /\ behind' = TRUE
    /\ UNCHANGED <<dataVars, req, stored, synced>>

\* Requests die where they are; Start looks before anything else.
Restart ==
    /\ "crash" \in Faults
    /\ req' = [r \in Requests |-> Free]
    /\ kick' = TRUE
    /\ watched' = {}
    /\ behind' = FALSE
    /\ UNCHANGED <<dataVars, stored, synced>>

-----------------------------------------------------------------------------
Arrive(r) ==
    \E w \in Workflows :
        \/ \E u \in Users, p \in Patch : Create(r, u, w, p)
        \/ \E p \in Patch : PatchBegin(r, w, p)
        \/ DeleteBegin(r, w)

Handle(r) ==
    \/ PatchGet(r) \/ PatchGetFails(r) \/ Put(r) \/ PutFails(r)
    \/ DeleteFile(r) \/ DeleteFileFails(r)
    \/ Unindex(r) \/ Me(r) \/ Upsert(r) \/ UpsertFails(r) \/ Kick(r)

Next == Look \/ Restart \/ \E r \in Requests : Arrive(r) \/ Handle(r)

Spec == Init /\ [][Next]_vars

-----------------------------------------------------------------------------
(* Properties. *)

\* The type invariant of the store, the index and the requests.
TypeOK ==
    /\ owner \in [Workflows -> Users \cup {None}]
    /\ file \in [Workflows -> Definition \cup {None}]
    /\ index \in [Workflows -> Row \cup {None}]
    /\ req \in [Requests ->
         [at : {"none", "get", "put", "delete", "unindex", "sync", "upsert", "kick"},
          wf : Workflows \cup {None}, def : Definition, patch : Patch,
          alone : BOOLEAN]]
    /\ kick \in BOOLEAN
    /\ watched \subseteq Users
    /\ behind \in BOOLEAN
    /\ stored \in [Workflows -> SUBSET Definition]
    /\ synced \subseteq Workflows

Wanted(w) ==
    IF file[w] # None /\ file[w].enabled /\ KindOf[file[w].trigger] # "manual"
    THEN [user |-> owner[w], trigger |-> file[w].trigger]
    ELSE None

\* A request that had its workflow to itself and whose calls all succeeded
\* leaves the index row that the stored definition calls for, whatever failed or
\* overlapped before it (workflows.go:61-101): one undisturbed request repairs.
\* Two requests that overlap may leave another row, in spite of "keeps the local
\* trigger index in sync" (workflows.go:61): nothing orders their two writes.
LoneRequestSyncs == \A w \in synced : index[w] = Wanted(w)

\* The index never runs ahead of the store: a row's trigger was, enabled, in the
\* file at some time (workflows.go:159-164, 235-240), so no background run is
\* ever due to a definition that could not be saved.
IndexFollowsStore ==
    \A w \in Workflows :
        index[w] # None => [enabled |-> TRUE, trigger |-> index[w].trigger] \in stored[w]

\* A user with an event row is watched by the SSE manager, or a look at the
\* index is still to come without waiting for the ticker: a value is on the kick
\* channel, or the request that is about to send one is running
\* (workflows.go:96-100), unless the manager's last look failed.
EventUsersWatched ==
    \A u \in EventUsers :
        \/ u \in watched \/ kick \/ behind
        \/ \E r \in Requests : req[r].at = "kick" /\ owner[req[r].wf] = u
=============================================================================
