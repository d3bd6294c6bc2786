----------------------------- MODULE SSEManager -----------------------------
(***************************************************************************)
(* The SSE consumer manager (src/backend/pkg/sse/manager.go): one          *)
(* background goroutine per user who has an enabled event trigger, started *)
(* and cancelled by a reconcile loop that is woken by a ticker or by Kick. *)
(*                                                                         *)
(* The processes are the manager goroutine (Start), the consumer           *)
(* goroutines (consumeForUser), and the HTTP handlers and renewal loop     *)
(* that write the two tables the manager reads and then call Kick.  What   *)
(* the handlers do in detail is in TriggerIndex and Automation; here they  *)
(* are the environment: a committed write, then (for those that do) Kick.  *)
(***************************************************************************)
EXTENDS Naturals, FiniteSets

CONSTANTS
    Users,
    Ids,        \* goroutine slots: an id in use stands for one value of nextID
    Creds,      \* app-passwords
    Handlers,   \* bound: HTTP handlers between their write and their Kick
    NoId, NoCred, NoUser,
    Faults      \* which reads of the local database may fail transiently

ASSUME NullAssumption ==
    NoId \notin Ids /\ NoCred \notin Creds /\ NoUser \notin Users
ASSUME FaultsAssumption == Faults \subseteq {"list", "automation"}

VARIABLES
    indexed,    \* users with at least one entry in the event-trigger index
    automation, \* the stored credential of each user
    live,       \* the app-passwords oCIS accepts
    kickers,    \* handlers that committed their write and still have to call Kick
    kick,       \* the one-slot kick channel is full
    mgr,        \* where the manager goroutine is
    wanted,     \* the users reconcile listed, until it takes the lock
    active,     \* m.active: the id registered for each user
    at,         \* where each consumer goroutine is
    owner,      \* the userID a consumer was started for
    cred,       \* the credential in a consumer's authHeader
    cancelled,  \* consumers whose own context was cancelled
    shutdown    \* the process context is done

envVars == <<indexed, automation, live, kickers>>
consumerVars == <<at, owner, cred>>
vars == <<indexed, automation, live, kickers, kick, mgr, wanted, active,
          at, owner, cred, cancelled, shutdown>>

MgrStates == {"list", "apply", "select", "stopped"}
ConsumerStates ==
    {"none", "start", "failed", "loop", "stream", "backoff"}

Running(id) == at[id] # "none"

\* Mutant: calls the cancel function of a missing entry.
RegisteredOrZero(us) == {active[u] : u \in us}
\* Mutant: drops entries without cancelling them.
RegisteredNone(us) == {}

\* The goroutines that cancelling the entries of some users reaches: cancelling
\* the context of one that already returned has no effect.
Registered(us) == {id \in Ids : Running(id) /\ \E u \in us : active[u] = id}

\* A consumer's context is a child of the process context.
Cancelled(id) == id \in cancelled \/ shutdown

\* The database outlives the process: Init is any state an earlier run left.
Init ==
    /\ indexed \in SUBSET Users
    /\ automation \in [Users -> Creds \cup {NoCred}]
    /\ \A u, v \in Users :
        automation[u] = automation[v] => u = v \/ automation[u] = NoCred
    /\ live \in SUBSET Creds
    /\ kickers = {}
    /\ kick = FALSE
    /\ mgr = "list"
    /\ wanted = {}
    /\ active = [u \in Users |-> NoId]
    /\ at = [id \in Ids |-> "none"]
    /\ owner = [id \in Ids |-> NoUser]
    /\ cred = [id \in Ids |-> NoCred]
    /\ cancelled = {}
    /\ shutdown = FALSE

-----------------------------------------------------------------------------
(* The environment: handlers and the renewal loop. *)

\* A workflow with an enabled event trigger was saved; the handler kicks next.
AddEventTrigger(u) ==
    /\ ~shutdown
    /\ indexed' = indexed \cup {u}
    /\ \E h \in Handlers \ kickers : kickers' = kickers \cup {h}
    /\ UNCHANGED <<automation, live, kick, mgr, wanted, active, consumerVars,
                   cancelled, shutdown>>

\* A user's last event trigger was deleted or disabled: nobody kicks.
RemoveLastTrigger(u) ==
    /\ ~shutdown
    /\ u \in indexed
    /\ indexed' = indexed \ {u}
    /\ UNCHANGED <<automation, live, kickers, kick, mgr, wanted, active,
                   consumerVars, cancelled, shutdown>>

\* A token minted now is none that is stored, accepted, or still held.
Fresh(c) ==
    /\ c \notin live
    /\ \A u \in Users : automation[u] # c
    /\ \A id \in Ids : cred[id] # c

StoreCredential(u, c) ==
    /\ ~shutdown
    /\ Fresh(c)
    /\ automation' = [automation EXCEPT ![u] = c]
    /\ live' = live \cup {c}
    /\ UNCHANGED <<indexed, kick, mgr, wanted, active, consumerVars,
                   cancelled, shutdown>>

Connect(u, c) ==
    /\ StoreCredential(u, c)
    /\ \E h \in Handlers \ kickers : kickers' = kickers \cup {h}

\* Renewal authenticates with the stored credential, replaces it, kicks nobody.
Renew(u, c) ==
    /\ automation[u] \in live
    /\ StoreCredential(u, c)
    /\ UNCHANGED kickers

\* Disconnect's and renewal's revocation, and expiry.
Revoke(c) ==
    /\ c \in live
    /\ live' = live \ {c}
    /\ UNCHANGED <<indexed, automation, kickers, kick, mgr, wanted, active,
                   consumerVars, cancelled, shutdown>>

Disconnect(u) ==
    /\ ~shutdown
    /\ automation[u] # NoCred
    /\ automation' = [automation EXCEPT ![u] = NoCred]
    /\ UNCHANGED <<indexed, live, kickers, kick, mgr, wanted, active,
                   consumerVars, cancelled, shutdown>>

\* Kick: a non-blocking send, a no-op when one is already pending.
Kick(h) ==
    /\ h \in kickers
    /\ kick' = TRUE
    /\ kickers' = kickers \ {h}
    /\ UNCHANGED <<indexed, automation, live, mgr, wanted, active,
                   consumerVars, cancelled, shutdown>>

\* SIGINT or SIGTERM, or a server that failed: the errgroup context is done.
Shutdown ==
    /\ ~shutdown
    /\ shutdown' = TRUE
    /\ UNCHANGED <<envVars, kick, mgr, wanted, active, consumerVars, cancelled>>

-----------------------------------------------------------------------------
(* The manager goroutine: Start, reconcile, stopAll. *)

ListEventTriggers ==
    /\ mgr = "list"
    /\ wanted' = indexed
    /\ mgr' = "apply"
    /\ UNCHANGED <<envVars, kick, active, consumerVars, cancelled, shutdown>>

\* A failed listing ends the pass.
ListFails ==
    /\ mgr = "list"
    /\ "list" \in Faults \/ shutdown
    /\ mgr' = "select"
    /\ UNCHANGED <<envVars, kick, wanted, active, consumerVars, cancelled,
                   shutdown>>

Unwanted == {u \in Users : active[u] # NoId /\ u \notin wanted}
\* Mutant: starts a consumer without looking at m.active.
MissingUnchecked == wanted
Missing == {u \in wanted : active[u] = NoId}

\* nextID never repeats: an id is free when no goroutine and no entry bears it.
FreeIds == {id \in Ids : ~Running(id) /\ \A u \in Users : active[u] # id}

Starts(fresh, id) == {u \in Missing : fresh[u] = id}

\* The critical section of reconcile: cancel and drop, then start the missing.
Apply ==
    /\ mgr = "apply"
    /\ \E fresh \in [Missing -> FreeIds] :
        /\ \A u, v \in Missing : fresh[u] = fresh[v] => u = v
        /\ active' = [u \in Users |->
                        IF u \in Missing THEN fresh[u]
                        ELSE IF u \in Unwanted THEN NoId ELSE active[u]]
        /\ at' = [id \in Ids |->
                    IF Starts(fresh, id) # {} THEN "start" ELSE at[id]]
        /\ owner' = [id \in Ids |->
                       IF Starts(fresh, id) # {}
                       THEN CHOOSE u \in Missing : fresh[u] = id
                       ELSE owner[id]]
    /\ cancelled' = cancelled \cup Registered(Unwanted)
    /\ wanted' = {}
    /\ mgr' = "select"
    /\ UNCHANGED <<envVars, kick, cred, shutdown>>

\* The three cases of Start's select; Go picks at random among the ready ones.
Tick ==
    /\ mgr = "select"
    /\ mgr' = "list"
    /\ UNCHANGED <<envVars, kick, wanted, active, consumerVars, cancelled,
                   shutdown>>

TakeKick ==
    /\ mgr = "select"
    /\ kick
    /\ kick' = FALSE
    /\ mgr' = "list"
    /\ UNCHANGED <<envVars, wanted, active, consumerVars, cancelled, shutdown>>

\* Mutant: a break that leaves the select instead of the loop.
StopAllBreaks ==
    /\ mgr = "select"
    /\ shutdown
    /\ cancelled' = cancelled \cup Registered(Users)
    /\ active' = [u \in Users |-> NoId]
    /\ UNCHANGED <<envVars, kick, mgr, wanted, consumerVars, shutdown>>

StopAll ==
    /\ mgr = "select"
    /\ shutdown
    /\ cancelled' = cancelled \cup Registered(Users)
    /\ active' = [u \in Users |-> NoId]
    /\ mgr' = "stopped"
    /\ UNCHANGED <<envVars, kick, wanted, consumerVars, shutdown>>

-----------------------------------------------------------------------------
(* A consumer goroutine: consumeForUser and streamOnce. *)

Goto(id, from, to) ==
    /\ at[id] = from
    /\ at' = [at EXCEPT ![id] = to]

consumerUnchanged == <<envVars, kick, mgr, wanted, shutdown>>

Exit(id) ==
    /\ at' = [at EXCEPT ![id] = "none"]
    /\ owner' = [owner EXCEPT ![id] = NoUser]
    /\ cred' = [cred EXCEPT ![id] = NoCred]
    /\ cancelled' = cancelled \ {id}

\* The auth header is built once, before the loop, from what is stored now.
AutomationFound(id) ==
    /\ Goto(id, "start", "loop")
    /\ automation[owner[id]] # NoCred
    /\ cred' = [cred EXCEPT ![id] = automation[owner[id]]]
    /\ UNCHANGED <<consumerUnchanged, active, owner, cancelled>>

\* GetAutomation fails: no row, a database error, or a context already done.
AutomationMissing(id) ==
    /\ Goto(id, "start", "failed")
    /\ automation[owner[id]] = NoCred \/ "automation" \in Faults \/ Cancelled(id)
    /\ UNCHANGED <<consumerUnchanged, active, owner, cred, cancelled>>

\* Mutant: drops whatever entry the user has.
DeactivateAny(id) == active' = [active EXCEPT ![owner[id]] = NoId]
\* Mutant: no self-removal.
DeactivateNone(id) == active' = active

\* deactivate: drop the registered entry only if it is this goroutine's own.
Deactivate(id) ==
    active' = [u \in Users |->
                 IF u = owner[id] /\ active[u] = id THEN NoId ELSE active[u]]

GiveUp(id) ==
    /\ at[id] = "failed"
    /\ Deactivate(id)
    /\ Exit(id)
    /\ UNCHANGED consumerUnchanged

\* A return because the context is done leaves the registry alone.
ReturnDone(id) ==
    /\ at[id] \in {"loop", "backoff"}
    /\ Cancelled(id)
    /\ Exit(id)
    /\ UNCHANGED <<consumerUnchanged, active>>

\* The loop's check of the context and the dial are one step: a context done
\* in between fails the dial, and the check after streamOnce returns.
DialOK(id) ==
    /\ Goto(id, "loop", "stream")
    /\ ~Cancelled(id)
    /\ cred[id] \in live
    /\ UNCHANGED <<consumerUnchanged, active, owner, cred, cancelled>>

\* A transport error or a status other than 200.
DialFails(id) ==
    /\ Goto(id, "loop", "backoff")
    /\ ~Cancelled(id)
    /\ UNCHANGED <<consumerUnchanged, active, owner, cred, cancelled>>

StreamEnds(id) ==
    /\ Goto(id, "stream", "backoff")
    /\ UNCHANGED <<consumerUnchanged, active, owner, cred, cancelled>>

\* Mutant: waits for the context only.
BackoffUntilDone(id) ==
    /\ Goto(id, "backoff", "loop")
    /\ Cancelled(id)
    /\ UNCHANGED <<consumerUnchanged, active, owner, cred, cancelled>>

\* With both cases ready Go may pick the timer although the context is done.
BackoffOver(id) ==
    /\ Goto(id, "backoff", "loop")
    /\ UNCHANGED <<consumerUnchanged, active, owner, cred, cancelled>>

-----------------------------------------------------------------------------
Environment ==
    \/ \E u \in Users :
        \/ AddEventTrigger(u)
        \/ RemoveLastTrigger(u)
        \/ Disconnect(u)
        \/ \E c \in Creds : Connect(u, c) \/ Renew(u, c)
    \/ \E c \in Creds : Revoke(c)
    \/ \E h \in Handlers : Kick(h)
    \/ Shutdown

Manager ==
    \/ ListEventTriggers \/ ListFails \/ Apply
    \/ Tick \/ TakeKick \/ StopAll

Consumer(id) ==
    \/ AutomationFound(id) \/ AutomationMissing(id) \/ GiveUp(id)
    \/ ReturnDone(id) \/ DialOK(id) \/ DialFails(id)
    \/ StreamEnds(id) \/ BackoffOver(id)

\* Once everything has stopped the process is gone.
Terminated ==
    /\ mgr = "stopped"
    /\ \A id \in Ids : ~Running(id)
    /\ UNCHANGED vars

Next == Environment \/ Manager \/ (\E id \in Ids : Consumer(id)) \/ Terminated

Spec == Init /\ [][Next]_vars

-----------------------------------------------------------------------------
(* Fairness.  Every goroutine keeps running; a read that may fail does not *)
(* fail every time; a done context is eventually picked by a select that   *)
(* keeps running; a server that accepts the credential eventually answers. *)
(* An open stream owes nobody an end, unless its context is cancelled.     *)

\* A step the consumer goroutine takes by itself once it can run.
Progress(id) ==
    \/ AutomationFound(id) \/ AutomationMissing(id) \/ GiveUp(id)
    \/ DialOK(id) \/ DialFails(id) \/ BackoffOver(id) \/ ReturnDone(id)
    \/ Cancelled(id) /\ StreamEnds(id)

GoroutineFairness ==
    /\ SF_vars(ListEventTriggers)
    /\ WF_vars(Apply \/ Tick)
    /\ SF_vars(StopAll)
    /\ \A id \in Ids : WF_vars(Progress(id))
    /\ \A u \in Users :
        /\ SF_vars(\E id \in Ids : owner[id] = u /\ AutomationFound(id))
        /\ SF_vars(\E id \in Ids : owner[id] = u /\ DialOK(id))

FairSpec == Spec /\ GoroutineFairness

-----------------------------------------------------------------------------
(* Properties. *)

\* The type invariant of the manager's, the consumers' and the tables' state.
TypeOK ==
    /\ indexed \subseteq Users
    /\ automation \in [Users -> Creds \cup {NoCred}]
    /\ live \subseteq Creds
    /\ kickers \subseteq Handlers
    /\ kick \in BOOLEAN
    /\ mgr \in MgrStates
    /\ wanted \subseteq Users
    /\ active \in [Users -> Ids \cup {NoId}]
    /\ at \in [Ids -> ConsumerStates]
    /\ owner \in [Ids -> Users \cup {NoUser}]
    /\ cred \in [Ids -> Creds \cup {NoCred}]
    /\ cancelled \subseteq Ids
    /\ shutdown \in BOOLEAN

\* Every consumer goroutine nobody cancelled is the one m.active names for its
\* user, so reconcile and stopAll can always reach it (activeConsumer's comment,
\* manager.go:94-98): no goroutine is ever orphaned, however a slow
\* self-removal, a removal and a restart for the same user interleave.
NoOrphan ==
    \A id \in Ids :
        Running(id) /\ id \notin cancelled => active[owner[id]] = id

\* Until shutdown an entry of m.active stands for a running, uncancelled
\* consumer of that very user: an entry without one would make reconcile skip
\* the user for ever (manager.go:182-184).
NoDeadEntry ==
    \A u \in Users :
        active[u] # NoId /\ ~shutdown =>
            /\ Running(active[u])
            /\ owner[active[u]] = u
            /\ active[u] \notin cancelled

\* A user never has two consumers that both may keep streaming: every event
\* would be dispatched twice (manager.go:1-2, one connection per user).
OneConsumerPerUser ==
    \A i, j \in Ids :
        /\ Running(i) /\ i \notin cancelled
        /\ Running(j) /\ j \notin cancelled
        /\ owner[i] = owner[j]
        => i = j

HasConsumer(u) == \E id \in Ids : owner[id] = u /\ Running(id)
Serving(u) ==
    \E id \in Ids : owner[id] = u /\ id \notin cancelled /\ cred[id] # NoCred
Streaming(u) == \E id \in Ids : owner[id] = u /\ at[id] = "stream"

\* A user who keeps an event trigger and keeps automation connected ends up
\* with a consumer past its credential lookup, whatever order triggers and
\* credentials arrived in and whatever transient read failed.
Converges ==
    \A u \in Users :
        <>[](u \in indexed /\ automation[u] # NoCred /\ ~shutdown)
            => <>[]Serving(u)

\* A user whose triggers stay away ends up without any consumer goroutine.
UnwantedStops == \A u \in Users : <>[](u \notin indexed) => <>[]~HasConsumer(u)

\* Shutdown stops the manager and every consumer, also one that a reconcile
\* pass starts after the context is done.
ShutdownStopsAll ==
    shutdown ~> (mgr = "stopped" /\ \A u \in Users : ~HasConsumer(u))

\* A dropped stream is dialled again until it is up, for as long as the
\* credential the consumer captured is accepted.
Reconnects ==
    \A u \in Users :
        <>[](/\ ~shutdown /\ u \in indexed
             /\ \E id \in Ids : owner[id] = u /\ cred[id] \in live)
            => []<>Streaming(u)

\* What a reader of the manager may think of instead: see ConsumerRegistry.  A
\* user is served by the consumer that nobody cancelled, of whatever id.
Consumers(u) == {id \in Ids : owner[id] = u /\ Running(id) /\ id \notin cancelled}

Phase(u) ==
    IF Consumers(u) = {} THEN "off"
    ELSE IF \A id \in Consumers(u) : at[id] \in {"start", "failed"}
    THEN "starting" ELSE "serving"

Connected == {u \in Users : automation[u] # NoCred}
Lingering == {u \in Users : \E id \in cancelled : owner[id] = u}

Pass ==
    CASE mgr = "apply" -> "listed"
      [] mgr = "stopped" -> "over"
      [] OTHER -> "idle"

Registry == INSTANCE ConsumerRegistry WITH
    triggers <- indexed,
    connected <- Connected,
    pass <- Pass,
    listed <- wanted,
    phase <- [u \in Users |-> Phase(u)],
    lingering <- Lingering

\* The goroutines, ids and cancel functions of the manager amount to a set of
\* users that each pass replaces in one step (manager.go:160-191): no step of
\* any goroutine, however late, adds to it, and a consumer past its credential
\* lookup leaves it only through a pass or the shutdown.
ImplementsRegistry == Registry!Spec

\* The comment of StartRenewalLoop (renew.go:18-20): with renewal, background
\* execution keeps working without the user revisiting the app.
RenewalKeepsServing ==
    \A u \in Users :
        <>[](u \in indexed /\ automation[u] \in live /\ ~shutdown)
            => []<>Streaming(u)
=============================================================================
