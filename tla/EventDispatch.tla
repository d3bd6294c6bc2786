--------------------------- MODULE EventDispatch ---------------------------
(***************************************************************************)
(* From a file event to the end of the run it triggers.  The live path is  *)
(* Manager.handleEvent (sse/manager.go), fed by a stream that loses        *)
(* events; the backstop is Reconciler.dispatch (reconcile/reconciler.go),  *)
(* fed by the activity log.  Both start runs of the executor, whose        *)
(* actions write to the user's space and so cause further events, as do    *)
(* the backend's own bookkeeping writes (comments, execution records).     *)
(*                                                                         *)
(* One user and one space.  The bookkeeping files are all one item, Book.  *)
(* Which log entries a pass asks for is in Reconciler: here each entry is  *)
(* dispatched once, at any time.                                           *)
(***************************************************************************)
EXTENDS Naturals, Sequences, FiniteSets

CONSTANTS
    Workflows,
    Def,            \* [on, admits, acts]: trigger type, filters, action nodes
    Items,          \* the user's files, by item id
    Dirs, Names,
    Slots,          \* bound: the runs in progress at one time
    MaxPending,     \* bound: equal events waiting on the stream or in the log
    UserSteps,      \* bound: what the user does in a behaviour
    UserPaths,      \* bound: where the user puts files
    Faults,         \* "stream", "path", "load", "record"
    Book, Gone, NoPath, Idle,
    BookPath        \* a path below .workflows

Paths == Dirs \X Names
Types == {"upload", "move", "share"}
Events == [type : Types, item : Items] \cup [type : {"upload"}, item : {Book}]
Resolutions == Paths \cup {BookPath, NoPath}

Action == [do : {"move", "copy"}, to : Dirs] \cup [do : {"rename"}, to : Names]
            \cup [do : {"comment"}]

ASSUME NullAssumption ==
    /\ Book \notin Items
    /\ BookPath \notin Paths
    /\ NoPath \notin Paths \cup {BookPath}
    /\ Gone \notin Paths \cup {BookPath, NoPath}
ASSUME DefAssumption ==
    \A w \in Workflows :
        /\ Def[w].on \in Types
        /\ Def[w].admits \subseteq Resolutions
        /\ Def[w].acts \in Seq(Action)
ASSUME BoundAssumption ==
    MaxPending \in Nat \ {0} /\ UserSteps \in Nat /\ UserPaths \subseteq Paths

VARIABLES
    where,      \* the path of each file, or Gone
    indexed,    \* the workflows with a row in the trigger index
    enabled,    \* the workflows whose definition says enabled
    stream,     \* the events on the user's SSE connection, not yet read
    log,        \* the activities no pass has dispatched yet
    run,        \* the executor runs in progress
    left,       \* what is left of UserSteps
    started,    \* ghost: <<workflow, item>> of every run started so far
    deleted     \* ghost: the files the user deleted

vars == <<where, indexed, enabled, stream, log, run, left, started, deleted>>

None == [e \in Events |-> 0]

Init ==
    /\ where = [i \in Items |-> Gone]
    /\ indexed = Workflows
    /\ enabled = Workflows
    /\ stream = None
    /\ log = None
    /\ run = [s \in Slots |-> Idle]
    /\ left = UserSteps
    /\ started = {}
    /\ deleted = {}

-----------------------------------------------------------------------------
(* oCIS: files and what is told about them. *)

Event(type, item) == [type |-> type, item |-> item]

More(queue, e) ==
    [queue EXCEPT ![e] = IF @ < MaxPending THEN @ + 1 ELSE @]

Emit(e) == stream' = More(stream, e) /\ log' = More(log, e)

Occupied(p) == \E i \in Items : where[i] = p
Free == {i \in Items : where[i] = Gone /\ i \notin deleted}

\* What the server does to put a file at a path that it may overwrite.
Put(i, p) ==
    where' = [j \in Items |-> IF j = i THEN p
                              ELSE IF where[j] = p THEN Gone ELSE where[j]]

-----------------------------------------------------------------------------
(* The user, in the files and in the workflow list. *)

UserActs == left > 0 /\ left' = left - 1 /\ UNCHANGED <<run, started>>

Upload(i, p) ==
    /\ UserActs
    /\ i \in Free
    /\ ~Occupied(p)
    /\ Put(i, p)
    /\ Emit(Event("upload", i))
    /\ UNCHANGED <<indexed, enabled, deleted>>

UserMove(i, p) ==
    /\ UserActs
    /\ where[i] # Gone
    /\ ~Occupied(p)
    /\ Put(i, p)
    /\ Emit(Event("move", i))
    /\ UNCHANGED <<indexed, enabled, deleted>>

Share(i) ==
    /\ UserActs
    /\ where[i] # Gone
    /\ Emit(Event("share", i))
    /\ UNCHANGED <<where, indexed, enabled, deleted>>

Delete(i) ==
    /\ UserActs
    /\ where[i] # Gone
    /\ where' = [where EXCEPT ![i] = Gone]
    /\ deleted' = deleted \cup {i}
    /\ UNCHANGED <<indexed, enabled, stream, log>>

\* The definition is saved first, the index follows (module TriggerIndex).
Toggle(w) ==
    /\ UserActs
    /\ enabled' = IF w \in enabled THEN enabled \ {w} ELSE enabled \cup {w}
    /\ UNCHANGED <<where, indexed, stream, log, deleted>>

Sync(w) ==
    /\ (w \in enabled) # (w \in indexed)
    /\ indexed' = IF w \in enabled THEN indexed \cup {w} ELSE indexed \ {w}
    /\ UNCHANGED <<where, enabled, stream, log, run, left, started, deleted>>

-----------------------------------------------------------------------------
(* Matching, and starting runs. *)

PathOf(i) == IF i = Book THEN BookPath ELSE where[i]

\* ItemPath: the results the lookup of an item id may have.
ItemPath(i) ==
    IF PathOf(i) = Gone THEN {NoPath}
    ELSE {PathOf(i)} \cup (IF "path" \in Faults THEN {NoPath} ELSE {})

\* Mutant: no exclusion.
IsInternalNever(p) == FALSE
IsInternalPath(p) == p = BookPath

Matches(type, p) == {w \in indexed : Def[w].on = type /\ p \in Def[w].admits}

\* A failed lookup leaves the path empty, and handleEvent goes on with it.
LiveMatches(type, p) == IF IsInternalPath(p) THEN {} ELSE Matches(type, p)

\* Mutant: only the messages of a move.
TriggerTypeMove == {"move"}
\* The activity messages the backstop handles.
TriggerType == {"upload", "move"}

\* dispatch gives up where the path cannot be resolved.
LogMatches(type, p) ==
    IF type \notin TriggerType \/ p = NoPath \/ IsInternalPath(p) THEN {}
    ELSE Matches(type, p)

Running == {s \in Slots : run[s] # Idle}

\* The slots are alike: which ones the new runs get makes no difference.
Start(ws, p, i) ==
    LET free == Slots \ Running
        slot == CHOOSE f \in [ws -> free] : \A v, w \in ws : f[v] = f[w] => v = w
    IN
    /\ Cardinality(ws) <= Cardinality(free)
    /\ run' = [s \in Slots |->
                 IF \E w \in ws : slot[w] = s
                 THEN [at |-> "load", wf |-> CHOOSE w \in ws : slot[w] = s,
                       path |-> p, todo |-> <<>>]
                 ELSE run[s]]
    /\ started' = started \cup (ws \X {i})

\* handleEvent: the rows, the path once, a goroutine per match.
Deliver(e) ==
    /\ stream[e] > 0
    /\ stream' = [stream EXCEPT ![e] = @ - 1]
    /\ \E p \in ItemPath(e.item) : Start(LiveMatches(e.type, p), p, e.item)
    /\ UNCHANGED <<where, indexed, enabled, log, left, deleted>>

\* The connection is down, or the rows cannot be listed.
Lose(e) ==
    /\ "stream" \in Faults
    /\ stream[e] > 0
    /\ stream' = [stream EXCEPT ![e] = @ - 1]
    /\ UNCHANGED <<where, indexed, enabled, log, run, left, started, deleted>>

Dispatch(e) ==
    /\ log[e] > 0
    /\ log' = [log EXCEPT ![e] = @ - 1]
    /\ \E p \in ItemPath(e.item) : Start(LogMatches(e.type, p), p, e.item)
    /\ UNCHANGED <<where, indexed, enabled, stream, left, deleted>>

-----------------------------------------------------------------------------
(* A run: runWorkflow, the executor's actions, the record.  Nodes that      *)
(* change no file (llm, extractText, tag, notify) are left out: what they  *)
(* can do here is fail, which any node can.                                *)

At(s, stage) == run[s] # Idle /\ run[s].at = stage
End(s) == run' = [run EXCEPT ![s] = Idle]
\* The record needs neither the path nor the nodes that were left.
ToRecord(s) ==
    run' = [run EXCEPT ![s].at = "record", ![s].path = NoPath, ![s].todo = <<>>]

Load(s) ==
    /\ At(s, "load")
    /\ \/ /\ run[s].wf \in enabled
          /\ LET acts == Def[run[s].wf].acts IN
             run' = [run EXCEPT ![s].at = IF acts = <<>> THEN "record" ELSE "act",
                                ![s].todo = acts]
       \/ (run[s].wf \notin enabled \/ "load" \in Faults) /\ End(s)
    /\ UNCHANGED <<where, indexed, enabled, stream, log, left, started, deleted>>

Doing(s, kinds) ==
    At(s, "act") /\ run[s].todo # <<>> /\ Head(run[s].todo).do \in kinds

\* On to the next node, with the path the file has by then.
Go(s, p) ==
    IF Len(run[s].todo) = 1 THEN ToRecord(s)
    ELSE run' = [run EXCEPT ![s].path = p, ![s].todo = Tail(@)]

\* Mutant: a new name is taken for a folder.
DestinationFolder(s) == <<Head(run[s].todo).to, run[s].path[2]>>
\* move and copy keep the base name, rename keeps the directory.
Destination(s) ==
    LET a == Head(run[s].todo) IN
    IF a.do = "rename" THEN <<run[s].path[1], a.to>> ELSE <<a.to, run[s].path[2]>>

\* Mutant: Overwrite: T.
RefusedNever(s) == FALSE
\* Overwrite: F.
Refused(s) == Occupied(Destination(s))

HasTarget(s) == run[s].path \in Paths /\ Occupied(run[s].path)
Target(s) == CHOOSE i \in Items : where[i] = run[s].path

MoveOrRename(s) ==
    /\ Doing(s, {"move", "rename"})
    /\ HasTarget(s)
    /\ ~Refused(s)
    /\ Put(Target(s), Destination(s))
    /\ Emit(Event("move", Target(s)))
    /\ Go(s, Destination(s))
    /\ UNCHANGED <<indexed, enabled, left, started, deleted>>

Copy(s) ==
    /\ Doing(s, {"copy"})
    /\ HasTarget(s)
    /\ ~Refused(s)
    /\ \E i \in Free :
        /\ Put(i, Destination(s))
        /\ Emit(Event("upload", i))
    /\ Go(s, run[s].path)
    /\ UNCHANGED <<indexed, enabled, left, started, deleted>>

\* The sidecar is named for the path: no file needs to be there.
Comment(s) ==
    /\ Doing(s, {"comment"})
    /\ run[s].path # NoPath
    /\ Emit(Event("upload", Book))
    /\ Go(s, run[s].path)
    /\ UNCHANGED <<where, indexed, enabled, left, started, deleted>>

\* A node fails, for one of the reasons that keep the others from happening or
\* for one the model leaves out; the rest is not run.
NodeFails(s) ==
    /\ At(s, "act")
    /\ ToRecord(s)
    /\ UNCHANGED <<where, indexed, enabled, stream, log, left, started, deleted>>

\* The record is written, whether the run succeeded or not.
Record(s) ==
    /\ At(s, "record")
    /\ \/ Emit(Event("upload", Book))
       \/ "record" \in Faults /\ UNCHANGED <<stream, log>>
    /\ End(s)
    /\ UNCHANGED <<where, indexed, enabled, left, started, deleted>>

-----------------------------------------------------------------------------
User ==
    \/ \E i \in Items :
        \/ \E p \in UserPaths : Upload(i, p) \/ UserMove(i, p)
        \/ Share(i) \/ Delete(i)
    \/ \E w \in Workflows : Toggle(w) \/ Sync(w)

Step(s) ==
    \/ Load(s) \/ MoveOrRename(s) \/ Copy(s) \/ Comment(s)
    \/ NodeFails(s) \/ Record(s)

Next ==
    \/ User
    \/ \E e \in Events : Deliver(e) \/ Lose(e) \/ Dispatch(e)
    \/ \E s \in Slots : Step(s)

Spec == Init /\ [][Next]_vars

System ==
    \/ \E e \in Events : Deliver(e) \/ Dispatch(e)
    \/ \E s \in Slots : Step(s)

\* The connection is read on, passes come round to every activity, goroutines
\* run on.  Each does, but it is enough that one of them does at any time.
FairSpec == Spec /\ WF_vars(System)

-----------------------------------------------------------------------------
(* Properties. *)

Run == [at : {"load", "act", "record"}, wf : Workflows, path : Resolutions,
        todo : Seq(Action)]

\* The type invariant of files, queues and runs: a run's path is always one.
TypeOK ==
    /\ where \in [Items -> Paths \cup {Gone}]
    /\ indexed \subseteq Workflows
    /\ enabled \subseteq Workflows
    /\ stream \in [Events -> 0 .. MaxPending]
    /\ log \in [Events -> 0 .. MaxPending]
    /\ run \in [Slots -> Run \cup {Idle}]
    /\ left \in 0 .. UserSteps
    /\ started \subseteq Workflows \X (Items \cup {Book})
    /\ deleted \subseteq Items

\* "never match them, or an unfiltered event trigger would retrigger itself on
\* every execution it records" (manager.go:360-363): no run is ever started for
\* one of the backend's own files.
NoSelfTrigger == \A w \in Workflows : <<w, Book>> \notin started

\* No run destroys a file: only the user's own deletion removes one, however
\* the moves and copies of concurrent runs and of the user race for a path
\* (webdavfile.go:101).
NoFileLost ==
    [][\A i \in Items : where[i] # Gone /\ where'[i] = Gone => i \in deleted']_vars

Matching(w, i) == w \in indexed /\ where[i] \in Def[w].admits

\* What the stream lost the activity log brings back (reconciler.go:304-312): an
\* upload or a move still in the log starts every workflow that keeps matching
\* the file, if the live path did not do so before.
BackstopRuns ==
    \A w \in Workflows, i \in Items, t \in {"upload", "move"} :
        (log[Event(t, i)] > 0 /\ Def[w].on = t /\ Matching(w, i))
        ~> (<<w, i>> \in started \/ ~Matching(w, i))

\* No self-sustaining loop (store.go:33-37): once the user stops acting, every
\* run ends, every event is dealt with, and nothing starts any more.
Quiesces == <>[](Running = {} /\ stream = None /\ log = None)
=============================================================================
