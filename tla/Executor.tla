------------------------------ MODULE Executor ------------------------------
(***************************************************************************)
(* Executor.Run (executor/executor.go): the walk of a workflow's graph,    *)
(* the nodes in that order until one fails, the path that file actions     *)
(* hand on, and the record that says what happened.  Several runs work in  *)
(* one user's space at a time, of one workflow or of several: nothing      *)
(* serialises them.  What starts a run is in EventDispatch and Scheduler.  *)
(*                                                                         *)
(* A call to a service may fail, or fail after it has taken effect; one    *)
(* whose context was cancelled (a manual run whose request went away) does *)
(* the former.  The variables and their rendering are left out: what they  *)
(* do here is make a node fail, which any node can.                        *)
(***************************************************************************)
EXTENDS Naturals, Sequences

CONSTANTS
    Runs,
    Items, Dirs, Names,     \* the user's files, and the paths they may have
    Placement,              \* where the files are at first
    Ids, NoId,              \* node ids; NoId is the empty one
    Graphs,                 \* the graphs that the runs' definitions may have
    UserSteps,              \* bound: what the user does in a behaviour
    Given,                  \* bound: the paths that runs are started with
    Gone, None

Paths == Dirs \X Names
AllIds == Ids \cup {NoId}

Files == {"tag", "comment", "move", "copy", "rename"}
Kinds == {"trigger", "llm", "extractText", "notify", "other"} \cup Files
Node == [id : AllIds, do : Kinds, to : Dirs \cup Names \cup {None}]

\* A graph as the walk sees it: the first trigger, and the two maps.
Graph == [start : AllIds, byID : [AllIds -> Node \cup {None}],
          outgoing : [AllIds -> Seq(AllIds)]]

\* nodes in the order of the definition, edges as <<source, target>>.
GraphOf(nodes, edges) ==
    LET last(i) == CHOOSE k \in DOMAIN nodes :
                     /\ nodes[k].id = i
                     /\ \A l \in DOMAIN nodes : nodes[l].id = i => l <= k
        triggers == {k \in DOMAIN nodes : nodes[k].do = "trigger"}
        from(i) == SelectSeq(edges, LAMBDA e : e[1] = i)
    IN [start |-> IF triggers = {} THEN NoId
                  ELSE nodes[CHOOSE k \in triggers : \A l \in triggers : k <= l].id,
        byID |-> [i \in AllIds |-> IF \E k \in DOMAIN nodes : nodes[k].id = i
                                   THEN nodes[last(i)] ELSE None],
        outgoing |-> [i \in AllIds |-> [k \in DOMAIN from(i) |-> from(i)[k][2]]]]

ASSUME GraphAssumption == Graphs \subseteq Graph
ASSUME NameAssumption ==
    \A g \in Graphs, i \in AllIds : g.byID[i] # None =>
        /\ g.byID[i].id = i
        /\ g.byID[i].do \in {"move", "copy"} => g.byID[i].to \in Dirs
        /\ g.byID[i].do = "rename" => g.byID[i].to \in Names
ASSUME NullAssumption ==
    /\ Gone \notin Paths /\ Gone # None
    /\ None \notin Paths \cup Items \cup Node \cup [status : {"succeeded", "failed"},
                                       results : Seq([id : AllIds, ok : BOOLEAN])]
ASSUME PlacementAssumption ==
    /\ UserSteps \in Nat /\ Given \subseteq Paths \cup {None}
    /\ Placement \in [Items -> Paths \cup {Gone}]
    /\ \A i, j \in Items : Placement[i] = Placement[j] /\ Placement[i] # Gone => i = j

VARIABLES
    at,         \* what each run does: "new", "walk", "nodes", "comment", "record", "over"
    graph,      \* the graph it runs
    queue,      \* of the walk: ids to look at
    visited,    \* of the walk: the ids looked at, in order
    next,       \* the position in visited of the node that is next
    path,       \* the path the file of the run has as far as the run knows
    results,    \* the node results so far
    stored,     \* the record in the store
    where,      \* the path of each file, or Gone where there is none yet
    sidecar,    \* the comments stored for each path, as <<run, node>>
    seen,       \* the comments a run has read and is about to write back
    left,       \* what is left of UserSteps
    subject,    \* ghost: the file that was at the path when the run began
    disturbed,  \* ghost: the runs whose file somebody else moved
    acted,      \* ghost: <<node, file>> of each file action that took effect
    kept,       \* ghost: <<path, comment>> of each comment node that succeeded
    raced,      \* ghost: the comments written while another was, at the same path
    blinded     \* ghost: the paths whose comments a run failed to read

steps == <<at, next, results>>
world == <<where, disturbed, left>>
notes == <<sidecar, seen, kept, raced, blinded>>
plan == <<graph, queue, visited, subject>>
vars == <<steps, path, stored, acted, world, notes, plan>>

Init ==
    /\ at = [r \in Runs |-> "new"]
    /\ graph = [r \in Runs |-> None]
    /\ queue = [r \in Runs |-> <<>>]
    /\ visited = [r \in Runs |-> <<>>]
    /\ next = [r \in Runs |-> 1]
    /\ path = [r \in Runs |-> None]
    /\ results = [r \in Runs |-> <<>>]
    /\ stored = [r \in Runs |-> None]
    /\ where = Placement
    /\ sidecar = [p \in Paths |-> {}]
    /\ seen = [r \in Runs |-> {}]
    /\ left = UserSteps
    /\ subject = [r \in Runs |-> None]
    /\ disturbed = {}
    /\ acted = [r \in Runs |-> {}]
    /\ kept = {}
    /\ raced = {}
    /\ blinded = {}

-----------------------------------------------------------------------------
(* Files. *)

Occupied(p) == \E i \in Items : where[i] = p
FileAt(p) == CHOOSE i \in Items : where[i] = p

\* To a path without a file (Overwrite: F).  The runs among `by` know of it.
Place(i, p, by) ==
    /\ ~Occupied(p)
    /\ where' = [where EXCEPT ![i] = p]
    /\ disturbed' = disturbed \cup {q \in Runs \ by : subject[q] = i}

\* The user uploads a file, or moves it.
UserPuts(i, p) ==
    /\ left > 0
    /\ left' = left - 1
    /\ Place(i, p, {})
    /\ UNCHANGED <<steps, path, stored, acted, notes, plan>>

-----------------------------------------------------------------------------
(* The walk. *)

\* The definition's graph, and the path resolved for the event, given with the
\* request, or none.  Reading the file's content changes nothing here.
Begin(r) ==
    /\ at[r] = "new"
    /\ at' = [at EXCEPT ![r] = "walk"]
    /\ \E g \in Graphs :
        /\ graph' = [graph EXCEPT ![r] = g]
        /\ queue' = [queue EXCEPT ![r] = IF g.start = NoId THEN <<>> ELSE <<g.start>>]
    /\ \E p \in Given :
        /\ path' = [path EXCEPT ![r] = p]
        /\ subject' = [subject EXCEPT ![r] = IF Occupied(p) THEN FileAt(p) ELSE None]
    /\ UNCHANGED <<next, results, visited, stored, acted, world, notes>>

\* Mutant: the node just left is not remembered.
VisitedLate(r, i) == \E k \in 1 .. Len(visited[r]) - 1 : visited[r][k] = i
Visited(r, i) == \E k \in 1 .. Len(visited[r]) : visited[r][k] = i

\* Mutant: only the first edge of a node is followed.
TargetsFirst(r, i) == [k \in DOMAIN graph[r].outgoing[i] \cap {1} |-> graph[r].outgoing[i][k]]
Targets(r, i) == graph[r].outgoing[i]

Walk(r) ==
    /\ at[r] = "walk"
    /\ queue[r] # <<>>
    /\ IF Visited(r, Head(queue[r]))
       THEN queue' = [queue EXCEPT ![r] = Tail(@)] /\ UNCHANGED visited
       ELSE /\ visited' = [visited EXCEPT ![r] = Append(@, Head(queue[r]))]
            /\ queue' = [queue EXCEPT ![r] = Tail(@) \o Targets(r, Head(@))]
    /\ UNCHANGED <<steps, path, stored, acted, world, notes, graph, subject>>

Walked(r) ==
    /\ at[r] = "walk"
    /\ queue[r] = <<>>
    /\ at' = [at EXCEPT ![r] = "nodes"]
    /\ UNCHANGED <<next, results, path, stored, acted, world, notes, plan>>

-----------------------------------------------------------------------------
(* The nodes. *)

Current(r) == visited[r][next[r]]
Pending(r) == at[r] = "nodes" /\ next[r] <= Len(visited[r])
CurrentNode(r) == graph[r].byID[Current(r)]
Runnable(n) == n # None /\ n.do # "trigger"
Doing(r, kinds) == Pending(r) /\ Runnable(CurrentNode(r)) /\ CurrentNode(r).do \in kinds

\* An edge may lead to a node that is not there.
Skip(r) ==
    /\ Pending(r)
    /\ ~Runnable(CurrentNode(r))
    /\ next' = [next EXCEPT ![r] = @ + 1]
    /\ UNCHANGED <<at, results, path, stored, acted, world, notes, plan>>

Result(r, ok) ==
    results' = [results EXCEPT ![r] = Append(@, [id |-> Current(r), ok |-> ok])]

Succeed(r) ==
    /\ Result(r, TRUE)
    /\ next' = [next EXCEPT ![r] = @ + 1]
    /\ at' = [at EXCEPT ![r] = "nodes"]

\* Mutant: the next node is run all the same.
FailGoingOn(r) ==
    Result(r, FALSE) /\ next' = [next EXCEPT ![r] = @ + 1] /\ at' = [at EXCEPT ![r] = "nodes"]
\* Mutant: the node is tried again until it succeeds.
FailRetried(r) == at' = [at EXCEPT ![r] = "nodes"] /\ UNCHANGED <<results, next>>
Fail(r) ==
    /\ Result(r, FALSE)
    /\ at' = [at EXCEPT ![r] = "record"]
    /\ UNCHANGED next

\* What was asked for has happened; the answer may not have arrived.  p is the
\* path the node hands on.
Answer(r, p) ==
    \/ Succeed(r) /\ path' = [path EXCEPT ![r] = p]
    \/ Fail(r) /\ UNCHANGED path

\* Nothing happened: a parameter is empty, there is no target, the call failed.
NodeFails(r) ==
    /\ Doing(r, Kinds)
    /\ Fail(r)
    /\ UNCHANGED <<path, stored, acted, world, notes, plan>>

\* llm, extractText, notify: no file is touched.
NoFile(r) ==
    /\ Doing(r, Kinds \ (Files \cup {"other"}))
    /\ Succeed(r)
    /\ UNCHANGED <<path, stored, acted, world, notes, plan>>

HasTarget(r) == path[r] # None /\ Occupied(path[r])
Act(r, f) == acted' = [acted EXCEPT ![r] = @ \cup {<<Current(r), f>>}]

Tag(r) ==
    /\ Doing(r, {"tag"})
    /\ HasTarget(r)
    /\ Act(r, FileAt(path[r]))
    /\ Answer(r, path[r])
    /\ UNCHANGED <<stored, world, notes, plan>>

\* Mutant: a new name is taken for a folder.
DestinationFolder(r) == <<CurrentNode(r).to, path[r][2]>>
\* move and copy keep the base name, rename keeps the directory.
Destination(r) ==
    LET n == CurrentNode(r) IN
    IF n.do = "rename" THEN <<path[r][1], n.to>> ELSE <<n.to, path[r][2]>>

\* Mutant: the path of before is handed on.
MovedToKept(r) == path[r]
MovedTo(r) == Destination(r)

MoveOrRename(r) ==
    /\ Doing(r, {"move", "rename"})
    /\ HasTarget(r)
    /\ Place(FileAt(path[r]), Destination(r), {r})
    /\ Act(r, FileAt(path[r]))
    /\ Answer(r, MovedTo(r))
    /\ UNCHANGED <<stored, left, notes, plan>>

Copy(r) ==
    /\ Doing(r, {"copy"})
    /\ HasTarget(r)
    /\ \E i \in Items : where[i] = Gone /\ Place(i, Destination(r), {})
    /\ Act(r, FileAt(path[r]))
    /\ Answer(r, path[r])
    /\ UNCHANGED <<stored, left, notes, plan>>

-----------------------------------------------------------------------------
(* A comment: the list at the path is read, and written back longer.  The   *)
(* list is named for the path, not for the file.                           *)

Note(r) == <<r, Current(r)>>
Rivals(r) == {q \in Runs \ {r} : at[q] = "comment" /\ path[q] = path[r]}

\* A list that cannot be read is taken for an empty one.
CommentRead(r) ==
    /\ Doing(r, {"comment"})
    /\ path[r] # None
    /\ at' = [at EXCEPT ![r] = "comment"]
    /\ \/ seen' = [seen EXCEPT ![r] = sidecar[path[r]]] /\ UNCHANGED blinded
       \/ seen' = [seen EXCEPT ![r] = {}] /\ blinded' = blinded \cup {path[r]}
    /\ raced' = IF Rivals(r) = {} THEN raced
                ELSE raced \cup {Note(q) : q \in Rivals(r) \cup {r}}
    /\ UNCHANGED <<next, results, path, stored, acted, world, sidecar, kept, plan>>

\* Mutant: the new comment only.
ListAlone(r) == {Note(r)}
List(r) == seen[r] \cup {Note(r)}

CommentWrite(r) ==
    /\ at[r] = "comment"
    /\ sidecar' = [sidecar EXCEPT ![path[r]] = List(r)]
    /\ Act(r, IF Occupied(path[r]) THEN FileAt(path[r]) ELSE None)
    /\ \/ Succeed(r) /\ kept' = kept \cup {<<path[r], Note(r)>>}
       \/ Fail(r) /\ UNCHANGED kept
    /\ UNCHANGED <<path, stored, world, seen, raced, blinded, plan>>

CommentFails(r) ==
    /\ at[r] = "comment"
    /\ Fail(r)
    /\ UNCHANGED <<path, stored, acted, world, notes, plan>>

-----------------------------------------------------------------------------
(* The record. *)

Complete(r) ==
    /\ at[r] = "nodes"
    /\ next[r] > Len(visited[r])
    /\ at' = [at EXCEPT ![r] = "record"]
    /\ UNCHANGED <<next, results, path, stored, acted, world, notes, plan>>

Status(r) == IF \E k \in 1 .. Len(results[r]) : ~results[r][k].ok
             THEN "failed" ELSE "succeeded"

\* PutExecution; whoever started the run only logs, or reports, a failure.
Record(r) ==
    /\ at[r] = "record"
    /\ at' = [at EXCEPT ![r] = "over"]
    /\ \/ stored' = [stored EXCEPT ![r] = [status |-> Status(r), results |-> results[r]]]
       \/ UNCHANGED stored
    /\ UNCHANGED <<next, results, path, acted, world, notes, plan>>

-----------------------------------------------------------------------------
Step(r) ==
    \/ Begin(r) \/ Walk(r) \/ Walked(r)
    \/ Skip(r) \/ NodeFails(r) \/ NoFile(r) \/ Tag(r) \/ MoveOrRename(r) \/ Copy(r)
    \/ CommentRead(r) \/ CommentWrite(r) \/ CommentFails(r)
    \/ Complete(r) \/ Record(r)

User == \E i \in Items, p \in Paths : UserPuts(i, p)

Next == User \/ \E r \in Runs : Step(r)

Spec == Init /\ [][Next]_vars

\* Every call has a timeout, and a goroutine runs on.
FairSpec == Spec /\ \A r \in Runs : WF_vars(Step(r))

-----------------------------------------------------------------------------
(* Properties. *)

Stored == [status : {"succeeded", "failed"}, results : Seq([id : AllIds, ok : BOOLEAN])]

\* The type invariant of runs, files and comments: a run knows a path or none,
\* whatever chain of moves, renames and copies it has behind it.
TypeOK ==
    /\ at \in [Runs -> {"new", "walk", "nodes", "comment", "record", "over"}]
    /\ graph \in [Runs -> Graphs \cup {None}]
    /\ queue \in [Runs -> Seq(AllIds)]
    /\ visited \in [Runs -> Seq(AllIds)]
    /\ next \in [Runs -> Nat \ {0}]
    /\ path \in [Runs -> Paths \cup {None}]
    /\ results \in [Runs -> Seq([id : AllIds, ok : BOOLEAN])]
    /\ stored \in [Runs -> Stored \cup {None}]
    /\ where \in [Items -> Paths \cup {Gone}]
    /\ sidecar \in [Paths -> SUBSET (Runs \X AllIds)]
    /\ seen \in [Runs -> SUBSET (Runs \X AllIds)]
    /\ left \in Nat
    /\ subject \in [Runs -> Items \cup {None}]
    /\ disturbed \subseteq Runs
    /\ acted \in [Runs -> SUBSET (AllIds \X (Items \cup {None}))]
    /\ kept \subseteq Paths \X (Runs \X AllIds)
    /\ raced \subseteq Runs \X AllIds
    /\ blinded \subseteq Paths

\* "following edges, so nodes execute in the order the user chained them"
\* (executor.go:119-121): on every graph, with cycles, joins and edges to nothing,
\* the walk starts at the trigger, comes to a node once, and after one that leads
\* to it.
WalkInOrder ==
    \A r \in Runs : \A k \in 1 .. Len(visited[r]) :
        /\ k = 1 => visited[r][k] = graph[r].start
        /\ \A l \in 1 .. k - 1 : visited[r][l] # visited[r][k]
        /\ k > 1 => \E l \in 1 .. k - 1 :
                      \E m \in DOMAIN graph[r].outgoing[visited[r][l]] :
                        graph[r].outgoing[visited[r][l]][m] = visited[r][k]

\* A set of ids that has the trigger and that no edge leads out of.
Closed(g, S) ==
    /\ g.start # NoId => g.start \in S
    /\ \A i \in S : \A k \in DOMAIN g.outgoing[i] : g.outgoing[i][k] \in S
Reachable(g) == {i \in AllIds : \A S \in SUBSET AllIds : Closed(g, S) => i \in S}

IdsOf(s) == {s[k].id : k \in 1 .. Len(s)}

\* "every reachable node always runs" (executor.go:121): a record that says
\* succeeded has a result for every node that can be reached, and for no other.
SucceededRanAll ==
    \A r \in Runs :
        (stored[r] # None /\ stored[r].status = "succeeded") =>
            IdsOf(stored[r].results)
              = {i \in Reachable(graph[r]) : Runnable(graph[r].byID[i])}

\* A record tells what was done (executor.go:99-114): one node at most failed,
\* the last, and the status says so; a file action it calls succeeded took
\* effect; and no action took effect that it does not name.
RecordTells ==
    \A r \in Runs : stored[r] # None =>
        LET rs == stored[r].results IN
        /\ \A k \in 1 .. Len(rs) - 1 : rs[k].ok
        /\ (stored[r].status = "failed") = (rs # <<>> /\ ~rs[Len(rs)].ok)
        /\ \A k \in 1 .. Len(rs) :
            rs[k].ok /\ graph[r].byID[rs[k].id].do \in Files
              => \E a \in acted[r] : a[1] = rs[k].id
        /\ \A a \in acted[r] : a[1] \in IdsOf(rs)

\* The file of a run is the one it was started for (executor.go:203-278): through
\* every move, rename and copy of its own, and whatever other runs do to other
\* files, its actions find that file, unless somebody else moves it.
ActsOnItsFile ==
    \A r \in Runs : (subject[r] # None /\ r \notin disturbed) =>
        \A a \in acted[r] : a[2] = subject[r]

\* "Comment appends a comment to a file" (webdavfile.go:115): a comment that a
\* node reported as made is still in the list of its path, unless another run
\* was commenting there at the same time or could not read the list.
CommentsKept ==
    \A k \in kept : k[2] \in sidecar[k[1]] \cup raced \/ k[1] \in blinded

\* Every run ends, whatever its graph.
RunEnds == \A r \in Runs : <>(at[r] = "over")
=============================================================================
