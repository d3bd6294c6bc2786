--------------------------- MODULE ExecutorProofs ---------------------------
(***************************************************************************)
(* Proofs about Executor, for every set of runs, files and graphs.         *)
(***************************************************************************)
EXTENDS Executor, TLAPS

\* What a run has before and after each of its stages.
Stages ==
    \A r \in Runs :
        /\ at[r] = "new" => /\ visited[r] = <<>> /\ queue[r] = <<>> /\ results[r] = <<>>
                            /\ acted[r] = {} /\ subject[r] = None /\ next[r] = 1
        /\ at[r] # "new" => graph[r] \in Graphs
        /\ at[r] = "walk" => results[r] = <<>> /\ acted[r] = {} /\ next[r] = 1
        /\ at[r] = "comment" => /\ next[r] <= Len(visited[r])
                                /\ Runnable(CurrentNode(r))
                                /\ CurrentNode(r).do = "comment"
                                /\ path[r] # None
        /\ at[r] # "over" => stored[r] = None

Typed == TypeOK /\ Stages

\* A run's step changes nothing of another run's own.
Own(q) == <<at[q], graph[q], queue[q], visited[q], next[q], path[q], results[q],
            stored[q], seen[q], subject[q], acted[q]>>

LEMMA Others ==
    ASSUME Typed, NEW r \in Runs, Step(r), NEW q \in Runs, q # r
    PROVE  Own(q)' = Own(q)
<1>. USE DEF Typed, TypeOK, Own, steps, world, notes, plan
<1>1. CASE Begin(r) BY <1>1 DEF Begin
<1>2. CASE Walk(r) BY <1>2 DEF Walk
<1>3. CASE Walked(r) BY <1>3 DEF Walked
<1>4. CASE Skip(r) BY <1>4 DEF Skip
<1>5. CASE NodeFails(r) BY <1>5 DEF NodeFails, Fail, Result
<1>6. CASE NoFile(r) BY <1>6 DEF NoFile, Succeed, Result
<1>7. CASE Tag(r) BY <1>7 DEF Tag, Answer, Act, Fail, Succeed, Result
<1>8. CASE MoveOrRename(r) BY <1>8 DEF MoveOrRename, Answer, Act, Fail, Succeed, Result
<1>9. CASE Copy(r) BY <1>9 DEF Copy, Answer, Act, Fail, Succeed, Result
<1>10. CASE CommentRead(r) BY <1>10 DEF CommentRead
<1>11. CASE CommentWrite(r) BY <1>11 DEF CommentWrite, Act, Fail, Succeed, Result
<1>12. CASE CommentFails(r) BY <1>12 DEF CommentFails, Fail, Result
<1>13. CASE Complete(r) BY <1>13 DEF Complete
<1>14. CASE Record(r) BY <1>14 DEF Record
<1>. QED BY <1>1, <1>2, <1>3, <1>4, <1>5, <1>6, <1>7, <1>8, <1>9, <1>10, <1>11, <1>12,
            <1>13, <1>14 DEF Step

-----------------------------------------------------------------------------
(* Types. *)

\* The node a run is about to run, and where its file goes.
LEMMA CurrentTypes ==
    ASSUME Typed, NEW r \in Runs, at[r] # "new", next[r] <= Len(visited[r])
    PROVE  /\ Current(r) \in AllIds
           /\ graph[r] \in Graph
           /\ CurrentNode(r) \in Node \cup {None}
           /\ CurrentNode(r) # None => CurrentNode(r).id = Current(r)
<1>1. Current(r) \in AllIds BY DEF Typed, TypeOK, Current
<1>2. graph[r] \in Graphs BY DEF Typed, Stages
<1>3. graph[r] \in Graph BY <1>2, GraphAssumption
<1>4. graph[r].byID \in [AllIds -> Node \cup {None}] BY <1>3 DEF Graph
<1>. QED BY <1>1, <1>2, <1>3, <1>4, NameAssumption DEF CurrentNode

LEMMA DestinationType ==
    ASSUME Typed, NEW r \in Runs, Doing(r, {"move", "copy", "rename"}), HasTarget(r)
    PROVE  path[r] \in Paths /\ Destination(r) \in Paths
<1>1. at[r] # "new" /\ next[r] <= Len(visited[r]) /\ CurrentNode(r) # None
      BY DEF Doing, Pending, Runnable
<1>2. graph[r] \in Graphs /\ Current(r) \in AllIds
      BY <1>1, CurrentTypes DEF Typed, Stages
<1>3. path[r] \in Paths BY DEF Typed, TypeOK, HasTarget
<1>4. path[r][1] \in Dirs /\ path[r][2] \in Names BY <1>3 DEF Paths
<1>5. /\ CurrentNode(r).do \in {"move", "copy"} => CurrentNode(r).to \in Dirs
      /\ CurrentNode(r).do = "rename" => CurrentNode(r).to \in Names
      BY <1>1, <1>2, NameAssumption DEF CurrentNode
<1>. QED BY <1>3, <1>4, <1>5 DEF Doing, Destination, Paths

LEMMA FileAtType ==
    ASSUME NEW p, Occupied(p)
    PROVE  FileAt(p) \in Items /\ where[FileAt(p)] = p
BY DEF Occupied, FileAt

LEMMA ResultType ==
    ASSUME Typed, NEW r \in Runs, at[r] # "new", next[r] <= Len(visited[r]),
           NEW ok \in BOOLEAN, Result(r, ok)
    PROVE  results' \in [Runs -> Seq([id : AllIds, ok : BOOLEAN])]
<1>1. [id |-> Current(r), ok |-> ok] \in [id : AllIds, ok : BOOLEAN] BY CurrentTypes
<1>. DEFINE R == [id : AllIds, ok : BOOLEAN]
<1>. HIDE DEF R
<1>2. results \in [Runs -> Seq(R)] BY DEF Typed, TypeOK, R
<1>3. Append(results[r], [id |-> Current(r), ok |-> ok]) \in Seq(R)
      <2>1. [id |-> Current(r), ok |-> ok] \in R BY <1>1 DEF R
      <2>. QED BY <1>2, <2>1
<1>4. results' = [results EXCEPT ![r] = Append(@, [id |-> Current(r), ok |-> ok])]
      BY DEF Result
<1>5. results' \in [Runs -> Seq(R)] BY <1>2, <1>3, <1>4
<1>. QED BY <1>5 DEF R

LEMMA NextType ==
    ASSUME TypeOK, NEW r \in Runs, next' = [next EXCEPT ![r] = @ + 1]
    PROVE  next' \in [Runs -> Nat \ {0}]
<1>1. next \in [Runs -> Nat \ {0}] BY DEF TypeOK
<1>2. next[r] + 1 \in Nat \ {0} BY <1>1
<1>. QED BY <1>1, <1>2

\* What every node leaves of its run, whether it succeeds or fails.
LEMMA Done ==
    ASSUME Typed, NEW r \in Runs, at[r] # "new", next[r] <= Len(visited[r]),
           Succeed(r) \/ Fail(r)
    PROVE  /\ results' \in [Runs -> Seq([id : AllIds, ok : BOOLEAN])]
           /\ next' \in [Runs -> Nat \ {0}]
           /\ at' \in [Runs -> {"new", "walk", "nodes", "comment", "record", "over"}]
           /\ at'[r] \in {"nodes", "record"}
<1>1. results' \in [Runs -> Seq([id : AllIds, ok : BOOLEAN])]
      <2>1. CASE Result(r, TRUE) BY <2>1, ResultType
      <2>2. CASE Result(r, FALSE) BY <2>2, ResultType
      <2>. QED BY <2>1, <2>2 DEF Succeed, Fail
<1>2. CASE Succeed(r)
      <2>1. next' \in [Runs -> Nat \ {0}] BY <1>2, NextType DEF Succeed, Typed
      <2>. QED BY <1>1, <1>2, <2>1 DEF Succeed, Typed, TypeOK
<1>3. CASE Fail(r) BY <1>1, <1>3 DEF Fail, Typed, TypeOK
<1>. QED BY <1>2, <1>3

LEMMA PlaceType ==
    ASSUME TypeOK, NEW i \in Items, NEW p \in Paths, NEW by, Place(i, p, by)
    PROVE  where' \in [Items -> Paths \cup {Gone}] /\ disturbed' \subseteq Runs
BY DEF TypeOK, Place

LEMMA AnswerType ==
    ASSUME Typed, NEW r \in Runs, at[r] # "new", NEW p \in Paths, Answer(r, p)
    PROVE  path' \in [Runs -> Paths \cup {None}] /\ (Succeed(r) \/ Fail(r))
BY DEF Answer, Typed, TypeOK

-----------------------------------------------------------------------------
LEMMA TypeOfStep ==
    ASSUME Typed, NEW r \in Runs, Step(r)
    PROVE  TypeOK'
<1>. USE DEF steps, world, notes, plan
<1>t. TypeOK BY DEF Typed
<1>1. CASE Begin(r)
      <2>1. PICK g \in Graphs, p \in Given :
               /\ graph' = [graph EXCEPT ![r] = g]
               /\ queue' = [queue EXCEPT ![r] = IF g.start = NoId THEN <<>> ELSE <<g.start>>]
               /\ path' = [path EXCEPT ![r] = p]
               /\ subject' = [subject EXCEPT ![r] = IF Occupied(p) THEN FileAt(p) ELSE None]
            BY <1>1 DEF Begin
      <2>2. g.start \in AllIds BY GraphAssumption DEF Graph
      <2>3. p \in Paths \cup {None} BY PlacementAssumption
      <2>4. (IF Occupied(p) THEN FileAt(p) ELSE None) \in Items \cup {None} BY FileAtType
      <2>5. queue' \in [Runs -> Seq(AllIds)] BY <2>1, <2>2, <1>t DEF TypeOK
      <2>. QED BY <1>1, <1>t, <2>1, <2>3, <2>4, <2>5 DEF Begin, TypeOK
<1>2. CASE Walk(r)
      <2>1. at[r] # "new" /\ graph[r] \in Graph BY <1>2, GraphAssumption DEF Walk, Typed, Stages
      <2>2. /\ queue[r] \in Seq(AllIds) /\ queue[r] # <<>> /\ visited[r] \in Seq(AllIds)
            BY <1>2, <1>t DEF Walk, TypeOK
      <2>3. Head(queue[r]) \in AllIds /\ Tail(queue[r]) \in Seq(AllIds) BY <2>2
      <2>4. Targets(r, Head(queue[r])) \in Seq(AllIds) BY <2>1, <2>3 DEF Targets, Graph
      <2>5. visited' \in [Runs -> Seq(AllIds)]
            <3>1. Append(visited[r], Head(queue[r])) \in Seq(AllIds) BY <2>2, <2>3
            <3>. QED BY <1>2, <1>t, <3>1 DEF Walk, TypeOK
      <2>6. Tail(queue[r]) \o Targets(r, Head(queue[r])) \in Seq(AllIds) BY <2>3, <2>4
      <2>7. queue' \in [Runs -> Seq(AllIds)] BY <1>2, <1>t, <2>3, <2>6 DEF Walk, TypeOK
      <2>. QED BY <1>2, <1>t, <2>5, <2>7 DEF Walk, TypeOK
<1>3. CASE Walked(r) BY <1>3, <1>t DEF Walked, TypeOK
<1>4. CASE Skip(r) BY <1>4, <1>t, NextType DEF Skip, TypeOK
<1>5. CASE NodeFails(r)
      <2>1. at[r] # "new" /\ next[r] <= Len(visited[r]) BY <1>5 DEF NodeFails, Doing, Pending
      <2>. QED BY <1>5, <1>t, <2>1, Done DEF NodeFails, TypeOK
<1>6. CASE NoFile(r)
      <2>1. at[r] # "new" /\ next[r] <= Len(visited[r]) BY <1>6 DEF NoFile, Doing, Pending
      <2>. QED BY <1>6, <1>t, <2>1, Done DEF NoFile, TypeOK
<1>7. CASE Tag(r)
      <2>1. at[r] # "new" /\ next[r] <= Len(visited[r]) BY <1>7 DEF Tag, Doing, Pending
      <2>2. path[r] \in Paths BY <1>7, <1>t DEF Tag, HasTarget, TypeOK
      <2>3. path' \in [Runs -> Paths \cup {None}] /\ (Succeed(r) \/ Fail(r))
            BY <1>7, <2>1, <2>2, AnswerType DEF Tag
      <2>4. Current(r) \in AllIds BY <2>1, CurrentTypes
      <2>5. FileAt(path[r]) \in Items BY <1>7, FileAtType DEF Tag, HasTarget
      <2>6. acted' \in [Runs -> SUBSET (AllIds \X (Items \cup {None}))]
            BY <1>7, <1>t, <2>4, <2>5 DEF Tag, Act, TypeOK
      <2>. QED BY <1>7, <1>t, <2>1, <2>3, <2>6, Done DEF Tag, TypeOK
<1>8. CASE MoveOrRename(r)
      <2>1. at[r] # "new" /\ next[r] <= Len(visited[r]) BY <1>8 DEF MoveOrRename, Doing, Pending
      <2>2. Destination(r) \in Paths
            <3>1. Doing(r, {"move", "copy", "rename"}) BY <1>8 DEF MoveOrRename, Doing
            <3>. QED BY <1>8, <3>1, DestinationType DEF MoveOrRename
      <2>3. path' \in [Runs -> Paths \cup {None}] /\ (Succeed(r) \/ Fail(r))
            BY <1>8, <2>1, <2>2, AnswerType DEF MoveOrRename, MovedTo
      <2>4. Current(r) \in AllIds BY <2>1, CurrentTypes
      <2>5. FileAt(path[r]) \in Items BY <1>8, FileAtType DEF MoveOrRename, HasTarget
      <2>6. acted' \in [Runs -> SUBSET (AllIds \X (Items \cup {None}))]
            BY <1>8, <1>t, <2>4, <2>5 DEF MoveOrRename, Act, TypeOK
      <2>7. where' \in [Items -> Paths \cup {Gone}] /\ disturbed' \subseteq Runs
            BY <1>8, <1>t, <2>2, <2>5, PlaceType DEF MoveOrRename
      <2>. QED BY <1>8, <1>t, <2>1, <2>3, <2>6, <2>7, Done DEF MoveOrRename, TypeOK
<1>9. CASE Copy(r)
      <2>1. at[r] # "new" /\ next[r] <= Len(visited[r]) BY <1>9 DEF Copy, Doing, Pending
      <2>2. path[r] \in Paths /\ Destination(r) \in Paths
            <3>1. Doing(r, {"move", "copy", "rename"}) BY <1>9 DEF Copy, Doing
            <3>. QED BY <1>9, <3>1, DestinationType DEF Copy
      <2>3. path' \in [Runs -> Paths \cup {None}] /\ (Succeed(r) \/ Fail(r))
            BY <1>9, <2>1, <2>2, AnswerType DEF Copy
      <2>4. Current(r) \in AllIds BY <2>1, CurrentTypes
      <2>5. FileAt(path[r]) \in Items BY <1>9, FileAtType DEF Copy, HasTarget
      <2>6. acted' \in [Runs -> SUBSET (AllIds \X (Items \cup {None}))]
            BY <1>9, <1>t, <2>4, <2>5 DEF Copy, Act, TypeOK
      <2>7. where' \in [Items -> Paths \cup {Gone}] /\ disturbed' \subseteq Runs
            <3>1. PICK i \in Items : Place(i, Destination(r), {}) BY <1>9 DEF Copy
            <3>. QED BY <1>t, <2>2, <3>1, PlaceType
      <2>. QED BY <1>9, <1>t, <2>1, <2>3, <2>6, <2>7, Done DEF Copy, TypeOK
<1>10. CASE CommentRead(r)
      <2>1. at[r] # "new" /\ next[r] <= Len(visited[r]) BY <1>10 DEF CommentRead, Doing, Pending
      <2>2. path[r] \in Paths BY <1>10, <1>t DEF CommentRead, TypeOK
      <2>3. raced' \subseteq Runs \X AllIds
            <3>1. \A q \in Rivals(r) \cup {r} : Note(q) \in Runs \X AllIds
                  <4>1. \A q \in Rivals(r) \cup {r} :
                           q \in Runs /\ at[q] # "new" /\ next[q] <= Len(visited[q])
                        BY <2>1 DEF Rivals, Typed, Stages
                  <4>2. \A q \in Rivals(r) \cup {r} : Current(q) \in AllIds
                        BY <4>1, CurrentTypes
                  <4>. QED BY <4>1, <4>2 DEF Note
            <3>. QED BY <1>10, <1>t, <3>1 DEF CommentRead, TypeOK
      <2>4. seen' \in [Runs -> SUBSET (Runs \X AllIds)] /\ blinded' \subseteq Paths
            BY <1>10, <1>t, <2>2 DEF CommentRead, TypeOK
      <2>. QED BY <1>10, <1>t, <2>3, <2>4 DEF CommentRead, TypeOK
<1>11. CASE CommentWrite(r)
      <2>1. at[r] # "new" /\ next[r] <= Len(visited[r]) BY <1>11 DEF CommentWrite, Typed, Stages
      <2>2. path[r] \in Paths BY <1>11, <1>t DEF CommentWrite, Typed, Stages, TypeOK
      <2>3. Current(r) \in AllIds /\ Note(r) \in Runs \X AllIds BY <2>1, CurrentTypes DEF Note
      <2>4. sidecar' \in [Paths -> SUBSET (Runs \X AllIds)]
            BY <1>11, <1>t, <2>3 DEF CommentWrite, List, TypeOK
      <2>5. (IF Occupied(path[r]) THEN FileAt(path[r]) ELSE None) \in Items \cup {None}
            BY FileAtType
      <2>6. acted' \in [Runs -> SUBSET (AllIds \X (Items \cup {None}))]
            BY <1>11, <1>t, <2>3, <2>5 DEF CommentWrite, Act, TypeOK
      <2>7. kept' \subseteq Paths \X (Runs \X AllIds)
            BY <1>11, <1>t, <2>2, <2>3 DEF CommentWrite, TypeOK
      <2>8. Succeed(r) \/ Fail(r) BY <1>11 DEF CommentWrite
      <2>. QED BY <1>11, <1>t, <2>1, <2>4, <2>6, <2>7, <2>8, Done DEF CommentWrite, TypeOK
<1>12. CASE CommentFails(r)
      <2>1. at[r] # "new" /\ next[r] <= Len(visited[r]) BY <1>12 DEF CommentFails, Typed, Stages
      <2>. QED BY <1>12, <1>t, <2>1, Done DEF CommentFails, TypeOK
<1>13. CASE Complete(r) BY <1>13, <1>t DEF Complete, TypeOK
<1>14. CASE Record(r)
      <2>1. [status |-> Status(r), results |-> results[r]] \in Stored
            BY <1>t DEF Status, Stored, TypeOK
      <2>. QED BY <1>14, <1>t, <2>1 DEF Record, TypeOK
<1>. QED BY <1>1, <1>2, <1>3, <1>4, <1>5, <1>6, <1>7, <1>8, <1>9, <1>10, <1>11, <1>12,
            <1>13, <1>14 DEF Step

LEMMA StagesOfStep ==
    ASSUME Typed, NEW r \in Runs, Step(r)
    PROVE  Stages'
<1>. USE DEF steps, world, notes, plan
<1>t. TypeOK /\ Stages BY DEF Typed
<1>1. ASSUME NEW q \in Runs, q # r
      PROVE  /\ at[q]' = at[q] /\ graph[q]' = graph[q] /\ queue[q]' = queue[q]
             /\ visited[q]' = visited[q] /\ next[q]' = next[q] /\ path[q]' = path[q]
             /\ results[q]' = results[q] /\ stored[q]' = stored[q] /\ acted[q]' = acted[q]
             /\ subject[q]' = subject[q]
      BY <1>1, Others DEF Own
<1>a. DEFINE Stage(q) ==
        /\ at[q] = "new" => /\ visited[q] = <<>> /\ queue[q] = <<>> /\ results[q] = <<>>
                            /\ acted[q] = {} /\ subject[q] = None /\ next[q] = 1
        /\ at[q] # "new" => graph[q] \in Graphs
        /\ at[q] = "walk" => results[q] = <<>> /\ acted[q] = {} /\ next[q] = 1
        /\ at[q] = "comment" => /\ next[q] <= Len(visited[q])
                                /\ Runnable(CurrentNode(q))
                                /\ CurrentNode(q).do = "comment"
                                /\ path[q] # None
        /\ at[q] # "over" => stored[q] = None
<1>b. \A q \in Runs : Stage(q) BY <1>t DEF Stages
<1>2. ASSUME NEW q \in Runs, q # r PROVE Stage(q)'
      BY <1>1, <1>2, <1>b DEF CurrentNode, Current, Runnable
<1>3. Stage(r)'
      <2>0. Stage(r) BY <1>b
      <2>1. CASE Begin(r) BY <1>t, <2>0, <2>1 DEF Begin, TypeOK
      <2>2. CASE Walk(r) BY <1>t, <2>0, <2>2 DEF Walk, TypeOK
      <2>3. CASE Walked(r) BY <1>t, <2>0, <2>3 DEF Walked, TypeOK
      <2>4. CASE Skip(r) BY <1>t, <2>0, <2>4 DEF Skip, Pending, TypeOK
      <2>5. CASE NodeFails(r)
            BY <1>t, <2>0, <2>5 DEF NodeFails, Fail, Doing, Pending, TypeOK
      <2>6. CASE NoFile(r)
            BY <1>t, <2>0, <2>6 DEF NoFile, Succeed, Doing, Pending, TypeOK
      <2>7. CASE Tag(r)
            BY <1>t, <2>0, <2>7 DEF Tag, Answer, Fail, Succeed, Doing, Pending, TypeOK
      <2>8. CASE MoveOrRename(r)
            BY <1>t, <2>0, <2>8 DEF MoveOrRename, Answer, Fail, Succeed, Doing, Pending, TypeOK
      <2>9. CASE Copy(r)
            BY <1>t, <2>0, <2>9 DEF Copy, Answer, Fail, Succeed, Doing, Pending, TypeOK
      <2>10. CASE CommentRead(r)
            BY <1>t, <2>0, <2>10 DEF CommentRead, Doing, Pending, CurrentNode, Current,
                                     Runnable, TypeOK
      <2>11. CASE CommentWrite(r)
            BY <1>t, <2>0, <2>11 DEF CommentWrite, Fail, Succeed, TypeOK
      <2>12. CASE CommentFails(r)
            BY <1>t, <2>0, <2>12 DEF CommentFails, Fail, TypeOK
      <2>13. CASE Complete(r) BY <1>t, <2>0, <2>13 DEF Complete, TypeOK
      <2>14. CASE Record(r) BY <1>t, <2>0, <2>14 DEF Record, TypeOK
      <2>. HIDE DEF Stage
      <2>. QED BY <2>1, <2>2, <2>3, <2>4, <2>5, <2>6, <2>7, <2>8, <2>9, <2>10, <2>11, <2>12,
                  <2>13, <2>14 DEF Step
<1>4. \A q \in Runs : Stage(q)'
      <2>. HIDE DEF Stage
      <2>. QED BY <1>2, <1>3
<1>. QED BY <1>4 DEF Stages

LEMMA TypeOfUser ==
    ASSUME Typed, User
    PROVE  Typed'
<1>. USE DEF steps, world, notes, plan
<1>1. PICK i \in Items, p \in Paths : UserPuts(i, p) BY DEF User
<1>2. where' \in [Items -> Paths \cup {Gone}] /\ disturbed' \subseteq Runs
      BY <1>1, PlaceType DEF UserPuts, Typed
<1>3. left' \in Nat BY <1>1 DEF UserPuts, Typed, TypeOK
<1>4. TypeOK' BY <1>1, <1>2, <1>3 DEF UserPuts, Typed, TypeOK
<1>5. Stages' BY <1>1 DEF UserPuts, Typed, Stages, CurrentNode, Current, Runnable
<1>. QED BY <1>4, <1>5 DEF Typed

LEMMA TypeOfStutter ==
    ASSUME Typed, UNCHANGED vars
    PROVE  Typed'
BY DEF Typed, TypeOK, Stages, CurrentNode, Current, Runnable, vars, steps, world, notes, plan

LEMMA TypeOfInit ==
    ASSUME Init
    PROVE  Typed
BY PlacementAssumption DEF Init, Typed, TypeOK, Stages

THEOREM TypeInvariance == Spec => []Typed
<1>1. Init => Typed BY TypeOfInit
<1>2. Typed /\ [Next]_vars => Typed'
      BY TypeOfStep, StagesOfStep, TypeOfUser, TypeOfStutter DEF Next, Typed
<1>. QED BY <1>1, <1>2, PTL DEF Spec

\* The state of every run is well formed: whatever chain of moves, renames and
\* copies it has behind it, it knows a path or none (executor.go:94, 248, 272).
THEOREM TypeCorrect == Spec => []TypeOK
<1>1. Typed => TypeOK BY DEF Typed
<1>. QED BY <1>1, TypeInvariance, PTL

-----------------------------------------------------------------------------
(* The walk. *)

In(x, s) == \E k \in 1 .. Len(s) : s[k] = x

LEMMA InTail ==
    ASSUME NEW X, NEW s \in Seq(X), s # <<>>, NEW x
    PROVE  In(x, s) <=> (x = Head(s) \/ In(x, Tail(s)))
<1>1. Len(Tail(s)) = Len(s) - 1 /\ Len(s) >= 1 /\ Head(s) = s[1] OBVIOUS
<1>2. \A k \in 1 .. Len(s) - 1 : Tail(s)[k] = s[k + 1] OBVIOUS
<1>3. ASSUME In(x, s), x # Head(s) PROVE In(x, Tail(s))
      <2>1. PICK k \in 1 .. Len(s) : s[k] = x BY <1>3 DEF In
      <2>2. k - 1 \in 1 .. Len(s) - 1 /\ k = (k - 1) + 1 BY <1>1, <1>3, <2>1
      <2>. QED BY <1>1, <1>2, <2>1, <2>2 DEF In
<1>4. ASSUME In(x, Tail(s)) PROVE In(x, s)
      <2>1. PICK k \in 1 .. Len(s) - 1 : s[k + 1] = x BY <1>1, <1>2, <1>4 DEF In
      <2>2. k + 1 \in 1 .. Len(s) BY <1>1
      <2>. QED BY <2>1, <2>2 DEF In
<1>5. x = Head(s) => In(x, s) BY <1>1 DEF In
<1>. QED BY <1>3, <1>4, <1>5

LEMMA InConcat ==
    ASSUME NEW X, NEW s \in Seq(X), NEW t \in Seq(X), NEW x
    PROVE  In(x, s \o t) <=> (In(x, s) \/ In(x, t))
<1>1. Len(s \o t) = Len(s) + Len(t) OBVIOUS
<1>2. \A k \in 1 .. Len(s) : (s \o t)[k] = s[k] OBVIOUS
<1>3. \A k \in 1 .. Len(t) : (s \o t)[Len(s) + k] = t[k] OBVIOUS
<1>4. ASSUME In(x, s \o t) PROVE In(x, s) \/ In(x, t)
      <2>1. PICK k \in 1 .. Len(s) + Len(t) : (s \o t)[k] = x BY <1>1, <1>4 DEF In
      <2>2. CASE k <= Len(s) BY <1>2, <2>1, <2>2 DEF In
      <2>3. CASE k > Len(s)
            <3>1. k - Len(s) \in 1 .. Len(t) /\ Len(s) + (k - Len(s)) = k BY <2>1, <2>3
            <3>2. t[k - Len(s)] = x BY <1>3, <2>1, <3>1
            <3>. QED BY <3>1, <3>2 DEF In
      <2>. QED BY <2>2, <2>3
<1>5. In(x, s) => In(x, s \o t) BY <1>1, <1>2 DEF In
<1>6. ASSUME In(x, t) PROVE In(x, s \o t)
      <2>1. PICK k \in 1 .. Len(t) : t[k] = x BY <1>6 DEF In
      <2>2. Len(s) + k \in 1 .. Len(s \o t) /\ (s \o t)[Len(s) + k] = x BY <1>1, <1>3, <2>1
      <2>. QED BY <2>2 DEF In
<1>. QED BY <1>4, <1>5, <1>6

LEMMA InAppend ==
    ASSUME NEW X, NEW s \in Seq(X), NEW y \in X, NEW x
    PROVE  In(x, Append(s, y)) <=> (In(x, s) \/ x = y)
<1>1. Len(Append(s, y)) = Len(s) + 1 /\ Append(s, y)[Len(s) + 1] = y OBVIOUS
<1>2. \A k \in 1 .. Len(s) : Append(s, y)[k] = s[k] OBVIOUS
<1>3. ASSUME In(x, Append(s, y)), x # y PROVE In(x, s)
      <2>1. PICK k \in 1 .. Len(s) + 1 : Append(s, y)[k] = x BY <1>1, <1>3 DEF In
      <2>2. k \in 1 .. Len(s) BY <1>1, <1>3, <2>1
      <2>. QED BY <1>2, <2>1, <2>2 DEF In
<1>4. In(x, s) => In(x, Append(s, y)) BY <1>1, <1>2 DEF In
<1>5. Len(s) + 1 \in 1 .. Len(Append(s, y)) BY <1>1
<1>6. In(y, Append(s, y)) BY <1>1, <1>5 DEF In
<1>. QED BY <1>3, <1>4, <1>6

\* The walk of one run: what is queued comes from what was visited, what was
\* visited has its targets visited or queued, and neither leaves a closed set.
WalkOf(q) ==
    /\ \A k \in 1 .. Len(visited[q]) :
        /\ k = 1 => visited[q][k] = graph[q].start
        /\ \A l \in 1 .. k - 1 : visited[q][l] # visited[q][k]
        /\ k > 1 => \E l \in 1 .. k - 1 : In(visited[q][k], graph[q].outgoing[visited[q][l]])
    /\ at[q] # "new" /\ visited[q] = <<>> =>
        queue[q] = IF graph[q].start = NoId THEN <<>> ELSE <<graph[q].start>>
    /\ visited[q] # <<>> => \A i : In(i, queue[q]) =>
        \E l \in 1 .. Len(visited[q]) : In(i, graph[q].outgoing[visited[q][l]])
    /\ \A i, j : In(i, visited[q]) /\ In(j, graph[q].outgoing[i]) =>
        In(j, visited[q]) \/ In(j, queue[q])
    /\ at[q] # "new" => \A S \in SUBSET AllIds : Closed(graph[q], S) =>
        \A i : In(i, visited[q]) \/ In(i, queue[q]) => i \in S
    /\ at[q] \notin {"new", "walk"} => queue[q] = <<>>

LEMMA WalkOfFrame ==
    ASSUME NEW q \in Runs, WalkOf(q),
           graph'[q] = graph[q], queue'[q] = queue[q], visited'[q] = visited[q],
           \/ at'[q] = at[q]
           \/ at'[q] \notin {"new", "walk"} /\ queue[q] = <<>> /\ at[q] # "new"
    PROVE  WalkOf(q)'
BY DEF WalkOf, In, Closed

LEMMA WalkOfBegin ==
    ASSUME Typed, NEW r \in Runs, Begin(r), WalkOf(r)
    PROVE  WalkOf(r)'
<1>1. PICK g \in Graphs : /\ graph' = [graph EXCEPT ![r] = g]
                          /\ queue' = [queue EXCEPT ![r] = IF g.start = NoId THEN <<>> ELSE <<g.start>>]
      BY DEF Begin
<1>2. visited'[r] = <<>> /\ graph'[r] = g /\ at'[r] = "walk"
      /\ queue'[r] = (IF g.start = NoId THEN <<>> ELSE <<g.start>>)
      BY <1>1 DEF Begin, Typed, TypeOK, Stages
<1>3. \A i : ~In(i, visited'[r]) BY <1>2 DEF In
<1>4. \A i : In(i, queue'[r]) => g.start # NoId /\ i = g.start BY <1>2 DEF In
<1>5. \A i : In(i, visited[r])' <=> In(i, visited'[r]) BY DEF In
<1>6. \A i : In(i, queue[r])' <=> In(i, queue'[r]) BY DEF In
<1>. QED BY <1>2, <1>3, <1>4, <1>5, <1>6 DEF WalkOf, Closed

LEMMA WalkOfWalk ==
    ASSUME Typed, NEW r \in Runs, Walk(r), WalkOf(r)
    PROVE  WalkOf(r)'
<1>. DEFINE g == graph[r]  V == visited[r]  Q == queue[r]  h == Head(queue[r])
            T == graph[r].outgoing[Head(queue[r])]  W == visited'[r]  P == queue'[r]
            Ordered == \A k \in 1 .. Len(W) :
                /\ k = 1 => W[k] = g.start
                /\ \A l \in 1 .. k - 1 : W[l] # W[k]
                /\ k > 1 => \E l \in 1 .. k - 1 : In(W[k], g.outgoing[W[l]])
            Queued == \A i : In(i, P) => \E l \in 1 .. Len(W) : In(i, g.outgoing[W[l]])
            Followed == \A i, j : In(i, W) /\ In(j, g.outgoing[i]) => In(j, W) \/ In(j, P)
            Confined == \A S \in SUBSET AllIds : Closed(g, S) =>
                \A i : In(i, W) \/ In(i, P) => i \in S
<1>1. /\ at[r] = "walk" /\ at'[r] = "walk" /\ graph'[r] = g /\ g \in Graphs
      /\ Q \in Seq(AllIds) /\ Q # <<>> /\ V \in Seq(AllIds)
      BY DEF Walk, Typed, TypeOK, Stages, steps
<1>2. g \in Graph BY <1>1, GraphAssumption
<1>3. h \in AllIds /\ Tail(Q) \in Seq(AllIds) BY <1>1
<1>4. T \in Seq(AllIds) BY <1>2, <1>3 DEF Graph
<1>5. Visited(r, h) <=> In(h, V) BY DEF Visited, In
<1>6. \A i : In(i, Q) <=> (i = h \/ In(i, Tail(Q))) BY <1>1, InTail
<1>c. ASSUME NEW S \in SUBSET AllIds, Closed(g, S), NEW i, In(i, V) \/ In(i, Q) PROVE i \in S
      BY <1>1, <1>c DEF WalkOf
<1>8. ASSUME In(h, V) PROVE W # <<>> /\ Ordered /\ Queued /\ Followed /\ Confined
      <2>1. W = V /\ P = Tail(Q) BY <1>1, <1>5, <1>8 DEF Walk, Typed, TypeOK
      <2>2. V # <<>> BY <1>8 DEF In
      <2>3. \A i, j : In(i, V) /\ In(j, g.outgoing[i]) => In(j, V) \/ In(j, P)
            <3>1. ASSUME NEW i, NEW j, In(i, V), In(j, g.outgoing[i]), ~In(j, V)
                  PROVE  In(j, Tail(Q))
                  <4>1. In(j, Q) BY <3>1 DEF WalkOf
                  <4>2. j # h BY <1>8, <3>1
                  <4>. QED BY <1>6, <4>1, <4>2
            <3>. QED BY <2>1, <3>1
      <2>4. \A i : In(i, P) => \E l \in 1 .. Len(V) : In(i, g.outgoing[V[l]])
            BY <1>6, <2>1, <2>2 DEF WalkOf
      <2>5. \A S \in SUBSET AllIds : Closed(g, S) =>
                \A i : In(i, V) \/ In(i, P) => i \in S
            BY <1>6, <1>c, <2>1
      <2>6. \A k \in 1 .. Len(V) :
                /\ k = 1 => V[k] = g.start
                /\ \A l \in 1 .. k - 1 : V[l] # V[k]
                /\ k > 1 => \E l \in 1 .. k - 1 : In(V[k], g.outgoing[V[l]])
            BY DEF WalkOf
      <2>. HIDE DEF W, P, V, g
      <2>. QED BY <2>1, <2>2, <2>3, <2>4, <2>5, <2>6
<1>9. ASSUME ~In(h, V) PROVE W # <<>> /\ Ordered /\ Queued /\ Followed /\ Confined
      <2>1. W = Append(V, h) /\ P = Tail(Q) \o T
            BY <1>1, <1>5, <1>9 DEF Walk, Typed, TypeOK, Targets
      <2>2. \A i : In(i, W) <=> (In(i, V) \/ i = h) BY <1>1, <1>3, <2>1, InAppend
      <2>3. \A i : In(i, P) <=> (In(i, Tail(Q)) \/ In(i, T))
            <3>. HIDE DEF P, Q, T
            <3>1. \A i : In(i, Tail(Q) \o T) <=> (In(i, Tail(Q)) \/ In(i, T))
                  BY <1>3, <1>4, InConcat
            <3>. QED BY <2>1, <3>1
      <2>4. Len(W) = Len(V) + 1 /\ W[Len(V) + 1] = h /\ \A k \in 1 .. Len(V) : W[k] = V[k]
            BY <1>1, <1>3, <2>1
      <2>n. Len(V) \in Nat /\ W # <<>>
            <3>. HIDE DEF V, h, W
            <3>. QED BY <1>1, <1>3, <2>1, <2>4
      <2>5. Followed
            <3>1. ASSUME NEW i, NEW j, In(i, V), In(j, g.outgoing[i]), ~In(j, V), j # h
                  PROVE  In(j, Tail(Q))
                  <4>1. In(j, Q) BY <3>1 DEF WalkOf
                  <4>. QED BY <1>6, <3>1, <4>1
            <3>2. ASSUME NEW i, NEW j, In(i, W), In(j, g.outgoing[i])
                  PROVE  In(j, W) \/ In(j, P)
                  <4>1. CASE i = h BY <2>3, <3>2, <4>1
                  <4>2. CASE In(i, V) BY <2>2, <2>3, <3>1, <3>2, <4>2
                  <4>. QED BY <2>2, <3>2, <4>1, <4>2
            <3>. QED BY <3>2
      <2>6. Queued
            <3>1. ASSUME NEW i, In(i, T) PROVE \E l \in 1 .. Len(W) : In(i, g.outgoing[W[l]])
                  <4>1. Len(V) + 1 \in 1 .. Len(W) BY <2>4, <2>n
                  <4>. QED BY <2>4, <3>1, <4>1
            <3>2. ASSUME NEW i, In(i, Tail(Q))
                  PROVE  \E l \in 1 .. Len(W) : In(i, g.outgoing[W[l]])
                  <4>1. V # <<>>
                        <5>1. CASE V = <<>>
                              <6>1. Q = <<g.start>> BY <1>1, <5>1 DEF WalkOf
                              <6>2. Tail(Q) = <<>> BY <6>1
                              <6>3. ~In(i, <<>>) BY DEF In
                              <6>. QED BY <3>2, <6>2, <6>3
                        <5>. QED BY <5>1
                  <4>2. In(i, Q) BY <1>6, <3>2
                  <4>3. PICK l \in 1 .. Len(V) : In(i, g.outgoing[V[l]]) BY <4>1, <4>2 DEF WalkOf
                  <4>4. l \in 1 .. Len(W) /\ W[l] = V[l] BY <2>4, <2>n, <4>3
                  <4>. QED BY <4>3, <4>4
            <3>. QED BY <2>3, <3>1, <3>2
      <2>7. Confined
            <3>1. ASSUME NEW S \in SUBSET AllIds, Closed(g, S) PROVE h \in S
                  BY <1>6, <1>c, <3>1
            <3>2. ASSUME NEW S \in SUBSET AllIds, Closed(g, S), NEW i, In(i, T) PROVE i \in S
                  <4>1. h \in S BY <3>1, <3>2
                  <4>2. DOMAIN T = 1 .. Len(T) BY <1>4
                  <4>. QED BY <3>2, <4>1, <4>2 DEF Closed, In
            <3>. QED BY <1>6, <1>c, <2>2, <2>3, <3>1, <3>2
      <2>8. Ordered
            <3>1. ASSUME NEW k \in 1 .. Len(V)
                  PROVE  /\ k = 1 => W[k] = g.start
                         /\ \A l \in 1 .. k - 1 : W[l] # W[k]
                         /\ k > 1 => \E l \in 1 .. k - 1 : In(W[k], g.outgoing[W[l]])
                  <4>1. \A l \in 1 .. k : W[l] = V[l] BY <2>4, <2>n
                  <4>2. /\ k = 1 => V[k] = g.start
                        /\ \A l \in 1 .. k - 1 : V[l] # V[k]
                        /\ k > 1 => \E l \in 1 .. k - 1 : In(V[k], g.outgoing[V[l]])
                        BY DEF WalkOf
                  <4>3. W[k] = V[k] /\ \A l \in 1 .. k - 1 : W[l] = V[l] BY <4>1, <2>n
                  <4>. QED BY <4>2, <4>3
            <3>2. Len(V) + 1 = 1 => h = g.start
                  <4>1. CASE Len(V) = 0
                        <5>1. V = <<>> BY <1>1, <4>1
                        <5>2. Q = <<g.start>> BY <1>1, <5>1 DEF WalkOf
                        <5>. QED BY <5>2
                  <4>. QED BY <2>n, <4>1
            <3>3. \A l \in 1 .. Len(V) : W[l] # h BY <1>9, <2>4 DEF In
            <3>4. Len(V) + 1 > 1 => \E l \in 1 .. Len(V) : In(h, g.outgoing[W[l]])
                  <4>1. CASE Len(V) # 0
                        <5>1. V # <<>> BY <4>1
                        <5>2. \E l \in 1 .. Len(V) : In(h, g.outgoing[V[l]])
                              BY <1>6, <5>1 DEF WalkOf
                        <5>. QED BY <2>4, <5>2
                  <4>. QED BY <2>n, <4>1
            <3>5. ASSUME NEW k \in 1 .. Len(W), k = Len(V) + 1
                  PROVE  /\ k = 1 => W[k] = g.start
                         /\ \A l \in 1 .. k - 1 : W[l] # W[k]
                         /\ k > 1 => \E l \in 1 .. k - 1 : In(W[k], g.outgoing[W[l]])
                  <4>1. k - 1 = Len(V) /\ W[k] = h BY <2>4, <2>n, <3>5
                  <4>. QED BY <3>2, <3>3, <3>4, <3>5, <4>1
            <3>6. \A k \in 1 .. Len(W) : k \in 1 .. Len(V) \/ k = Len(V) + 1 BY <2>4, <2>n
            <3>. HIDE DEF W, V, g, h
            <3>. QED BY <3>1, <3>5, <3>6
      <2>. QED BY <2>n, <2>5, <2>6, <2>7, <2>8
<1>10. W # <<>> /\ Ordered /\ Queued /\ Followed /\ Confined BY <1>8, <1>9
<1>. QED BY <1>1, <1>10 DEF WalkOf

Walks == \A q \in Runs : WalkOf(q)

LEMMA WalksOfStep ==
    ASSUME Typed, Walks, NEW r \in Runs, Step(r)
    PROVE  Walks'
<1>. USE DEF steps, world, notes, plan
<1>1. ASSUME NEW q \in Runs, q # r PROVE WalkOf(q)'
      BY <1>1, Others, WalkOfFrame DEF Own, Walks
<1>2. ASSUME graph'[r] = graph[r], queue'[r] = queue[r], visited'[r] = visited[r],
             queue[r] = <<>> /\ at[r] # "new", at'[r] \notin {"new", "walk"}
      PROVE  WalkOf(r)'
      BY <1>2, WalkOfFrame DEF Walks
<1>3. at[r] \notin {"new", "walk"} => queue[r] = <<>> BY DEF Walks, WalkOf
<1>4. WalkOf(r)'
      <2>0. TypeOK BY DEF Typed
      <2>1. CASE Begin(r) BY <2>1, WalkOfBegin DEF Walks
      <2>2. CASE Walk(r) BY <2>2, WalkOfWalk DEF Walks
      <2>3. CASE Walked(r) BY <2>0, <2>3, <1>2 DEF Walked, TypeOK
      <2>4. CASE Skip(r) BY <2>0, <2>4, <1>2, <1>3 DEF Skip, Pending, TypeOK
      <2>5. CASE NodeFails(r)
            BY <2>0, <2>5, <1>2, <1>3 DEF NodeFails, Fail, Doing, Pending, TypeOK
      <2>6. CASE NoFile(r)
            BY <2>0, <2>6, <1>2, <1>3 DEF NoFile, Succeed, Doing, Pending, TypeOK
      <2>7. CASE Tag(r)
            BY <2>0, <2>7, <1>2, <1>3 DEF Tag, Answer, Fail, Succeed, Doing, Pending, TypeOK
      <2>8. CASE MoveOrRename(r)
            BY <2>0, <2>8, <1>2, <1>3
            DEF MoveOrRename, Answer, Fail, Succeed, Doing, Pending, TypeOK
      <2>9. CASE Copy(r)
            BY <2>0, <2>9, <1>2, <1>3 DEF Copy, Answer, Fail, Succeed, Doing, Pending, TypeOK
      <2>10. CASE CommentRead(r)
            BY <2>0, <2>10, <1>2, <1>3 DEF CommentRead, Doing, Pending, TypeOK
      <2>11. CASE CommentWrite(r)
            BY <2>0, <2>11, <1>2, <1>3 DEF CommentWrite, Fail, Succeed, TypeOK
      <2>12. CASE CommentFails(r)
            BY <2>0, <2>12, <1>2, <1>3 DEF CommentFails, Fail, TypeOK
      <2>13. CASE Complete(r) BY <2>0, <2>13, <1>2, <1>3 DEF Complete, TypeOK
      <2>14. CASE Record(r) BY <2>0, <2>14, <1>2, <1>3 DEF Record, TypeOK
      <2>. QED BY <2>1, <2>2, <2>3, <2>4, <2>5, <2>6, <2>7, <2>8, <2>9, <2>10, <2>11, <2>12,
                  <2>13, <2>14 DEF Step
<1>. QED BY <1>1, <1>4 DEF Walks

LEMMA WalksOfNext ==
    ASSUME Typed, Walks, [Next]_vars
    PROVE  Walks'
<1>1. CASE \E r \in Runs : Step(r) BY <1>1, WalksOfStep
<1>2. CASE User \/ UNCHANGED vars
      <2>1. UNCHANGED <<at, graph, queue, visited>>
            BY <1>2 DEF User, UserPuts, vars, steps, plan
      <2>2. ASSUME NEW q \in Runs PROVE WalkOf(q)' BY <2>1, WalkOfFrame DEF Walks
      <2>. QED BY <2>2 DEF Walks
<1>. QED BY <1>1, <1>2 DEF Next

LEMMA WalksInvariant == Spec => []Walks
<1>1. Init => Walks
      <2>1. ASSUME Init, NEW q \in Runs PROVE WalkOf(q)
            <3>1. visited[q] = <<>> /\ queue[q] = <<>> /\ at[q] = "new" BY <2>1 DEF Init
            <3>. QED BY <3>1 DEF WalkOf, In
      <2>. QED BY <2>1 DEF Walks
<1>2. Typed /\ Walks /\ [Next]_vars => Walks' BY WalksOfNext
<1>. QED BY <1>1, <1>2, TypeInvariance, PTL DEF Spec

LEMMA GraphOfVisited ==
    ASSUME Typed, NEW r \in Runs, visited[r] # <<>>
    PROVE  graph[r] \in Graph /\ \A i \in AllIds : graph[r].outgoing[i] \in Seq(AllIds)
<1>1. graph[r] \in Graphs BY DEF Typed, Stages
<1>. QED BY <1>1, GraphAssumption DEF Graph

\* On every graph, with cycles, joins and edges to nothing, the walk starts at the
\* trigger, comes to a node once, and only after one that leads to it
\* (executor.go:144-158).
THEOREM WalkInOrderAlways == Spec => []WalkInOrder
<1>1. Typed /\ Walks => WalkInOrder
      <2>1. ASSUME Typed, Walks, NEW r \in Runs, NEW k \in 1 .. Len(visited[r])
            PROVE  /\ k = 1 => visited[r][k] = graph[r].start
                   /\ \A l \in 1 .. k - 1 : visited[r][l] # visited[r][k]
                   /\ k > 1 => \E l \in 1 .. k - 1 :
                                 \E m \in DOMAIN graph[r].outgoing[visited[r][l]] :
                                   graph[r].outgoing[visited[r][l]][m] = visited[r][k]
            <3>1. visited[r] \in Seq(AllIds) BY <2>1 DEF Typed, TypeOK
            <3>2. visited[r] # <<>> BY <2>1, <3>1
            <3>3. \A l \in 1 .. Len(visited[r]) :
                    graph[r].outgoing[visited[r][l]] \in Seq(AllIds)
                  BY <2>1, <3>1, <3>2, GraphOfVisited
            <3>4. \A l \in 1 .. Len(visited[r]) :
                    DOMAIN graph[r].outgoing[visited[r][l]]
                      = 1 .. Len(graph[r].outgoing[visited[r][l]])
                  BY <3>3
            <3>5. /\ k = 1 => visited[r][k] = graph[r].start
                  /\ \A l \in 1 .. k - 1 : visited[r][l] # visited[r][k]
                  /\ k > 1 => \E l \in 1 .. k - 1 :
                                In(visited[r][k], graph[r].outgoing[visited[r][l]])
                  BY <2>1 DEF Walks, WalkOf
            <3>6. \A l \in 1 .. k - 1 : l \in 1 .. Len(visited[r]) BY <2>1, <3>1
            <3>. QED BY <3>4, <3>5, <3>6 DEF In
      <2>. QED BY <2>1 DEF WalkInOrder
<1>. QED BY <1>1, TypeInvariance, WalksInvariant, PTL

-----------------------------------------------------------------------------
(* Results and records. *)

AllOk(q) == \A k \in 1 .. Len(results[q]) : results[q][k].ok
HasResult(q, i) == \E k \in 1 .. Len(results[q]) : results[q][k].id = i

\* The results of one run are those of the nodes it has come past, all but the
\* last succeeded, and go with the effects; the record is made of them.
RanOf(q) ==
    /\ at[q] \in {"walk", "nodes", "comment"} => AllOk(q)
    /\ \A k \in 1 .. Len(results[q]) - 1 : results[q][k].ok
    /\ \A k \in 1 .. Len(results[q]) :
        \E m \in 1 .. Len(visited[q]) :
            visited[q][m] = results[q][k].id /\ Runnable(graph[q].byID[visited[q][m]])
    /\ \A m \in 1 .. Len(visited[q]) :
        m < next[q] /\ Runnable(graph[q].byID[visited[q][m]]) => HasResult(q, visited[q][m])
    /\ at[q] \in {"record", "over"} /\ AllOk(q) => next[q] > Len(visited[q])
    /\ \A k \in 1 .. Len(results[q]) :
        results[q][k].ok /\ graph[q].byID[results[q][k].id].do \in Files
            => \E a \in acted[q] : a[1] = results[q][k].id
    /\ \A a \in acted[q] : HasResult(q, a[1])
    /\ stored[q] # None =>
        stored[q].results = results[q] /\ stored[q].status = Status(q)

LEMMA RanOfFrame ==
    ASSUME NEW q \in Runs, RanOf(q),
           graph'[q] = graph[q], visited'[q] = visited[q], results'[q] = results[q],
           acted'[q] = acted[q], stored'[q] = stored[q], next'[q] = next[q],
           \/ at'[q] = at[q]
           \/ at'[q] \in {"nodes", "comment"} /\ at[q] \in {"walk", "nodes"}
           \/ at'[q] = "over" /\ at[q] = "record"
    PROVE  RanOf(q)'
BY DEF RanOf, AllOk, HasResult, Status, Runnable

\* A node is done: its result, and its effect if it has one.
LEMMA RanOfDone ==
    ASSUME Typed, NEW r \in Runs, RanOf(r), at[r] \in {"nodes", "comment"},
           next[r] <= Len(visited[r]), Runnable(CurrentNode(r)),
           UNCHANGED <<graph, visited, stored>>,
           \/ Succeed(r) /\ CurrentNode(r).do \notin Files /\ acted'[r] = acted[r]
           \/ Fail(r) /\ acted'[r] = acted[r]
           \/ (Succeed(r) \/ Fail(r)) /\ \E f : acted'[r] = acted[r] \cup {<<Current(r), f>>}
    PROVE  RanOf(r)'
<1>. DEFINE n == Len(results[r])  R == results'[r]  c == Current(r)
<1>1. /\ results[r] \in Seq([id : AllIds, ok : BOOLEAN]) /\ visited[r] \in Seq(AllIds)
      /\ next[r] \in Nat \ {0} /\ n \in Nat
      <2>1. /\ results[r] \in Seq([id : AllIds, ok : BOOLEAN]) /\ visited[r] \in Seq(AllIds)
            /\ next[r] \in Nat \ {0}
            BY DEF Typed, TypeOK
      <2>. QED BY <2>1
<1>0. /\ \A k \in 1 .. n : \E m \in 1 .. Len(visited[r]) :
            /\ visited[r][m] = results[r][k].id
            /\ Runnable(graph[r].byID[visited[r][m]])
      /\ \A m \in 1 .. Len(visited[r]) :
            m < next[r] /\ Runnable(graph[r].byID[visited[r][m]])
                => HasResult(r, visited[r][m])
      /\ \A k \in 1 .. n :
            results[r][k].ok /\ graph[r].byID[results[r][k].id].do \in Files
                => \E a \in acted[r] : a[1] = results[r][k].id
      BY DEF RanOf
<1>2. c \in AllIds /\ CurrentNode(r) = graph[r].byID[c] BY CurrentTypes DEF CurrentNode
<1>3. PICK ok \in BOOLEAN : /\ Result(r, ok)
                            /\ ok => Succeed(r)
                            /\ ~ok => Fail(r)
      BY DEF Succeed, Fail
<1>4. R = Append(results[r], [id |-> c, ok |-> ok]) BY <1>3 DEF Result, Typed, TypeOK
<1>5. /\ Len(R) = n + 1 /\ R[n + 1].id = c /\ R[n + 1].ok = ok
      /\ \A k \in 1 .. n : R[k] = results[r][k]
      BY <1>1, <1>4
<1>6. /\ ok => next'[r] = next[r] + 1 /\ at'[r] = "nodes"
      /\ ~ok => next'[r] = next[r] /\ at'[r] = "record"
      BY <1>3 DEF Succeed, Fail, Typed, TypeOK
<1>7. AllOk(r) BY DEF RanOf
<1>8. \A k \in 1 .. Len(R) : k \in 1 .. n \/ k = n + 1 BY <1>1, <1>5
<1>9. \A k \in 1 .. n : k \in 1 .. Len(R) BY <1>1, <1>5
<1>10. n + 1 \in 1 .. Len(R) BY <1>1, <1>5
<1>11. \A i : HasResult(r, i)' <=> (HasResult(r, i) \/ i = c)
      BY <1>5, <1>8, <1>9, <1>10 DEF HasResult
<1>12. stored'[r] = None /\ graph'[r] = graph[r] /\ visited'[r] = visited[r]
      BY DEF Typed, Stages
<1>13. acted[r] \subseteq acted'[r] /\ \A a \in acted'[r] : a \in acted[r] \/ a[1] = c
      OBVIOUS
<1>14. ASSUME ok, CurrentNode(r).do \in Files PROVE \E a \in acted'[r] : a[1] = c
      <2>1. ~Fail(r) BY <1>6, <1>14 DEF Fail, Typed, TypeOK
      <2>2. PICK f : acted'[r] = acted[r] \cup {<<c, f>>} BY <1>14, <2>1
      <2>3. <<c, f>> \in acted'[r] BY <2>2
      <2>. QED BY <2>3
<1>c1. (at[r] \in {"walk", "nodes", "comment"} => AllOk(r))'
      BY <1>5, <1>6, <1>7, <1>8 DEF AllOk
<1>c2. \A k \in 1 .. Len(R) - 1 : R[k].ok
      BY <1>1, <1>5, <1>7 DEF AllOk
<1>c3. \A k \in 1 .. Len(R) :
         \E m \in 1 .. Len(visited[r]) :
            visited[r][m] = R[k].id /\ Runnable(graph[r].byID[visited[r][m]])
      <2>1. ASSUME NEW k \in 1 .. n
            PROVE  \E m \in 1 .. Len(visited[r]) :
                     visited[r][m] = R[k].id /\ Runnable(graph[r].byID[visited[r][m]])
            BY <1>0, <1>5
      <2>2. \E m \in 1 .. Len(visited[r]) :
               visited[r][m] = R[n + 1].id /\ Runnable(graph[r].byID[visited[r][m]])
            <3>1. next[r] \in 1 .. Len(visited[r]) /\ visited[r][next[r]] = c
                  BY <1>1 DEF Current
            <3>. QED BY <1>2, <1>5, <3>1
      <2>. HIDE DEF R, n
      <2>. QED BY <1>8, <2>1, <2>2
<1>c4. \A m \in 1 .. Len(visited[r]) :
         m < next'[r] /\ Runnable(graph[r].byID[visited[r][m]]) => HasResult(r, visited[r][m])'
      <2>1. ASSUME NEW m \in 1 .. Len(visited[r]), m < next'[r],
                   Runnable(graph[r].byID[visited[r][m]])
            PROVE  HasResult(r, visited[r][m]) \/ visited[r][m] = c
            <3>1. m < next[r] \/ m = next[r] BY <1>1, <1>6, <2>1
            <3>. QED BY <1>0, <2>1, <3>1 DEF Current
      <2>. QED BY <1>11, <2>1
<1>c5. (at[r] \in {"record", "over"} /\ AllOk(r) => next[r] > Len(visited[r]))'
      BY <1>5, <1>6, <1>10 DEF AllOk
<1>c6. \A k \in 1 .. Len(R) :
         R[k].ok /\ graph[r].byID[R[k].id].do \in Files => \E a \in acted'[r] : a[1] = R[k].id
      <2>1. ASSUME NEW k \in 1 .. n, R[k].ok, graph[r].byID[R[k].id].do \in Files
            PROVE  \E a \in acted'[r] : a[1] = R[k].id
            BY <1>0, <1>5, <1>13, <2>1
      <2>. HIDE DEF R, n, c
      <2>. QED BY <1>2, <1>5, <1>8, <1>14, <2>1
<1>c7. \A a \in acted'[r] : HasResult(r, a[1])'
      BY <1>11, <1>13 DEF RanOf
<1>. HIDE DEF R
<1>. QED BY <1>12, <1>c1, <1>c2, <1>c3, <1>c4, <1>c5, <1>c6, <1>c7 DEF RanOf, R, Runnable, HasResult

\* A node that is not there, or a trigger.
LEMMA RanOfSkip ==
    ASSUME Typed, NEW r \in Runs, RanOf(r), Skip(r)
    PROVE  RanOf(r)'
<1>1. /\ next[r] \in Nat \ {0} /\ next'[r] = next[r] + 1 /\ at[r] = "nodes"
      /\ ~Runnable(graph[r].byID[visited[r][next[r]]])
      /\ UNCHANGED <<at, graph, visited, results, acted, stored>>
      BY DEF Skip, Pending, CurrentNode, Current, Typed, TypeOK, steps, plan
<1>2. \A m \in 1 .. Len(visited[r]) :
        m < next'[r] /\ Runnable(graph[r].byID[visited[r][m]]) => HasResult(r, visited[r][m])
      BY <1>1 DEF RanOf
<1>. QED BY <1>1, <1>2 DEF RanOf, AllOk, HasResult, Status, Runnable

Rans == \A q \in Runs : RanOf(q)

LEMMA RansOfStep ==
    ASSUME Typed, Rans, NEW r \in Runs, Step(r)
    PROVE  Rans'
<1>. USE DEF steps, world, notes, plan
<1>t. TypeOK /\ Stages /\ RanOf(r) BY DEF Typed, Rans
<1>1. ASSUME NEW q \in Runs, q # r PROVE RanOf(q)'
      BY <1>1, Others, RanOfFrame DEF Own, Rans
<1>2. RanOf(r)'
      <2>1. CASE Begin(r)
            <3>1. /\ at'[r] = "walk" /\ results'[r] = <<>> /\ visited'[r] = <<>>
                  /\ acted'[r] = {} /\ stored'[r] = None
                  BY <1>t, <2>1 DEF Begin, TypeOK, Stages
            <3>. QED BY <3>1 DEF RanOf, AllOk, HasResult
      <2>2. CASE Walk(r)
            <3>1. /\ at'[r] = "walk" /\ results'[r] = <<>> /\ next'[r] = 1
                  /\ acted'[r] = {} /\ stored'[r] = None
                  BY <1>t, <2>2 DEF Walk, TypeOK, Stages
            <3>2. \A m \in 1 .. Len(visited'[r]) : ~(m < 1)
                  <4>1. visited'[r] \in Seq(AllIds) BY TypeOfStep DEF TypeOK
                  <4>. QED BY <4>1
            <3>. QED BY <3>1, <3>2 DEF RanOf, AllOk, HasResult
      <2>3. CASE Walked(r) BY <1>t, <2>3, RanOfFrame DEF Walked, TypeOK
      <2>4. CASE Skip(r) BY <2>4, <1>t, RanOfSkip
      <2>5. CASE NodeFails(r)
            BY <1>t, <2>5, RanOfDone DEF NodeFails, Doing, Pending
      <2>6. CASE NoFile(r)
            BY <1>t, <2>6, RanOfDone DEF NoFile, Doing, Pending
      <2>7. CASE Tag(r)
            <3>1. \E f : acted'[r] = acted[r] \cup {<<Current(r), f>>}
                  BY <1>t, <2>7 DEF Tag, Act, TypeOK
            <3>. QED BY <1>t, <2>7, <3>1, RanOfDone DEF Tag, Doing, Pending, Answer
      <2>8. CASE MoveOrRename(r)
            <3>1. \E f : acted'[r] = acted[r] \cup {<<Current(r), f>>}
                  BY <1>t, <2>8 DEF MoveOrRename, Act, TypeOK
            <3>. QED BY <1>t, <2>8, <3>1, RanOfDone DEF MoveOrRename, Doing, Pending, Answer
      <2>9. CASE Copy(r)
            <3>1. \E f : acted'[r] = acted[r] \cup {<<Current(r), f>>}
                  BY <1>t, <2>9 DEF Copy, Act, TypeOK
            <3>. QED BY <1>t, <2>9, <3>1, RanOfDone DEF Copy, Doing, Pending, Answer
      <2>10. CASE CommentRead(r)
            BY <1>t, <2>10, RanOfFrame DEF CommentRead, Doing, Pending, TypeOK
      <2>11. CASE CommentWrite(r)
            <3>1. \E f : acted'[r] = acted[r] \cup {<<Current(r), f>>}
                  BY <1>t, <2>11 DEF CommentWrite, Act, TypeOK
            <3>2. next[r] <= Len(visited[r]) /\ Runnable(CurrentNode(r))
                  BY <1>t, <2>11 DEF CommentWrite, Stages
            <3>. QED BY <1>t, <2>11, <3>1, <3>2, RanOfDone DEF CommentWrite
      <2>12. CASE CommentFails(r)
            <3>2. next[r] <= Len(visited[r]) /\ Runnable(CurrentNode(r))
                  BY <1>t, <2>12 DEF CommentFails, Stages
            <3>. QED BY <1>t, <2>12, <3>2, RanOfDone DEF CommentFails
      <2>13. CASE Complete(r)
            <3>1. at'[r] = "record" /\ next[r] > Len(visited[r])
                  BY <1>t, <2>13 DEF Complete, TypeOK
            <3>. QED BY <1>t, <2>13, <3>1 DEF Complete, RanOf, AllOk, HasResult, Status, Runnable
      <2>14. CASE Record(r)
            <3>1. at'[r] = "over" /\ at[r] = "record" /\ stored[r] = None
                  BY <1>t, <2>14 DEF Record, TypeOK, Stages
            <3>2. stored'[r] \in {None, [status |-> Status(r), results |-> results[r]]}
                  BY <1>t, <2>14, <3>1 DEF Record, TypeOK
            <3>3. Status(r)' = Status(r) BY <2>14 DEF Record, Status
            <3>. QED BY <1>t, <2>14, <3>1, <3>2, <3>3
                     DEF Record, RanOf, AllOk, HasResult, Runnable
      <2>. QED BY <2>1, <2>2, <2>3, <2>4, <2>5, <2>6, <2>7, <2>8, <2>9, <2>10, <2>11, <2>12,
                  <2>13, <2>14 DEF Step
<1>. QED BY <1>1, <1>2 DEF Rans

LEMMA RansInvariant == Spec => []Rans
<1>1. Init => Rans
      <2>1. ASSUME Init, NEW q \in Runs PROVE RanOf(q)
            <3>1. /\ visited[q] = <<>> /\ results[q] = <<>> /\ at[q] = "new"
                  /\ acted[q] = {} /\ stored[q] = None
                  BY <2>1 DEF Init
            <3>. QED BY <3>1 DEF RanOf, AllOk, HasResult
      <2>. QED BY <2>1 DEF Rans
<1>2. Typed /\ Rans /\ [Next]_vars => Rans'
      <2>1. ASSUME Typed, Rans, User \/ UNCHANGED vars PROVE Rans'
            <3>1. UNCHANGED <<at, graph, visited, results, acted, stored, next>>
                  BY <2>1 DEF User, UserPuts, vars, steps, plan
            <3>2. ASSUME NEW q \in Runs PROVE RanOf(q)' BY <2>1, <3>1, RanOfFrame DEF Rans
            <3>. QED BY <3>2 DEF Rans
      <2>. QED BY <2>1, RansOfStep DEF Next
<1>. QED BY <1>1, <1>2, TypeInvariance, PTL DEF Spec

\* A stored record tells what was done: one node at most failed, the last; a file
\* action it calls succeeded took effect; none took effect that it does not name
\* (executor.go:99-114).
THEOREM RecordTellsAlways == Spec => []RecordTells
<1>1. Typed /\ Rans => RecordTells
      <2>1. ASSUME Typed, Rans, NEW r \in Runs, stored[r] # None
            PROVE  LET rs == stored[r].results IN
                   /\ \A k \in 1 .. Len(rs) - 1 : rs[k].ok
                   /\ (stored[r].status = "failed") = (rs # <<>> /\ ~rs[Len(rs)].ok)
                   /\ \A k \in 1 .. Len(rs) :
                        rs[k].ok /\ graph[r].byID[rs[k].id].do \in Files
                            => \E a \in acted[r] : a[1] = rs[k].id
                   /\ \A a \in acted[r] : a[1] \in IdsOf(rs)
            <3>1. RanOf(r) /\ results[r] \in Seq([id : AllIds, ok : BOOLEAN])
                  BY <2>1 DEF Rans, Typed, TypeOK
            <3>2. stored[r].results = results[r] /\ stored[r].status = Status(r)
                  BY <2>1, <3>1 DEF RanOf
            <3>3. (\E k \in 1 .. Len(results[r]) : ~results[r][k].ok)
                    <=> (results[r] # <<>> /\ ~results[r][Len(results[r])].ok)
                  <4>1. \A k \in 1 .. Len(results[r]) - 1 : results[r][k].ok BY <3>1 DEF RanOf
                  <4>2. results[r] # <<>> => Len(results[r]) \in 1 .. Len(results[r]) BY <3>1
                  <4>3. \A k \in 1 .. Len(results[r]) :
                          k \in 1 .. Len(results[r]) - 1
                            \/ (k = Len(results[r]) /\ results[r] # <<>>)
                        BY <3>1
                  <4>. QED BY <4>1, <4>2, <4>3
            <3>4. (Status(r) = "failed") <=> (results[r] # <<>> /\ ~results[r][Len(results[r])].ok)
                  BY <3>3 DEF Status
            <3>. QED BY <3>1, <3>2, <3>4 DEF RanOf, HasResult, IdsOf
      <2>. QED BY <2>1 DEF RecordTells
<1>. QED BY <1>1, TypeInvariance, RansInvariant, PTL

\* A record that says succeeded has a result for every node that the trigger
\* leads to, and for no other (executor.go:121, 144-158).
THEOREM SucceededRanAllAlways == Spec => []SucceededRanAll
<1>1. Typed /\ Walks /\ Rans => SucceededRanAll
      <2>1. ASSUME Typed, Walks, Rans, NEW r \in Runs,
                   stored[r] # None, stored[r].status = "succeeded"
            PROVE  IdsOf(stored[r].results)
                     = {i \in Reachable(graph[r]) : Runnable(graph[r].byID[i])}
            <3>1. RanOf(r) /\ WalkOf(r) BY <2>1 DEF Rans, Walks
            <3>2. /\ at[r] = "over" /\ graph[r] \in Graphs /\ visited[r] \in Seq(AllIds)
                  /\ queue[r] = <<>> /\ next[r] \in Nat
                  BY <2>1, <3>1 DEF Typed, TypeOK, Stages, WalkOf
            <3>3. stored[r].results = results[r] /\ AllOk(r)
                  BY <2>1, <3>1 DEF RanOf, Status, AllOk
            <3>4. next[r] > Len(visited[r]) BY <3>1, <3>2, <3>3 DEF RanOf
            <3>5. \A i : i \in IdsOf(results[r]) <=> HasResult(r, i) BY DEF IdsOf, HasResult
            <3>6. \A i : HasResult(r, i) <=> (In(i, visited[r]) /\ Runnable(graph[r].byID[i]))
                  <4>1. ASSUME NEW i, HasResult(r, i)
                        PROVE  In(i, visited[r]) /\ Runnable(graph[r].byID[i])
                        BY <3>1, <4>1 DEF RanOf, HasResult, In
                  <4>2. ASSUME NEW i, In(i, visited[r]), Runnable(graph[r].byID[i])
                        PROVE  HasResult(r, i)
                        <5>1. PICK m \in 1 .. Len(visited[r]) : visited[r][m] = i BY <4>2 DEF In
                        <5>2. m < next[r] BY <3>2, <3>4
                        <5>. QED BY <3>1, <4>2, <5>1, <5>2 DEF RanOf
                  <4>. QED BY <4>1, <4>2
            <3>7. \A i \in AllIds : In(i, visited[r]) <=> i \in Reachable(graph[r])
                  <4>1. ASSUME NEW i \in AllIds, In(i, visited[r]) PROVE i \in Reachable(graph[r])
                        BY <3>1, <3>2, <4>1 DEF WalkOf, Reachable
                  <4>2. ASSUME NEW i \in AllIds, i \in Reachable(graph[r])
                        PROVE  In(i, visited[r])
                        <5>. DEFINE S == {j \in AllIds : In(j, visited[r])}
                        <5>1. \A j : In(j, visited[r]) => j \in S BY <3>2 DEF In
                        <5>2. graph[r].start # NoId => graph[r].start \in S
                              <6>1. ASSUME graph[r].start # NoId PROVE visited[r] # <<>>
                                    BY <3>1, <3>2, <6>1 DEF WalkOf
                              <6>2. ASSUME visited[r] # <<>> PROVE graph[r].start \in S
                                    <7>1. 1 \in 1 .. Len(visited[r]) BY <3>2, <6>2
                                    <7>2. visited[r][1] = graph[r].start BY <3>1, <7>1 DEF WalkOf
                                    <7>. QED BY <5>1, <7>1, <7>2 DEF In
                              <6>. QED BY <6>1, <6>2
                        <5>3. \A j \in S : \A k \in DOMAIN graph[r].outgoing[j] :
                                graph[r].outgoing[j][k] \in S
                              <6>1. ASSUME NEW j \in S, NEW k \in DOMAIN graph[r].outgoing[j]
                                    PROVE  graph[r].outgoing[j][k] \in S
                                    <7>1. graph[r].outgoing[j] \in Seq(AllIds)
                                          BY <3>2, GraphAssumption DEF Graph
                                    <7>2. In(graph[r].outgoing[j][k], graph[r].outgoing[j])
                                          BY <6>1, <7>1 DEF In
                                    <7>3. ~In(graph[r].outgoing[j][k], queue[r])
                                          BY <3>2 DEF In
                                    <7>4. In(graph[r].outgoing[j][k], visited[r])
                                          BY <3>1, <7>2, <7>3 DEF WalkOf
                                    <7>. QED BY <5>1, <7>4
                              <6>. QED BY <6>1
                        <5>4. Closed(graph[r], S) BY <5>2, <5>3 DEF Closed
                        <5>. QED BY <4>2, <5>4 DEF Reachable
                  <4>. QED BY <4>1, <4>2
            <3>8. \A i : In(i, visited[r]) => i \in AllIds BY <3>2 DEF In
            <3>9. \A i : i \in Reachable(graph[r]) => i \in AllIds BY DEF Reachable
            <3>. QED BY <3>3, <3>5, <3>6, <3>7, <3>8, <3>9
      <2>. QED BY <2>1 DEF SucceededRanAll
<1>. QED BY <1>1, TypeInvariance, WalksInvariant, RansInvariant, PTL

-----------------------------------------------------------------------------
(* The file of a run. *)

OnFileOf(q) ==
    (subject[q] # None /\ q \notin disturbed) =>
        /\ at[q] \in {"walk", "nodes", "comment"} =>
            path[q] \in Paths /\ where[subject[q]] = path[q]
        /\ \A a \in acted[q] : a[2] = subject[q]

\* No two files have one path.
Apart == \A i, j \in Items : where[i] = where[j] /\ where[i] # Gone => i = j

OnFile == Apart /\ \A q \in Runs : OnFileOf(q)

LEMMA OnFileFrame ==
    ASSUME NEW q \in Runs, OnFileOf(q), disturbed \subseteq disturbed',
           subject'[q] = subject[q], path'[q] = path[q], acted'[q] = acted[q],
           at'[q] \in {"walk", "nodes", "comment"} => at[q] \in {"walk", "nodes", "comment"},
           (subject[q] # None /\ q \notin disturbed') => where'[subject[q]] = where[subject[q]]
    PROVE  OnFileOf(q)'
BY DEF OnFileOf

LEMMA OnFilePlace ==
    ASSUME TypeOK, Apart, NEW i \in Items, NEW p \in Paths, NEW by, Place(i, p, by)
    PROVE  /\ Apart'
           /\ disturbed \subseteq disturbed'
           /\ \A q \in Runs \ by : subject[q] # None /\ q \notin disturbed' =>
                 where'[subject[q]] = where[subject[q]]
           /\ where'[i] = p
<1>1. Apart' BY DEF Apart, Place, Occupied, TypeOK
<1>2. \A q \in Runs \ by : subject[q] # None /\ q \notin disturbed' =>
        where'[subject[q]] = where[subject[q]]
      BY DEF Place, TypeOK
<1>. QED BY <1>1, <1>2 DEF Place, TypeOK

\* The file at the path of an undisturbed run is its own.
LEMMA OwnFile ==
    ASSUME Typed, OnFile, NEW r \in Runs, at[r] \in {"walk", "nodes", "comment"},
           subject[r] # None, r \notin disturbed
    PROVE  Occupied(path[r]) /\ FileAt(path[r]) = subject[r]
<1>1. subject[r] \in Items /\ path[r] \in Paths /\ where[subject[r]] = path[r]
      BY DEF Typed, TypeOK, OnFile, OnFileOf
<1>2. Occupied(path[r]) BY <1>1 DEF Occupied
<1>3. FileAt(path[r]) \in Items /\ where[FileAt(path[r])] = path[r] BY <1>2, FileAtType
<1>. QED BY <1>1, <1>2, <1>3, NullAssumption DEF OnFile, Apart

\* An action on that file leaves it where the run believes it, or the run at its end.
LEMMA OnFileActed ==
    ASSUME Typed, OnFile, NEW r \in Runs, at[r] \in {"walk", "nodes", "comment"},
           subject'[r] = subject[r], disturbed \subseteq disturbed',
           NEW f, acted'[r] \subseteq acted[r] \cup {<<Current(r), f>>},
           subject[r] # None /\ r \notin disturbed => f = subject[r],
           at'[r] = "nodes" /\ subject[r] # None /\ r \notin disturbed' =>
                path'[r] \in Paths /\ where'[subject[r]] = path'[r],
           at'[r] \in {"nodes", "record"}
    PROVE  OnFileOf(r)'
BY DEF OnFile, OnFileOf

LEMMA OnFileOfStep ==
    ASSUME Typed, OnFile, NEW r \in Runs, Step(r)
    PROVE  OnFile'
<1>. USE DEF steps, world, notes, plan
<1>t. TypeOK /\ Apart /\ \A q \in Runs : OnFileOf(q) BY DEF Typed, OnFile
<1>p. /\ Apart' /\ disturbed \subseteq disturbed'
      /\ \A q \in Runs : q # r /\ subject[q] # None /\ q \notin disturbed' =>
            where'[subject[q]] = where[subject[q]]
      <2>1. CASE MoveOrRename(r)
            <3>1. Destination(r) \in Paths
                  <4>1. Doing(r, {"move", "copy", "rename"}) BY <2>1 DEF MoveOrRename, Doing
                  <4>. QED BY <2>1, <4>1, DestinationType DEF MoveOrRename
            <3>2. FileAt(path[r]) \in Items BY <2>1, FileAtType DEF MoveOrRename, HasTarget
            <3>. QED BY <1>t, <2>1, <3>1, <3>2, OnFilePlace DEF MoveOrRename
      <2>2. CASE Copy(r)
            <3>1. Destination(r) \in Paths
                  <4>1. Doing(r, {"move", "copy", "rename"}) BY <2>2 DEF Copy, Doing
                  <4>. QED BY <2>2, <4>1, DestinationType DEF Copy
            <3>2. PICK i \in Items : Place(i, Destination(r), {}) BY <2>2 DEF Copy
            <3>. QED BY <1>t, <3>1, <3>2, OnFilePlace
      <2>3. CASE ~MoveOrRename(r) /\ ~Copy(r)
            <3>1. UNCHANGED <<where, disturbed>>
                  BY <2>3 DEF Step, Begin, Walk, Walked, Skip, NodeFails, NoFile, Tag, CommentRead,
                              CommentWrite, CommentFails, Complete, Record
            <3>. QED BY <1>t, <3>1 DEF Apart
      <2>. QED BY <2>1, <2>2, <2>3
<1>1. ASSUME NEW q \in Runs, q # r PROVE OnFileOf(q)'
      BY <1>1, <1>t, <1>p, Others, OnFileFrame DEF Own
<1>2. OnFileOf(r)'
      <2>1. CASE Begin(r)
            <3>1. PICK p \in Given :
                    /\ path' = [path EXCEPT ![r] = p]
                    /\ subject' = [subject EXCEPT ![r] = IF Occupied(p) THEN FileAt(p) ELSE None]
                  BY <2>1 DEF Begin
            <3>2. /\ path'[r] = p /\ acted'[r] = {} /\ where' = where
                  /\ subject'[r] = IF Occupied(p) THEN FileAt(p) ELSE None
                  BY <2>1, <3>1 DEF Begin, Typed, TypeOK, Stages
            <3>3. p \in Paths \cup {None} BY PlacementAssumption
            <3>4. Occupied(p) => p \in Paths /\ where[FileAt(p)] = p
                  BY <1>t, <3>3, FileAtType, NullAssumption DEF Occupied, TypeOK
            <3>. QED BY <3>2, <3>4 DEF OnFileOf
      <2>2. CASE Walk(r) BY <1>t, <2>2, OnFileFrame DEF Walk
      <2>3. CASE Walked(r) BY <1>t, <2>3, OnFileFrame DEF Walked
      <2>4. CASE Skip(r) BY <1>t, <2>4, OnFileFrame DEF Skip
      <2>5. CASE NodeFails(r)
            BY <1>t, <2>5, OnFileFrame DEF NodeFails, Fail, Doing, Pending, TypeOK
      <2>6. CASE NoFile(r)
            BY <1>t, <2>6, OnFileFrame DEF NoFile, Doing, Pending
      <2>7. CASE Tag(r)
            <3>1. at[r] = "nodes" BY <2>7 DEF Tag, Doing, Pending
            <3>2. /\ acted'[r] = acted[r] \cup {<<Current(r), FileAt(path[r])>>}
                  /\ path'[r] = path[r] /\ at'[r] \in {"nodes", "record"}
                  BY <1>t, <2>7 DEF Tag, Act, Answer, Succeed, Fail, TypeOK
            <3>3. subject[r] # None /\ r \notin disturbed => FileAt(path[r]) = subject[r]
                  BY <3>1, OwnFile
            <3>. QED BY <1>t, <2>7, <3>1, <3>2, <3>3, OnFileActed DEF Tag, OnFileOf
      <2>8. CASE MoveOrRename(r)
            <3>1. at[r] = "nodes" BY <2>8 DEF MoveOrRename, Doing, Pending
            <3>2. Destination(r) \in Paths
                  <4>1. Doing(r, {"move", "copy", "rename"}) BY <2>8 DEF MoveOrRename, Doing
                  <4>. QED BY <2>8, <4>1, DestinationType DEF MoveOrRename
            <3>3. FileAt(path[r]) \in Items BY <2>8, FileAtType DEF MoveOrRename, HasTarget
            <3>4. /\ acted'[r] = acted[r] \cup {<<Current(r), FileAt(path[r])>>}
                  /\ at'[r] \in {"nodes", "record"}
                  /\ at'[r] = "nodes" => path'[r] = Destination(r)
                  BY <1>t, <2>8 DEF MoveOrRename, Act, Answer, Succeed, Fail, MovedTo, TypeOK
            <3>5. subject[r] # None /\ r \notin disturbed => FileAt(path[r]) = subject[r]
                  BY <3>1, OwnFile
            <3>6. where'[FileAt(path[r])] = Destination(r)
                  BY <1>t, <2>8, <3>2, <3>3, OnFilePlace DEF MoveOrRename
            <3>7. disturbed \subseteq disturbed' /\ subject'[r] = subject[r]
                  BY <1>p, <2>8 DEF MoveOrRename
            <3>. QED BY <3>1, <3>2, <3>4, <3>5, <3>6, <3>7, OnFileActed
      <2>9. CASE Copy(r)
            <3>1. at[r] = "nodes" BY <2>9 DEF Copy, Doing, Pending
            <3>2. Destination(r) \in Paths
                  <4>1. Doing(r, {"move", "copy", "rename"}) BY <2>9 DEF Copy, Doing
                  <4>. QED BY <2>9, <4>1, DestinationType DEF Copy
            <3>3. PICK i \in Items : Place(i, Destination(r), {}) BY <2>9 DEF Copy
            <3>4. /\ acted'[r] = acted[r] \cup {<<Current(r), FileAt(path[r])>>}
                  /\ path'[r] = path[r] /\ at'[r] \in {"nodes", "record"}
                  BY <1>t, <2>9 DEF Copy, Act, Answer, Succeed, Fail, TypeOK
            <3>5. subject[r] # None /\ r \notin disturbed => FileAt(path[r]) = subject[r]
                  BY <3>1, OwnFile
            <3>6. subject[r] # None /\ r \notin disturbed' => where'[subject[r]] = where[subject[r]]
                  BY <1>t, <3>2, <3>3, OnFilePlace
            <3>7. disturbed \subseteq disturbed' /\ subject'[r] = subject[r]
                  BY <1>p, <2>9 DEF Copy
            <3>8. subject[r] # None /\ r \notin disturbed' =>
                    path'[r] \in Paths /\ where'[subject[r]] = path'[r]
                  BY <1>t, <3>1, <3>4, <3>6, <3>7 DEF OnFileOf
            <3>. QED BY <3>1, <3>4, <3>5, <3>7, <3>8, OnFileActed
      <2>10. CASE CommentRead(r)
            BY <1>t, <2>10, OnFileFrame DEF CommentRead, Doing, Pending
      <2>11. CASE CommentWrite(r)
            <3>1. at[r] = "comment" BY <2>11 DEF CommentWrite
            <3>. DEFINE f == IF Occupied(path[r]) THEN FileAt(path[r]) ELSE None
            <3>2. /\ acted'[r] = acted[r] \cup {<<Current(r), f>>}
                  /\ path'[r] = path[r] /\ at'[r] \in {"nodes", "record"}
                  BY <1>t, <2>11 DEF CommentWrite, Act, Succeed, Fail, TypeOK
            <3>3. subject[r] # None /\ r \notin disturbed => f = subject[r]
                  BY <3>1, OwnFile
            <3>4. UNCHANGED <<where, disturbed, subject>> BY <2>11 DEF CommentWrite
            <3>5. subject[r] # None /\ r \notin disturbed' =>
                    path'[r] \in Paths /\ where'[subject[r]] = path'[r]
                  BY <1>t, <3>1, <3>2, <3>4 DEF OnFileOf
            <3>. HIDE DEF f
            <3>. QED BY <3>1, <3>2, <3>3, <3>4, <3>5, OnFileActed
      <2>12. CASE CommentFails(r)
            BY <1>t, <2>12, OnFileFrame DEF CommentFails, Fail, TypeOK
      <2>13. CASE Complete(r) BY <1>t, <2>13, OnFileFrame DEF Complete, TypeOK
      <2>14. CASE Record(r) BY <1>t, <2>14, OnFileFrame DEF Record, TypeOK
      <2>. QED BY <2>1, <2>2, <2>3, <2>4, <2>5, <2>6, <2>7, <2>8, <2>9, <2>10, <2>11, <2>12,
                  <2>13, <2>14 DEF Step
<1>. QED BY <1>p, <1>1, <1>2 DEF OnFile

LEMMA OnFileInvariant == Spec => []OnFile
<1>1. Init => OnFile
      BY PlacementAssumption DEF Init, OnFile, OnFileOf, Apart
<1>2. Typed /\ OnFile /\ [Next]_vars => OnFile'
      <2>1. ASSUME Typed, OnFile, User PROVE OnFile'
            <3>1. PICK i \in Items, p \in Paths : UserPuts(i, p) BY <2>1 DEF User
            <3>2. UNCHANGED <<at, path, acted, subject>>
                  BY <3>1 DEF UserPuts, steps, plan
            <3>3. /\ Apart' /\ disturbed \subseteq disturbed'
                  /\ \A q \in Runs : subject[q] # None /\ q \notin disturbed' =>
                        where'[subject[q]] = where[subject[q]]
                  BY <2>1, <3>1, OnFilePlace DEF UserPuts, OnFile, Typed
            <3>4. ASSUME NEW q \in Runs PROVE OnFileOf(q)'
                  BY <2>1, <3>2, <3>3, OnFileFrame DEF OnFile
            <3>. QED BY <3>3, <3>4 DEF OnFile
      <2>2. ASSUME Typed, OnFile, UNCHANGED vars PROVE OnFile'
            BY <2>2 DEF OnFile, OnFileOf, Apart, vars, steps, world, plan
      <2>. QED BY <2>1, <2>2, OnFileOfStep DEF Next
<1>. QED BY <1>1, <1>2, TypeInvariance, PTL DEF Spec

\* The actions of a run find the file it was started for, through all its own
\* moves, renames and copies, unless somebody else moves that file
\* (executor.go:203-278).
THEOREM ActsOnItsFileAlways == Spec => []ActsOnItsFile
<1>1. OnFile => ActsOnItsFile BY DEF OnFile, OnFileOf, ActsOnItsFile
<1>. QED BY <1>1, OnFileInvariant, PTL

-----------------------------------------------------------------------------
(* Comments. *)

\* The list a run holds and the one in the store differ by raced comments only.
HoldsList(q) ==
    (at[q] = "comment" /\ path[q] \notin blinded) =>
        /\ seen[q] \subseteq sidecar[path[q]] \cup raced
        /\ sidecar[path[q]] \subseteq seen[q] \cup raced

RivalsRaced ==
    \A q, s \in Runs :
        (q # s /\ at[q] = "comment" /\ at[s] = "comment" /\ path[q] = path[s])
            => Note(q) \in raced

Lists == CommentsKept /\ RivalsRaced /\ \A q \in Runs : HoldsList(q)

\* A step in which no list is read or written.
LEMMA ListsFrame ==
    ASSUME Typed, Lists, UNCHANGED <<sidecar, seen, kept, raced, blinded>>,
           \A q \in Runs : at'[q] = "comment" =>
                at[q] = "comment" /\ path'[q] = path[q] /\ next'[q] = next[q]
                    /\ visited'[q] = visited[q]
    PROVE  Lists'
<1>1. CommentsKept' BY DEF Lists, CommentsKept
<1>2. RivalsRaced' BY DEF Lists, RivalsRaced, Note, Current
<1>3. ASSUME NEW q \in Runs PROVE HoldsList(q)' BY DEF Lists, HoldsList
<1>. QED BY <1>1, <1>2, <1>3 DEF Lists

LEMMA ListsOfRead ==
    ASSUME Typed, Lists, NEW r \in Runs, CommentRead(r)
    PROVE  Lists'
<1>. USE DEF steps, world, notes, plan
<1>1. /\ path[r] \in Paths /\ at[r] = "nodes" /\ at'[r] = "comment"
      /\ \A q \in Runs : q # r => at'[q] = at[q] /\ seen'[q] = seen[q]
      /\ UNCHANGED <<path, next, visited, sidecar, kept>>
      BY DEF CommentRead, Doing, Pending, Typed, TypeOK
<1>2. raced \subseteq raced' /\ blinded \subseteq blinded' BY DEF CommentRead
<1>3. \A q \in Runs : Note(q)' = Note(q) BY <1>1 DEF Note, Current
<1>4. CommentsKept' BY <1>1, <1>2 DEF Lists, CommentsKept
<1>5. RivalsRaced'
      <2>1. ASSUME NEW q \in Runs, NEW s \in Runs, q # s, at'[q] = "comment",
                   at'[s] = "comment", path[q] = path[s]
            PROVE  Note(q) \in raced'
            <3>1. CASE q # r /\ s # r BY <1>1, <1>2, <2>1, <3>1 DEF Lists, RivalsRaced
            <3>2. CASE q = r \/ s = r
                  <4>1. (IF q = r THEN s ELSE q) \in Rivals(r) BY <1>1, <2>1, <3>2 DEF Rivals
                  <4>2. q \in Rivals(r) \cup {r} BY <3>2, <4>1
                  <4>. QED BY <4>1, <4>2 DEF CommentRead
            <3>. QED BY <3>1, <3>2
      <2>. QED BY <1>1, <1>3, <2>1 DEF RivalsRaced
<1>6. ASSUME NEW q \in Runs PROVE HoldsList(q)'
      <2>1. CASE q # r BY <1>1, <1>2, <2>1 DEF Lists, HoldsList
      <2>2. CASE q = r
            <3>1. seen'[r] = sidecar[path[r]] \/ path[r] \in blinded'
                  BY DEF CommentRead, Typed, TypeOK
            <3>. QED BY <1>1, <2>2, <3>1 DEF HoldsList
      <2>. QED BY <2>1, <2>2
<1>. QED BY <1>4, <1>5, <1>6 DEF Lists

LEMMA ListsOfWrite ==
    ASSUME Typed, Lists, NEW r \in Runs, CommentWrite(r)
    PROVE  Lists'
<1>. USE DEF steps, world, notes, plan
<1>. DEFINE p == path[r]  new == seen[r] \cup {Note(r)}
<1>1. /\ p \in Paths /\ at[r] = "comment" /\ at'[r] # "comment"
      /\ \A q \in Runs : q # r => at'[q] = at[q] /\ next'[q] = next[q]
      /\ UNCHANGED <<path, visited, seen, raced, blinded>>
      /\ sidecar'[p] = new
      /\ \A x \in Paths : x # p => sidecar'[x] = sidecar[x]
      /\ kept' \subseteq kept \cup {<<p, Note(r)>>}
      BY DEF CommentWrite, Succeed, Fail, List, Typed, TypeOK, Stages
<1>2. p \notin blinded =>
        /\ seen[r] \subseteq sidecar[p] \cup raced
        /\ sidecar[p] \subseteq seen[r] \cup raced
      BY <1>1 DEF Lists, HoldsList
<1>3. \A q \in Runs : q # r => Note(q)' = Note(q) BY <1>1 DEF Note, Current
<1>4. CommentsKept'
      <2>1. ASSUME NEW k \in kept', k[1] \notin blinded PROVE k[2] \in sidecar'[k[1]] \cup raced
            <3>1. CASE k \in kept
                  <4>1. k[1] \in Paths /\ k[2] \in sidecar[k[1]] \cup raced
                        BY <2>1, <3>1 DEF Lists, CommentsKept, Typed, TypeOK
                  <4>2. CASE k[1] = p BY <1>1, <1>2, <2>1, <4>1, <4>2
                  <4>3. CASE k[1] # p BY <1>1, <4>1, <4>3
                  <4>. QED BY <4>2, <4>3
            <3>2. CASE k = <<p, Note(r)>> BY <1>1, <3>2
            <3>. QED BY <1>1, <2>1, <3>1, <3>2
      <2>. QED BY <1>1, <2>1 DEF CommentsKept
<1>5. RivalsRaced' BY <1>1, <1>3 DEF Lists, RivalsRaced
<1>6. ASSUME NEW q \in Runs, at'[q] = "comment", path[q] \notin blinded
      PROVE  /\ seen[q] \subseteq sidecar'[path[q]] \cup raced
             /\ sidecar'[path[q]] \subseteq seen[q] \cup raced
      <2>1. q # r /\ at[q] = "comment" BY <1>1, <1>6
      <2>2. /\ seen[q] \subseteq sidecar[path[q]] \cup raced
            /\ sidecar[path[q]] \subseteq seen[q] \cup raced
            BY <1>6, <2>1 DEF Lists, HoldsList
      <2>3. CASE path[q] = p
            <3>1. Note(r) \in raced BY <1>1, <2>1, <2>3 DEF Lists, RivalsRaced
            <3>. QED BY <1>1, <1>2, <1>6, <2>2, <2>3, <3>1
      <2>4. CASE path[q] # p
            <3>1. path[q] \in Paths BY <2>1 DEF Typed, TypeOK, Stages
            <3>. QED BY <1>1, <2>2, <2>4, <3>1
      <2>. QED BY <2>3, <2>4
<1>7. ASSUME NEW q \in Runs PROVE HoldsList(q)' BY <1>1, <1>6 DEF HoldsList
<1>. QED BY <1>4, <1>5, <1>7 DEF Lists

LEMMA ListsOfStep ==
    ASSUME Typed, Lists, NEW r \in Runs, Step(r)
    PROVE  Lists'
<1>. USE DEF steps, world, notes, plan
<1>1. CASE CommentRead(r) BY <1>1, ListsOfRead
<1>2. CASE CommentWrite(r) BY <1>2, ListsOfWrite
<1>3. CASE ~CommentRead(r) /\ ~CommentWrite(r)
      <2>1. UNCHANGED <<sidecar, seen, kept, raced, blinded>>
            BY <1>3 DEF Step, Begin, Walk, Walked, Skip, NodeFails, NoFile, Tag, MoveOrRename,
                        Copy, CommentFails, Complete, Record
      <2>2. at'[r] # "comment"
            <3>0. TypeOK BY DEF Typed
            <3>1. CASE Walk(r) BY <3>1 DEF Walk
            <3>2. CASE Skip(r) BY <3>2 DEF Skip, Pending
            <3>3. CASE NodeFails(r) \/ NoFile(r) \/ CommentFails(r)
                  BY <3>0, <3>3 DEF NodeFails, NoFile, CommentFails, Succeed, Fail, TypeOK
            <3>4. CASE Tag(r) \/ MoveOrRename(r) \/ Copy(r)
                  BY <3>0, <3>4 DEF Tag, MoveOrRename, Copy, Answer, Succeed, Fail, TypeOK
            <3>5. CASE Begin(r) \/ Walked(r) \/ Complete(r) \/ Record(r)
                  BY <3>0, <3>5 DEF Begin, Walked, Complete, Record, TypeOK
            <3>. QED BY <1>3, <3>1, <3>2, <3>3, <3>4, <3>5 DEF Step
      <2>3. \A q \in Runs : at'[q] = "comment" =>
                at[q] = "comment" /\ path'[q] = path[q] /\ next'[q] = next[q]
                    /\ visited'[q] = visited[q]
            BY <2>2, Others DEF Own
      <2>. QED BY <2>1, <2>3, ListsFrame
<1>. QED BY <1>1, <1>2, <1>3

\* A comment that a node reported as made stays in the list of its path, unless
\* another run was commenting there at the same time, or could not read the list
\* (webdavfile.go:119-162).
THEOREM CommentsKeptAlways == Spec => []CommentsKept
<1>1. Init => Lists
      BY DEF Init, Lists, CommentsKept, RivalsRaced, HoldsList
<1>2. Typed /\ Lists /\ [Next]_vars => Lists'
      <2>1. ASSUME Typed, Lists, User \/ UNCHANGED vars PROVE Lists'
            <3>1. UNCHANGED <<sidecar, seen, kept, raced, blinded, at, path, next, visited>>
                  BY <2>1 DEF User, UserPuts, vars, steps, notes, plan
            <3>. QED BY <2>1, <3>1, ListsFrame
      <2>. QED BY <2>1, ListsOfStep DEF Next
<1>3. Lists => CommentsKept BY DEF Lists
<1>. QED BY <1>1, <1>2, <1>3, TypeInvariance, PTL DEF Spec
=============================================================================
