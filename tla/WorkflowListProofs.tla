------------------------- MODULE WorkflowListProofs -------------------------
(***************************************************************************)
(* Proofs about the two pages of WorkflowList and WorkflowBuilder, for     *)
(* every set of node kinds and any number of nodes and of openings: what   *)
(* is shown of the credential is true, what is saved is served, no node is *)
(* overwritten, and no number is given twice at one opening of the page.   *)
(***************************************************************************)
EXTENDS WorkflowList, TLAPS

-----------------------------------------------------------------------------
(* The inductive invariant. *)

\* What the variables of one page say of each other: the builder's node count
\* and pages, and on the list that nothing is shown before the status is read.
Paged ==
    /\ counter <= made
    /\ at = "builder" => page >= 1 /\ status = "loading"
    /\ at = "list" => save = "idle"
    /\ save = "sent" => payload \in Definition
    /\ load = "pending" => ~isNew
    /\ status = "loading" => ~shown /\ mount = "loading"

\* Every node there is, on the canvas, under way or stored.
NodesOf(d) == IF d = None THEN {} ELSE d.nodes
Around == nodes \cup NodesOf(stored) \cup NodesOf(payload)

\* The counter is ahead of the numbers given at this opening of the page, so
\* that of one opening no number is given twice.
Numbered ==
    /\ \A x \in Around :
        /\ x.page <= page
        /\ (at = "builder" /\ x.page = page /\ x.kind # "trigger") => x.n <= counter
    /\ \A x, y \in Around :
        (Id(x) = Id(y) /\ x.kind # "trigger" /\ x.page = y.page) => x = y

\* Everything of d is in the set X, or was deleted by the user.
Covers(X, d) == \A x \in NodesOf(d) : x \in X \/ x.card \in removed

\* A page that was not saved before it had loaded covers what is stored and what
\* is on its way there, which in turn covers what is stored.
Faithful ==
    (at = "builder" /\ ~early) =>
        /\ save = "sent" => load = "done" /\ Covers(nodes, payload)
        /\ (load = "done" /\ ~isNew) => Covers(nodes, stored)
        /\ (save = "sent" /\ ~isNew) => Covers(NodesOf(payload), stored)

IInv == TypeOK /\ Paged /\ Numbered /\ SavedIsServed /\ Faithful /\ ShownIsTrue

-----------------------------------------------------------------------------
(* What the steps have in common. *)

\* A step of the list leaves the builder alone, and the store but for a removal.
LEMMA ListFrame ==
    ASSUME ListStep
    PROVE  /\ at = "list" /\ at' = "list"
           /\ UNCHANGED builder
           /\ stored' = stored \/ stored' = None
BY DEF ListStep, LoadWorkflows, LoadAutomationStatus, ReconcileAutomation, AwaitReconnect,
       OpenPanel, ClosePanel, OnDisconnectClick, AwaitDisconnect, AwaitOrphan, Remove,
       backend

\* One disjunct each of the builder's steps.
LEMMA BuilderSteps ==
    ASSUME BuilderStep
    PROVE  /\ at = "builder" /\ UNCHANGED <<at, list>>
           /\ \/ Open \/ Load \/ OpenPicker \/ Toggle
              \/ \E k \in Kinds \cup {"trigger"} : OnPickNodeType(k)
              \/ \E x \in nodes : DeleteNode(x)
              \/ SaveClick \/ AwaitStatus \/ AwaitConnect \/ AwaitPersist
BY DEF BuilderStep, BuilderNext

\* Another tab touches neither page's own state.
LEMMA ElsewhereFrame ==
    ASSUME Elsewhere
    PROVE  /\ UNCHANGED <<at, route, canvas, picker, save, payload, early>>
           /\ UNCHANGED <<reads, shown, mount, panel, orphan>>
           /\ stored' = stored \/ stored' = None
BY DEF Elsewhere

-----------------------------------------------------------------------------
(* Types, the Boolean variables apart from the rest. *)

Flags ==
    /\ connected \in BOOLEAN /\ isNew \in BOOLEAN /\ wants \in BOOLEAN
    /\ early \in BOOLEAN /\ dropped \in BOOLEAN
    /\ shown \in BOOLEAN /\ orphan \in BOOLEAN /\ apart \in BOOLEAN

Shapes ==
    /\ stored \in Definition \cup {None}
    /\ page \in 0 .. MaxPages
    /\ load \in {"pending", "done", "failed"}
    /\ nodes \subseteq Node
    /\ counter \in 0 .. MaxNodes
    /\ picker \in {"closed", "trigger", "others"}
    /\ save \in {"idle", "status", "connect", "sent"}
    /\ payload \in Definition \cup {None}
    /\ made \in 0 .. MaxNodes
    /\ removed \subseteq 1 .. MaxNodes
    /\ at \in {"list", "builder"}
    /\ workflows \in {"none", "manual", "automated"}
    /\ loading \in {"mount", "again", "done", "failed"}
    /\ status \in {"loading", "done", "failed"}
    /\ mount \in {"loading", "connecting", "done"}
    /\ panel \in {"closed", "open", "confirming", "disconnecting"}
    /\ panel # "closed" => shown

LEMMA TypeParts == TypeOK <=> Flags /\ Shapes
BY Zenon DEF TypeOK, BuilderTypeOK, Flags, Shapes

LEMMA StoredFlags == TypeOK /\ stored # None => stored.wants \in BOOLEAN
BY DEF TypeOK, BuilderTypeOK, Definition

LEMMA FlagsInit == Init => Flags
BY Zenon DEF Init, BuilderInit, Flags

LEMMA FlagsStep ==
    ASSUME TypeOK, [Next]_vars
    PROVE  Flags'
<1> USE DEF Flags, backend, builder, route, canvas, saving, list, reads
<1>t. Flags
    BY TypeParts, Zenon
<1>1. CASE LoadWorkflows \/ LoadAutomationStatus \/ ReconcileAutomation
    BY <1>t, <1>1, Zenon DEF LoadWorkflows, LoadAutomationStatus, ReconcileAutomation
<1>2. CASE AwaitReconnect
    BY <1>t, <1>2, Zenon DEF AwaitReconnect
<1>3. CASE OpenPanel \/ ClosePanel \/ OnDisconnectClick
    BY <1>t, <1>3, Zenon DEF OpenPanel, ClosePanel, OnDisconnectClick
<1>4. CASE AwaitDisconnect
    BY <1>t, <1>4, Zenon DEF AwaitDisconnect, OnAutomationDisconnected
<1>5. CASE AwaitOrphan \/ Remove
    BY <1>t, <1>5, Zenon DEF AwaitOrphan, Remove
<1>6. CASE Open /\ UNCHANGED <<at, list>>
    BY <1>t, <1>6, Zenon DEF Open, Blank
<1>7. CASE Load /\ UNCHANGED <<at, list>>
    BY <1>t, <1>7, StoredFlags, Zenon DEF Load
<1>8. CASE (OpenPicker \/ Toggle) /\ UNCHANGED <<at, list>>
    BY <1>t, <1>8, Zenon DEF OpenPicker, Toggle
<1>9. ASSUME NEW k \in Kinds \cup {"trigger"}, OnPickNodeType(k), UNCHANGED <<at, list>>
      PROVE  Flags'
    BY <1>t, <1>9, Zenon DEF OnPickNodeType
<1>10. ASSUME NEW x \in nodes, DeleteNode(x), UNCHANGED <<at, list>> PROVE Flags'
    BY <1>t, <1>10, Zenon DEF DeleteNode
<1>11. CASE (SaveClick \/ AwaitStatus) /\ UNCHANGED <<at, list>>
    BY <1>t, <1>11, Zenon DEF SaveClick, AwaitStatus, StatusAnswered, Send, Await, Finish
<1>12. CASE AwaitConnect /\ UNCHANGED <<at, list>>
    BY <1>t, <1>12, Zenon DEF AwaitConnect, Send, Finish
<1>13. CASE AwaitPersist /\ UNCHANGED <<at, list>>
    BY <1>t, <1>13, Zenon DEF AwaitPersist, Finish
<1>14. CASE OpenList
    BY <1>t, <1>14, Zenon DEF OpenList, Blank, Unmounted
<1>15. CASE OpenBuilder
    BY <1>t, <1>15, Zenon DEF OpenBuilder, Open, Blank, Unmounted
<1>16. CASE Elsewhere
    BY <1>t, <1>16, Zenon DEF Elsewhere
<1>17. CASE UNCHANGED vars
    BY <1>t, <1>17, Zenon DEF vars
<1>18. CASE ListStep
    BY <1>1, <1>2, <1>3, <1>4, <1>5, <1>18 DEF ListStep
<1>19. CASE BuilderStep
    BY <1>6, <1>7, <1>8, <1>9, <1>10, <1>11, <1>12, <1>13, <1>19, BuilderSteps
<1> QED
    BY <1>14, <1>15, <1>16, <1>17, <1>18, <1>19 DEF Next

LEMMA InitType == Init => Shapes /\ Paged
BY BoundAssumption, SMT DEF Init, BuilderInit, Shapes, Paged

LEMMA ListType ==
    ASSUME Shapes, Paged, ListStep
    PROVE  Shapes' /\ Paged'
<1> USE DEF Shapes, Paged, backend, builder, route, canvas, saving, reads
<1>1. at = "list" /\ at' = "list" /\ UNCHANGED builder
    BY ListFrame
<1>2. CASE LoadWorkflows
    BY <1>1, <1>2 DEF LoadWorkflows
<1>3. CASE LoadAutomationStatus
    BY <1>1, <1>3 DEF LoadAutomationStatus
<1>4. CASE ReconcileAutomation
    BY <1>1, <1>4 DEF ReconcileAutomation
<1>5. CASE AwaitReconnect
    BY <1>1, <1>5 DEF AwaitReconnect
<1>6. CASE OpenPanel \/ ClosePanel \/ OnDisconnectClick
    BY <1>1, <1>6 DEF OpenPanel, ClosePanel, OnDisconnectClick
<1>7. CASE AwaitDisconnect
  <2>1. /\ panel' \in {"open", "closed"}
        /\ panel' # "closed" => shown'
        /\ shown' => shown
    BY <1>7, Zenon DEF AwaitDisconnect, OnAutomationDisconnected
  <2>2. UNCHANGED <<stored, reads, mount>>
    BY <1>7 DEF AwaitDisconnect
  <2> QED
    BY <1>1, <2>1, <2>2
<1>8. CASE AwaitOrphan
    BY <1>1, <1>8 DEF AwaitOrphan
<1>9. CASE Remove
    BY <1>1, <1>9 DEF Remove
<1> QED
    BY <1>2, <1>3, <1>4, <1>5, <1>6, <1>7, <1>8, <1>9 DEF ListStep

\* The types of what a step of the builder touches; the list is left alone.
LEMMA BuilderType ==
    ASSUME TypeOK, Paged, BuilderStep
    PROVE  Shapes' /\ Paged'
<1>t. Shapes
    BY TypeParts
<1> USE <1>t, BoundAssumption
    DEF Shapes, Paged, backend, route, canvas, saving, list, reads
<1>1. at = "builder" /\ UNCHANGED <<at, list>>
    BY BuilderSteps
<1>2. CASE Open
  <2>1. load' \in {"done", "pending"} /\ (load' = "pending" => ~isNew')
    BY <1>2, Zenon DEF Open
  <2>2. page' = page + 1 /\ page < MaxPages /\ Blank /\ UNCHANGED stored
    BY <1>2 DEF Open
  <2> QED
    BY <1>1, <2>1, <2>2 DEF Blank
<1>3. CASE Load
    BY <1>1, <1>3 DEF Load, Loaded, Definition
<1>4. CASE OpenPicker \/ Toggle
  <2>1. picker' \in {"closed", "trigger", "others"}
    BY <1>4, Zenon DEF OpenPicker, Toggle
  <2>2. UNCHANGED <<stored, route, nodes, counter, made, removed, saving>>
    BY <1>4, Zenon DEF OpenPicker, Toggle
  <2> QED
    BY <1>1, <2>1, <2>2
<1>5. ASSUME NEW k \in Kinds \cup {"trigger"}, OnPickNodeType(k) PROVE Shapes' /\ Paged'
  <2> DEFINE n == IF k = "trigger" THEN 0 ELSE NextNumber
             x == [kind |-> k, n |-> n, card |-> made + 1, page |-> page]
  <2>1. made + 1 \in 1 .. MaxNodes /\ n \in 0 .. MaxNodes
    BY <1>5 DEF OnPickNodeType, NextNumber
  <2>2. page \in 1 .. MaxPages
    BY <1>1
  <2>3. x \in Node
    BY <2>1, <2>2 DEF Node
  <2>4. nodes' = nodes \cup {x} /\ made' = made + 1 /\ counter' = IF k = "trigger" THEN counter ELSE n
    BY <1>5 DEF OnPickNodeType
  <2>5. counter' \in 0 .. MaxNodes /\ counter' <= made' /\ made' \in 0 .. MaxNodes
    BY <2>1, <2>4 DEF NextNumber
  <2>6. nodes' \subseteq Node
    BY <2>3, <2>4
  <2> HIDE DEF n, x
  <2> QED
    BY <1>1, <1>5, <2>5, <2>6 DEF OnPickNodeType
<1>6. ASSUME NEW x \in nodes, DeleteNode(x) PROVE Shapes' /\ Paged'
  <2>1. nodes' \subseteq nodes /\ removed' = removed \cup {y.card : y \in nodes \ nodes'}
    BY <1>6 DEF DeleteNode
  <2>2. \A y \in nodes : y.card \in 1 .. MaxNodes
    BY DEF Node
  <2>3. nodes' \subseteq Node /\ removed' \subseteq 1 .. MaxNodes
    BY <2>1, <2>2
  <2> QED
    BY <1>1, <1>6, <2>3 DEF DeleteNode
<1>7. Shown \in Definition
    BY DEF Shown, Definition, TypeOK, BuilderTypeOK
<1>8. CASE SaveClick
    BY <1>1, <1>7, <1>8 DEF SaveClick, Send, Await
<1>9. CASE AwaitStatus
    BY <1>1, <1>7, <1>9 DEF AwaitStatus, StatusAnswered, Send, Await, Finish
<1>10. CASE AwaitConnect
    BY <1>1, <1>7, <1>10 DEF AwaitConnect, Send, Finish
<1>11. CASE AwaitPersist
    BY <1>1, <1>11 DEF AwaitPersist, Persist, Finish
<1> QED
    BY BuilderSteps, <1>2, <1>3, <1>4, <1>5, <1>6, <1>8, <1>9, <1>10, <1>11

LEMMA TypeStep ==
    ASSUME TypeOK, Paged, [Next]_vars
    PROVE  Shapes' /\ Paged'
<1>t. Shapes
    BY TypeParts
<1> USE <1>t, BoundAssumption
    DEF Shapes, Paged, backend, builder, route, canvas, saving, list, reads
<1>1. CASE OpenList
    BY <1>1 DEF OpenList, Blank, Unmounted
<1>2. CASE OpenBuilder
  <2>1. load' \in {"done", "pending"} /\ (load' = "pending" => ~isNew')
    BY <1>2, Zenon DEF OpenBuilder, Open
  <2>2. /\ page' = page + 1 /\ page < MaxPages /\ UNCHANGED stored
        /\ at' = "builder" /\ Blank /\ Unmounted
    BY <1>2 DEF OpenBuilder, Open
  <2> QED
    BY <2>1, <2>2 DEF Blank, Unmounted
<1>3. CASE Elsewhere
    BY <1>3 DEF Elsewhere
<1>4. CASE UNCHANGED vars
    BY <1>4 DEF vars
<1> QED
    BY <1>1, <1>2, <1>3, <1>4, ListType, BuilderType DEF Next

-----------------------------------------------------------------------------
(* Numbers. *)

LEMMA AroundType == TypeOK => Around \subseteq Node
BY DEF TypeOK, BuilderTypeOK, Around, NodesOf, Definition

LEMMA NumbersKept ==
    ASSUME TypeOK, TypeOK', Numbered, Around' \subseteq Around,
           \/ at' = "list" /\ page' = page
           \/ page' = page + 1
           \/ at' = at /\ page' = page /\ counter' = counter
    PROVE  Numbered'
<1>1. page \in Nat /\ page' \in Nat /\ \A x \in Around : x.page \in Nat
    BY BoundAssumption, AroundType DEF TypeOK, BuilderTypeOK, Node
<1>2. \A x \in Around' :
          /\ x.page <= page'
          /\ (at' = "builder" /\ x.page = page' /\ x.kind # "trigger") => x.n <= counter'
    BY <1>1 DEF Numbered
<1>3. \A x, y \in Around' :
          (Id(x) = Id(y) /\ x.kind # "trigger" /\ x.page = y.page) => x = y
    BY DEF Numbered
<1> QED
    BY <1>2, <1>3 DEF Numbered, Id

\* The number a new node gets is new at this opening of the page.
LEMMA NumbersPicked ==
    ASSUME TypeOK, Paged, Numbered, at = "builder", UNCHANGED <<at, list>>,
           NEW k \in Kinds \cup {"trigger"}, OnPickNodeType(k)
    PROVE  Numbered'
<1> DEFINE n == IF k = "trigger" THEN 0 ELSE NextNumber
           z == [kind |-> k, n |-> n, card |-> made + 1, page |-> page]
<1>1. /\ counter' = IF k = "trigger" THEN counter ELSE n
      /\ nodes' = nodes \cup {z}
      /\ UNCHANGED <<stored, payload, page, at>>
    BY DEF OnPickNodeType, backend, route, saving
<1>2. Around' = Around \cup {z}
    <2> HIDE DEF z
    <2> QED BY <1>1 DEF Around, NodesOf
<1>3. /\ counter \in Nat /\ page \in Nat
      /\ \A x \in Around : x.n \in Nat /\ x.page \in Nat
    BY BoundAssumption, AroundType DEF TypeOK, BuilderTypeOK, Node
<1>4. z.page = page /\ z.kind = k /\ z.n = n /\ (k # "trigger" => n = counter + 1)
    BY DEF NextNumber
<1>5. \A x \in Around : (x.page = page /\ x.kind # "trigger") => x.n <= counter
    BY DEF Numbered
<1> HIDE DEF z, n
<1>6. counter' \in Nat /\ counter <= counter' /\ (k # "trigger" => counter' = n)
    BY <1>1, <1>3, <1>4
<1>7. \A x \in Around' :
          /\ x.page <= page'
          /\ (at' = "builder" /\ x.page = page' /\ x.kind # "trigger") => x.n <= counter'
    <2>1. z.page <= page' /\ (z.kind # "trigger" => z.n <= counter')
        BY <1>1, <1>3, <1>4, <1>6
    <2>2. \A x \in Around : x.page <= page'
        BY <1>1 DEF Numbered
    <2>3. \A x \in Around : (x.page = page' /\ x.kind # "trigger") => x.n <= counter'
        BY <1>1, <1>3, <1>5, <1>6
    <2> QED BY <1>2, <2>1, <2>2, <2>3
<1>8. \A x \in Around :
          (Id(x) = Id(z) /\ x.kind # "trigger" /\ x.page = z.page) => FALSE
    BY <1>3, <1>4, <1>5 DEF Id
<1>9. \A x, y \in Around' :
          (Id(x) = Id(y) /\ x.kind # "trigger" /\ x.page = y.page) => x = y
    <2>1. \A x \in Around :
              (Id(x) = Id(z) /\ z.kind # "trigger" /\ x.page = z.page) => FALSE
        BY <1>8 DEF Id
    <2> QED BY <1>2, <1>8, <2>1 DEF Numbered
<1> QED
    BY <1>7, <1>9 DEF Numbered, Id

LEMMA NumberedStep ==
    ASSUME TypeOK, TypeOK', Paged, Numbered, [Next]_vars
    PROVE  Numbered'
<1> USE DEF Around, NodesOf, backend, builder, route, canvas, saving, list
<1>1. CASE ListStep
  <2>1. Around' \subseteq Around /\ UNCHANGED <<at, page, counter>>
    BY <1>1, ListFrame
  <2> QED
    BY <2>1, NumbersKept
<1>2. CASE OpenList
  <2>1. Around' \subseteq Around /\ at' = "list" /\ page' = page
    BY <1>2 DEF OpenList, Blank
  <2> QED
    BY <2>1, NumbersKept
<1>3. CASE OpenBuilder \/ (BuilderStep /\ Open)
  <2>1. Around' \subseteq Around /\ page' = page + 1
    BY <1>3 DEF OpenBuilder, Open, Blank
  <2> QED
    BY <2>1, NumbersKept
<1>4. CASE BuilderStep /\ Load
  <2>1. Around' \subseteq Around /\ UNCHANGED <<at, page, counter>>
    BY <1>4, BuilderSteps DEF Load, Loaded
  <2> QED
    BY <2>1, NumbersKept
<1>5. CASE BuilderStep /\ (OpenPicker \/ Toggle)
  <2>1. Around' \subseteq Around /\ UNCHANGED <<at, page, counter>>
    BY <1>5, BuilderSteps DEF OpenPicker, Toggle
  <2> QED
    BY <2>1, NumbersKept
<1>6. ASSUME BuilderStep, NEW k \in Kinds \cup {"trigger"}, OnPickNodeType(k)
      PROVE  Numbered'
    BY <1>6, BuilderSteps, NumbersPicked
<1>7. ASSUME BuilderStep, NEW x \in nodes, DeleteNode(x) PROVE Numbered'
  <2>1. Around' \subseteq Around /\ UNCHANGED <<at, page, counter>>
    BY <1>7, BuilderSteps DEF DeleteNode
  <2> QED
    BY <2>1, NumbersKept
<1>8. CASE BuilderStep /\ (SaveClick \/ AwaitStatus \/ AwaitConnect)
  <2>1. UNCHANGED <<stored, nodes, at, page, counter>>
    BY <1>8, BuilderSteps DEF SaveClick, AwaitStatus, AwaitConnect
  <2>2. payload' = payload \/ payload' = None \/ payload' = Shown
    BY <1>8 DEF SaveClick, AwaitStatus, AwaitConnect, StatusAnswered, Send, Await, Finish
  <2>3. Around' \subseteq Around
    BY <2>1, <2>2 DEF Shown
  <2> QED
    BY <2>1, <2>3, NumbersKept
<1>9. CASE BuilderStep /\ AwaitPersist
  <2>1. /\ UNCHANGED <<nodes, at, page, counter>>
        /\ payload' = None
        /\ stored' = stored \/ stored' = payload
    BY <1>9, BuilderSteps DEF AwaitPersist, Persist, Finish
  <2>2. Around' \subseteq Around
    BY <2>1
  <2> QED
    BY <2>1, <2>2, NumbersKept
<1>10. CASE Elsewhere
  <2>1. Around' \subseteq Around /\ UNCHANGED <<at, page, counter>>
    BY <1>10, ElsewhereFrame
  <2> QED
    BY <2>1, NumbersKept
<1>11. CASE UNCHANGED vars
  <2>1. Around' \subseteq Around /\ UNCHANGED <<at, page, counter>>
    BY <1>11 DEF vars
  <2> QED
    BY <2>1, NumbersKept
<1> QED
    BY <1>1, <1>2, <1>3, <1>4, <1>5, <1>6, <1>7, <1>8, <1>9, <1>10, <1>11,
       BuilderSteps DEF Next

-----------------------------------------------------------------------------
(* What is saved is served. *)

LEMMA SavedStep ==
    ASSUME TypeOK, Paged, SavedIsServed, [Next]_vars
    PROVE  SavedIsServed'
<1> USE DEF SavedIsServed
<1>1. CASE at = "list" /\ UNCHANGED save
    BY <1>1 DEF Paged
<1>2. CASE OpenList \/ OpenBuilder \/ (BuilderStep /\ Open)
  <2>1. save' = "idle"
    BY <1>2 DEF OpenList, OpenBuilder, Open, Blank
  <2> QED
    BY <2>1
<1>3. CASE UNCHANGED <<save, payload, connected, dropped>>
    BY <1>3 DEF Automated
<1>4. CASE SaveClick
  <2>1. CASE NeedsAutomation
    BY <1>4, <2>1 DEF SaveClick, Await
  <2>2. CASE ~NeedsAutomation
    BY <1>4, <2>2 DEF SaveClick, Send, NeedsAutomation, Automated
  <2> QED
    BY <2>1, <2>2
<1>5. CASE AwaitStatus
  <2>1. save' = "sent" => connected
    BY <1>5 DEF AwaitStatus, StatusAnswered, Await, Finish
  <2>2. UNCHANGED connected
    BY <1>5 DEF AwaitStatus, backend
  <2> QED
    BY <2>1, <2>2
<1>6. CASE AwaitConnect
  <2>1. save' = "sent" => connected'
    BY <1>6, Zenon DEF AwaitConnect, Finish
  <2> QED
    BY <2>1
<1>7. CASE AwaitPersist
    BY <1>7 DEF AwaitPersist, Finish
<1>8. CASE Elsewhere
  <2>1. UNCHANGED <<save, payload>>
    BY <1>8, ElsewhereFrame
  <2>2. ASSUME save = "sent", connected \/ dropped PROVE connected' \/ dropped'
    <3>1. dropped' = (dropped \/ (connected # connected' /\ connected /\ save # "idle"))
      BY <1>8, Zenon DEF Elsewhere
    <3>2. CASE dropped
      BY <3>1, <3>2
    <3>3. CASE connected /\ ~connected'
      BY <2>2, <3>1, <3>3, Zenon
    <3> QED
      BY <2>2, <3>2, <3>3
  <2> QED
    BY <2>1, <2>2 DEF Automated
<1>9. CASE ListStep
    BY <1>1, <1>9, ListFrame DEF builder, saving
<1>10. CASE BuilderStep
  <2>1. CASE Load \/ OpenPicker \/ Toggle
    BY <1>3, <2>1 DEF Load, OpenPicker, Toggle, backend, saving
  <2>2. ASSUME NEW k \in Kinds \cup {"trigger"}, OnPickNodeType(k) PROVE SavedIsServed'
    BY <1>3, <2>2 DEF OnPickNodeType, backend, saving
  <2>3. ASSUME NEW x \in nodes, DeleteNode(x) PROVE SavedIsServed'
    BY <1>3, <2>3 DEF DeleteNode, backend, saving
  <2> QED
    BY <1>2, <1>4, <1>5, <1>6, <1>7, <1>10, <2>1, <2>2, <2>3, BuilderSteps
<1>11. CASE UNCHANGED vars
    BY <1>3, <1>11 DEF vars, backend, builder, saving
<1> QED
    BY <1>2, <1>8, <1>9, <1>10, <1>11 DEF Next

-----------------------------------------------------------------------------
(* What is shown is true. *)

LEMMA ShownStep ==
    ASSUME TypeOK, Paged, ShownIsTrue, [Next]_vars
    PROVE  ShownIsTrue'
<1> USE DEF ShownIsTrue
<1>1. CASE UNCHANGED <<status, shown, apart, connected>>
    BY <1>1
<1>2. CASE status' = "loading"
    BY <1>2
<1>3. CASE LoadAutomationStatus
  <2>1. CASE status' = "done"
    BY <1>3, <2>1, Zenon DEF LoadAutomationStatus, backend
  <2>2. CASE status' = "failed"
    BY <1>3, <2>2, Zenon DEF LoadAutomationStatus, Paged
  <2> QED
    BY <1>3, <2>1, <2>2 DEF LoadAutomationStatus
<1>4. CASE AwaitReconnect
  <2>1. status # "loading" /\ status' = status
    BY <1>4 DEF AwaitReconnect, Paged, reads
  <2>2. CASE connected' = TRUE /\ shown' = TRUE
    BY <2>2
  <2>3. CASE apart' = TRUE
    BY <2>3
  <2> QED
    BY <1>1, <1>4, <2>1, <2>2, <2>3, Zenon DEF AwaitReconnect
<1>5. CASE AwaitDisconnect
  <2>1. CASE connected' = FALSE /\ shown' = FALSE
    BY <2>1
  <2>2. CASE apart' = TRUE
    BY <2>2
  <2>3. UNCHANGED status
    BY <1>5 DEF AwaitDisconnect, reads
  <2> QED
    BY <1>1, <1>5, <2>1, <2>2, <2>3, Zenon DEF AwaitDisconnect, OnAutomationDisconnected
<1>6. CASE AwaitOrphan
  <2>1. CASE apart' = TRUE
    BY <2>1
  <2>2. UNCHANGED <<status, shown>>
    BY <1>6 DEF AwaitOrphan, reads
  <2> QED
    BY <1>1, <1>6, <2>1, <2>2, Zenon DEF AwaitOrphan
<1>7. CASE ListStep
  <2>1. CASE LoadWorkflows \/ ReconcileAutomation
    BY <1>1, <2>1 DEF LoadWorkflows, ReconcileAutomation, backend, reads
  <2>2. CASE OpenPanel \/ ClosePanel \/ OnDisconnectClick \/ Remove
    BY <1>1, <2>2 DEF OpenPanel, ClosePanel, OnDisconnectClick, Remove, backend, reads
  <2> QED
    BY <1>3, <1>4, <1>5, <1>6, <1>7, <2>1, <2>2 DEF ListStep
<1>8. CASE OpenList \/ OpenBuilder
    BY <1>2, <1>8 DEF OpenList, OpenBuilder, Unmounted
<1>9. CASE BuilderStep
  <2>1. status = "loading" /\ UNCHANGED status
    BY <1>9, BuilderSteps DEF Paged, list, reads
  <2> QED
    BY <1>2, <2>1
<1>10. CASE Elsewhere
  <2>1. UNCHANGED <<at, status, shown>>
    BY <1>10 DEF Elsewhere, reads
  <2>2. CASE at = "builder"
    BY <1>2, <2>1, <2>2 DEF Paged
  <2>3. CASE at = "list"
    <3>1. connected' = connected \/ apart'
      BY <1>10, <2>3 DEF Elsewhere
    <3>2. apart => apart'
      BY <1>10 DEF Elsewhere
    <3> QED
      BY <2>1, <3>1, <3>2
  <2> QED
    BY <2>2, <2>3 DEF TypeOK
<1>11. CASE UNCHANGED vars
    BY <1>1, <1>11 DEF vars, backend, list, reads
<1> QED
    BY <1>7, <1>8, <1>9, <1>10, <1>11 DEF Next

-----------------------------------------------------------------------------
(* Nothing is overwritten. *)

\* Where nothing is sent anew and the store is not written, it is enough that the
\* canvas loses only what the user deletes.
LEMMA CanvasKept ==
    ASSUME Faithful,
           UNCHANGED <<at, isNew, load, early>>,
           save' # "sent" \/ UNCHANGED <<save, payload>>,
           stored' = stored \/ stored' = None,
           \A x \in nodes : x \in nodes' \/ x.card \in removed',
           removed \subseteq removed'
    PROVE  Faithful'
<1>1. NodesOf(stored') \subseteq NodesOf(stored)
    BY DEF NodesOf
<1>2. UNCHANGED payload /\ Covers(nodes, payload) => Covers(nodes, payload)'
    BY DEF Covers, NodesOf
<1>3. Covers(nodes, stored) => Covers(nodes, stored)'
    BY <1>1 DEF Covers, NodesOf
<1>4. UNCHANGED payload /\ Covers(NodesOf(payload), stored)
          => Covers(NodesOf(payload), stored)'
    BY <1>1 DEF Covers, NodesOf
<1> QED
    BY <1>2, <1>3, <1>4 DEF Faithful

\* What is sent is what the page shows.
LEMMA SentFaithful ==
    ASSUME TypeOK, Faithful, at = "builder", Send,
           UNCHANGED <<at, isNew, load, nodes, removed, stored>>
    PROVE  Faithful'
<1>1. save' = "sent" /\ payload' = Shown /\ (~early' => ~early /\ load = "done")
    BY DEF Send
<1>2. Shown # None /\ Shown.nodes = nodes
    BY NullAssumption DEF Shown, Definition, TypeOK, BuilderTypeOK
<1>3. NodesOf(payload)' = nodes'
    BY <1>1, <1>2 DEF NodesOf
<1>4. Covers(nodes, payload)'
    BY <1>3 DEF Covers
<1>5. Covers(nodes, stored) => Covers(nodes, stored)' /\ Covers(NodesOf(payload), stored)'
    BY <1>3 DEF Covers, NodesOf
<1> QED
    BY <1>1, <1>4, <1>5 DEF Faithful

LEMMA PersistFaithful ==
    ASSUME TypeOK, Faithful, at = "builder", AwaitPersist, UNCHANGED at
    PROVE  Faithful'
<1>1. /\ save = "sent" /\ save' = "idle"
      /\ UNCHANGED <<isNew, load, early, nodes, removed>>
      /\ stored' = stored \/ stored' = payload
    BY DEF AwaitPersist, Persist, Finish, route, canvas
<1>2. CASE stored' = stored
    BY <1>1, <1>2, CanvasKept
<1>3. CASE stored' = payload
  <2>1. Covers(nodes, payload) => Covers(nodes, stored)'
    BY <1>1, <1>3 DEF Covers, NodesOf
  <2> QED
    BY <1>1, <2>1 DEF Faithful
<1> QED
    BY <1>1, <1>2, <1>3

LEMMA OpenFaithful ==
    ASSUME Open
    PROVE  Faithful'
<1>1. save' = "idle"
    BY DEF Open, Blank
<1>2. load' = "done" => isNew'
    BY Zenon DEF Open
<1> QED
    BY <1>1, <1>2 DEF Faithful

LEMMA LoadFaithful ==
    ASSUME Faithful, at = "builder", Load, UNCHANGED at
    PROVE  Faithful'
<1>1. load = "pending" /\ UNCHANGED <<stored, isNew, removed, save, early>>
    BY DEF Load, backend, saving
<1>2. ~early => save' # "sent"
    BY <1>1 DEF Faithful
<1>3. load' = "done" => stored # None /\ nodes' = stored.nodes
    BY DEF Load, Loaded
<1>4. load' = "done" => Covers(nodes, stored)'
    BY <1>1, <1>3 DEF Covers, NodesOf
<1> QED
    BY <1>1, <1>2, <1>4 DEF Faithful

LEMMA FaithfulStep ==
    ASSUME TypeOK, Faithful, [Next]_vars
    PROVE  Faithful'
<1> USE DEF backend, builder, route, canvas, saving
<1>1. CASE at' = "list"
    BY <1>1 DEF Faithful
<1>2. CASE ListStep \/ OpenList
    BY <1>1, <1>2, ListFrame DEF OpenList
<1>3. CASE OpenBuilder
    BY <1>3, OpenFaithful DEF OpenBuilder
<1>4. CASE BuilderStep
  <2>1. at = "builder" /\ UNCHANGED at
    BY <1>4, BuilderSteps
  <2>2. CASE OpenPicker \/ Toggle
    BY <2>1, <2>2, CanvasKept DEF OpenPicker, Toggle
  <2>3. ASSUME NEW k \in Kinds \cup {"trigger"}, OnPickNodeType(k) PROVE Faithful'
    <3>1. nodes \subseteq nodes' /\ UNCHANGED <<stored, isNew, load, early, save, payload, removed>>
      BY <2>3 DEF OnPickNodeType
    <3> QED
      BY <2>1, <3>1, CanvasKept
  <2>4. ASSUME NEW x \in nodes, DeleteNode(x) PROVE Faithful'
    <3>1. /\ removed' = removed \cup {y.card : y \in nodes \ nodes'}
          /\ UNCHANGED <<stored, isNew, load, early, save, payload>>
      BY <2>4 DEF DeleteNode
    <3> QED
      BY <2>1, <3>1, CanvasKept
  <2>5. CASE SaveClick
    <3>1. UNCHANGED <<stored, isNew, load, nodes, removed>>
      BY <2>5 DEF SaveClick
    <3>2. Send \/ Await("status")
      BY <2>5 DEF SaveClick
    <3> QED
      BY <2>1, <3>1, <3>2, SentFaithful, CanvasKept DEF Await
  <2>6. CASE AwaitStatus
    <3>1. UNCHANGED <<stored, isNew, load, nodes, removed>>
      BY <2>6 DEF AwaitStatus
    <3>2. Send \/ Await("connect") \/ Finish
      BY <2>6 DEF AwaitStatus, StatusAnswered
    <3> QED
      BY <2>1, <3>1, <3>2, SentFaithful, CanvasKept DEF Await, Finish
  <2>7. CASE AwaitConnect
    <3>1. UNCHANGED <<stored, isNew, load, nodes, removed>>
      BY <2>7 DEF AwaitConnect
    <3>2. Send \/ Finish
      BY <2>7 DEF AwaitConnect
    <3> QED
      BY <2>1, <3>1, <3>2, SentFaithful, CanvasKept DEF Finish
  <2> QED
    BY <1>4, <2>1, <2>2, <2>3, <2>4, <2>5, <2>6, <2>7, BuilderSteps,
       OpenFaithful, LoadFaithful, PersistFaithful
<1>5. CASE Elsewhere \/ UNCHANGED vars
  <2>1. /\ UNCHANGED <<at, isNew, load, early, save, payload, nodes, removed>>
        /\ stored' = stored \/ stored' = None
    BY <1>5, ElsewhereFrame DEF vars
  <2> QED
    BY <2>1, CanvasKept
<1> QED
    BY <1>2, <1>3, <1>4, <1>5 DEF Next

-----------------------------------------------------------------------------
\* Initially, and by every step, all of it.
LEMMA InitInv == Init => IInv
<1> SUFFICES ASSUME Init PROVE IInv
    OBVIOUS
<1>1. TypeOK /\ Paged
    BY InitType, FlagsInit, TypeParts
<1>2. stored = None /\ nodes = {} /\ payload = None /\ at = "list"
      /\ save = "idle" /\ status = "loading"
    BY DEF Init, BuilderInit
<1>3. Numbered
    BY <1>2 DEF Numbered, Around, NodesOf
<1>4. SavedIsServed /\ Faithful /\ ShownIsTrue
    BY <1>2 DEF SavedIsServed, Faithful, ShownIsTrue
<1> QED
    BY <1>1, <1>3, <1>4 DEF IInv

LEMMA Inductive == IInv /\ [Next]_vars => IInv'
<1> SUFFICES ASSUME IInv, [Next]_vars PROVE IInv'
    OBVIOUS
<1>1. Flags' /\ Shapes' /\ Paged'
    BY FlagsStep, TypeStep DEF IInv
<1>2. TypeOK'
    BY <1>1, Zenon DEF Flags, Shapes, TypeOK, BuilderTypeOK
<1> QED
    BY <1>1, <1>2, NumberedStep, SavedStep, FaithfulStep, ShownStep DEF IInv

THEOREM Invariance == Spec => []IInv
BY InitInv, Inductive, PTL DEF Spec

\* The pages' variables have their types, and the panel that disconnects is open
\* only over a page that shows a credential (WorkflowList.vue:138-142).
THEOREM TypeCorrect == Spec => []TypeOK
<1>1. IInv => TypeOK
    BY DEF IInv
<1> QED
    BY <1>1, Invariance, PTL

\* Two numbered nodes with one id come from two openings of the builder
\* (WorkflowBuilder.vue:204), whatever is added, deleted, loaded and saved, in
\* whatever order the calls are answered.
THEOREM TwinsFromTwoPagesAlways == Spec => []TwinsFromTwoPages
<1>1. IInv => TwinsFromTwoPages
    BY DEF IInv, Numbered, Around, NodesOf, TwinsFromTwoPages
<1> QED
    BY <1>1, Invariance, PTL

\* A workflow that is to run by itself is sent only with a credential in place
\* (WorkflowBuilder.vue:264-290), unless that went away while Save was under way.
THEOREM SavedIsServedAlways == Spec => []SavedIsServed
<1>1. IInv => SavedIsServed
    BY DEF IInv
<1> QED
    BY <1>1, Invariance, PTL

\* "Background execution active" tells the truth (WorkflowList.vue:6-14), in
\* whatever order reads, reconnection and disconnection are answered.
THEOREM ShownIsTrueAlways == Spec => []ShownIsTrue
<1>1. IInv => ShownIsTrue
    BY DEF IInv
<1> QED
    BY <1>1, Invariance, PTL

\* No node leaves the store but by the user's deletion, or by a page saved
\* before it had loaded (WorkflowBuilder.vue:177-191, 292-305).
THEOREM NothingOverwrittenAlways == Spec => NothingOverwritten
<1> DEFINE Kept == (stored # None /\ stored' # None) =>
                       \A x \in stored.nodes :
                           x \in stored'.nodes \/ x.card \in removed \/ early
<1>1. IInv /\ [Next]_vars => [Kept]_<<backend, builder>>
  <2> SUFFICES ASSUME IInv, [Next]_vars PROVE Kept
    OBVIOUS
  <2>1. CASE stored' = stored \/ stored' = None
    BY <2>1
  <2>2. CASE BuilderStep /\ AwaitPersist
    <3>1. at = "builder" /\ save = "sent"
      BY <2>2, BuilderSteps DEF AwaitPersist
    <3>2. CASE stored' = payload /\ ~isNew /\ ~early
      <4>1. Covers(NodesOf(payload), stored)
        BY <3>1, <3>2 DEF IInv, Faithful
      <4> QED
        BY <3>2, <4>1 DEF Covers, NodesOf
    <3>3. stored' = stored \/ stored = None \/ (stored' = payload /\ ~isNew)
      BY <2>2 DEF AwaitPersist, Persist
    <3> QED
      BY <2>1, <3>2, <3>3
  <2>3. CASE BuilderStep /\ ~AwaitPersist
    <3>1. stored' = stored
      BY <2>3, BuilderSteps
         DEF Open, Load, OpenPicker, Toggle, OnPickNodeType, DeleteNode, SaveClick,
             AwaitStatus, AwaitConnect, backend
    <3> QED
      BY <2>1, <3>1
  <2>4. CASE ListStep \/ OpenList \/ OpenBuilder \/ Elsewhere \/ UNCHANGED vars
    <3>1. stored' = stored \/ stored' = None
      BY <2>4, ListFrame, ElsewhereFrame DEF OpenList, OpenBuilder, Open, backend, vars
    <3> QED
      BY <2>1, <3>1
  <2> QED
    BY <2>2, <2>3, <2>4 DEF Next
<1> QED
    BY <1>1, Invariance, PTL DEF Spec, NothingOverwritten
=============================================================================
