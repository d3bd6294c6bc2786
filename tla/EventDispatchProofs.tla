------------------------ MODULE EventDispatchProofs ------------------------
(***************************************************************************)
(* Proofs about EventDispatch for every set of files and of workflows,     *)
(* whatever their triggers, filters and actions: as long as the path of an *)
(* item that exists can be looked up, no run is ever started for one of    *)
(* the backend's own files; and no run ever destroys a file.               *)
(***************************************************************************)
EXTENDS EventDispatch, TLAPS

LEMMA InitType == Init => TypeOK
BY BoundAssumption DEF Init, TypeOK, None, Run

\* What is emitted stays within the bound.
LEMMA EmitType ==
    ASSUME TypeOK, NEW e \in Events, Emit(e)
    PROVE  /\ stream' \in [Events -> 0 .. MaxPending]
           /\ log' \in [Events -> 0 .. MaxPending]
BY BoundAssumption DEF TypeOK, Emit, More

LEMMA ItemEvents ==
    \A t \in Types, i \in Items : Event(t, i) \in Events
BY DEF Event, Events

LEMMA BookEvent == Event("upload", Book) \in Events
BY DEF Event, Events

\* A path that was looked up is one, or none.
LEMMA ItemPathType ==
    ASSUME TypeOK, NEW i \in Items \cup {Book}
    PROVE  ItemPath(i) \subseteq Resolutions
BY NullAssumption DEF TypeOK, ItemPath, PathOf, Resolutions

LEMMA StartType ==
    ASSUME TypeOK, NEW ws \in SUBSET Workflows, NEW p \in Resolutions,
           NEW i \in Items \cup {Book}, Start(ws, p, i)
    PROVE  /\ run' \in [Slots -> Run \cup {Idle}]
           /\ started' \subseteq Workflows \X (Items \cup {Book})
<1> DEFINE slot == CHOOSE f \in [ws -> Slots \ Running] :
                       \A v, w \in ws : f[v] = f[w] => v = w
           chosen(s) == CHOOSE w \in ws : slot[w] = s
           begun(s) == [at |-> "load", wf |-> chosen(s), path |-> p, todo |-> <<>>]
<1>1. run' = [s \in Slots |-> IF \E w \in ws : slot[w] = s THEN begun(s) ELSE run[s]]
    BY DEF Start
<1>2. ASSUME NEW s \in Slots, \E w \in ws : slot[w] = s
      PROVE  begun(s) \in Run
    <2>1. chosen(s) \in ws
        BY <1>2
    <2> QED BY <2>1 DEF Run
<1>3. run' \in [Slots -> Run \cup {Idle}]
    BY <1>1, <1>2 DEF TypeOK
<1>4. started' \subseteq Workflows \X (Items \cup {Book})
    BY DEF Start, TypeOK
<1> QED BY <1>3, <1>4

LEMMA DeliverType ==
    ASSUME TypeOK, NEW e \in Events, Deliver(e) \/ Dispatch(e)
    PROVE  TypeOK'
<1> USE DEF TypeOK
<1>1. e.item \in Items \cup {Book}
    BY DEF Events
<1>2. PICK p \in ItemPath(e.item), ws \in SUBSET Workflows : Start(ws, p, e.item)
    BY DEF Deliver, Dispatch, LiveMatches, LogMatches, Matches
<1>3. p \in Resolutions
    BY <1>1, ItemPathType
<1>4. /\ run' \in [Slots -> Run \cup {Idle}]
      /\ started' \subseteq Workflows \X (Items \cup {Book})
    BY <1>1, <1>2, <1>3, StartType
<1>5. /\ stream' \in [Events -> 0 .. MaxPending]
      /\ log' \in [Events -> 0 .. MaxPending]
    BY BoundAssumption DEF Deliver, Dispatch
<1> QED BY <1>4, <1>5 DEF Deliver, Dispatch

LEMMA LoseType ==
    ASSUME TypeOK, NEW e \in Events, Lose(e)
    PROVE  TypeOK'
<1>1. stream' \in [Events -> 0 .. MaxPending]
    BY BoundAssumption DEF Lose, TypeOK
<1> QED BY <1>1 DEF Lose, TypeOK

LEMMA UserType ==
    ASSUME TypeOK, User
    PROVE  TypeOK'
<1> USE BoundAssumption DEF TypeOK, UserActs
<1>1. ASSUME NEW i \in Items, NEW p \in UserPaths, Upload(i, p) PROVE TypeOK'
    <2>1. Event("upload", i) \in Events
        BY ItemEvents DEF Types
    <2> QED BY <1>1, <2>1, EmitType DEF Upload, Put
<1>2. ASSUME NEW i \in Items, NEW p \in UserPaths, UserMove(i, p) PROVE TypeOK'
    <2>1. Event("move", i) \in Events
        BY ItemEvents DEF Types
    <2> QED BY <1>2, <2>1, EmitType DEF UserMove, Put
<1>3. ASSUME NEW i \in Items, Share(i) PROVE TypeOK'
    <2>1. Event("share", i) \in Events
        BY ItemEvents DEF Types
    <2> QED BY <1>3, <2>1, EmitType DEF Share
<1>4. ASSUME NEW i \in Items, Delete(i) PROVE TypeOK'
    BY <1>4 DEF Delete
<1>5. ASSUME NEW w \in Workflows, Toggle(w) PROVE TypeOK'
    BY <1>5 DEF Toggle
<1>6. ASSUME NEW w \in Workflows, Sync(w) PROVE TypeOK'
    BY <1>6 DEF Sync
<1> QED BY <1>1, <1>2, <1>3, <1>4, <1>5, <1>6 DEF User

\* The types of the run a step is about, and of what its next node needs.
LEMMA RunFields ==
    ASSUME TypeOK, NEW s \in Slots, run[s] # Idle
    PROVE  /\ run[s] \in Run
           /\ run[s].wf \in Workflows
           /\ run[s].path \in Resolutions
           /\ run[s].todo \in Seq(Action)
BY DEF TypeOK, Run

LEMMA ToRecordType ==
    ASSUME TypeOK, NEW s \in Slots, run[s] # Idle, ToRecord(s)
    PROVE  run' \in [Slots -> Run \cup {Idle}]
<1> DEFINE record == [run[s] EXCEPT !.at = "record", !.path = NoPath, !.todo = <<>>]
<1>1. run[s] \in Run
    BY RunFields
<1>2. record \in Run
    <2>1. <<>> \in Seq(Action)
        OBVIOUS
    <2>2. NoPath \in Resolutions
        BY DEF Resolutions
    <2> QED BY <1>1, <2>1, <2>2 DEF Run
<1>3. run' = [run EXCEPT ![s] = record]
    BY DEF ToRecord, TypeOK
<1> QED BY <1>2, <1>3 DEF TypeOK

LEMMA GoType ==
    ASSUME TypeOK, NEW s \in Slots, run[s] # Idle, run[s].todo # <<>>,
           NEW p \in Resolutions, Go(s, p)
    PROVE  run' \in [Slots -> Run \cup {Idle}]
<1> DEFINE next == [run[s] EXCEPT !.path = p, !.todo = Tail(@)]
<1>1. run[s] \in Run /\ run[s].todo \in Seq(Action)
    BY RunFields
<1>2. Tail(run[s].todo) \in Seq(Action)
    BY <1>1
<1>3. next \in Run
    BY <1>1, <1>2 DEF Run
<1>4. CASE Len(run[s].todo) = 1
    BY <1>4, ToRecordType DEF Go
<1>5. CASE Len(run[s].todo) # 1
    <2>1. run' = [run EXCEPT ![s] = next]
        BY <1>5 DEF Go, TypeOK
    <2> QED BY <1>3, <2>1 DEF TypeOK
<1> QED BY <1>4, <1>5

\* Where a move, a copy or a rename puts its file is a path.
LEMMA DestinationType ==
    ASSUME TypeOK, NEW s \in Slots, HasTarget(s), Doing(s, {"move", "rename", "copy"})
    PROVE  Destination(s) \in Paths /\ Target(s) \in Items
<1> DEFINE a == Head(run[s].todo)
<1>1. run[s].todo \in Seq(Action) /\ run[s].todo # <<>>
    BY RunFields DEF Doing, At
<1>2. a \in Action
    BY <1>1
<1>3. a.do = "rename" => a.to \in Names
    BY <1>2 DEF Action
<1>4. a.do \in {"move", "copy"} => a.to \in Dirs
    BY <1>2 DEF Action
<1>5. run[s].path \in Paths
    BY DEF HasTarget
<1>6. run[s].path[1] \in Dirs /\ run[s].path[2] \in Names
    BY <1>5 DEF Paths
<1>7. a.do \in {"move", "copy", "rename"}
    BY DEF Doing
<1>8. Destination(s) \in Paths
    BY <1>3, <1>4, <1>6, <1>7 DEF Destination, Paths
<1>9. Target(s) \in Items
    BY DEF HasTarget, Occupied, Target
<1> QED BY <1>8, <1>9

LEMMA StepType ==
    ASSUME TypeOK, NEW s \in Slots, Step(s)
    PROVE  TypeOK'
<1>1. CASE Load(s)
    <2> DEFINE acts == Def[run[s].wf].acts
               begun == [run[s] EXCEPT !.at = IF acts = <<>> THEN "record" ELSE "act",
                                       !.todo = acts]
    <2>1. run[s] \in Run /\ run[s].wf \in Workflows
        BY <1>1, RunFields DEF Load, At
    <2>2. acts \in Seq(Action)
        BY <2>1, DefAssumption
    <2>3. begun \in Run
        BY <2>1, <2>2 DEF Run
    <2>4. run' = [run EXCEPT ![s] = begun] \/ run' = [run EXCEPT ![s] = Idle]
        BY <1>1 DEF Load, End, TypeOK
    <2>5. run' \in [Slots -> Run \cup {Idle}]
        BY <2>3, <2>4 DEF TypeOK
    <2> QED BY <1>1, <2>5 DEF Load, TypeOK
<1>2. CASE MoveOrRename(s)
    <2>1. Destination(s) \in Paths /\ Target(s) \in Items
        BY <1>2, DestinationType DEF MoveOrRename, Doing
    <2>2. Event("move", Target(s)) \in Events
        BY <2>1, ItemEvents DEF Types
    <2>3. run' \in [Slots -> Run \cup {Idle}]
        BY <1>2, <2>1, GoType DEF MoveOrRename, Doing, At, Resolutions
    <2>4. where' \in [Items -> Paths \cup {Gone}]
        BY <1>2, <2>1 DEF MoveOrRename, Put, TypeOK
    <2> QED BY <1>2, <2>2, <2>3, <2>4, EmitType DEF MoveOrRename, TypeOK
<1>3. CASE Copy(s)
    <2>1. Destination(s) \in Paths
        BY <1>3, DestinationType DEF Copy, Doing
    <2>2. PICK i \in Free : Put(i, Destination(s)) /\ Emit(Event("upload", i))
        BY <1>3 DEF Copy
    <2>3. Event("upload", i) \in Events
        BY ItemEvents DEF Types, Free
    <2>4. run' \in [Slots -> Run \cup {Idle}]
        BY <1>3, GoType, RunFields DEF Copy, Doing, At
    <2>5. where' \in [Items -> Paths \cup {Gone}]
        BY <2>1, <2>2 DEF Put, TypeOK
    <2> QED BY <1>3, <2>2, <2>3, <2>4, <2>5, EmitType DEF Copy, TypeOK
<1>4. CASE Comment(s)
    <2>1. run' \in [Slots -> Run \cup {Idle}]
        BY <1>4, GoType, RunFields DEF Comment, Doing, At
    <2> QED BY <1>4, <2>1, BookEvent, EmitType DEF Comment, TypeOK
<1>5. CASE NodeFails(s)
    <2>1. run' \in [Slots -> Run \cup {Idle}]
        BY <1>5, ToRecordType DEF NodeFails, At
    <2> QED BY <1>5, <2>1 DEF NodeFails, TypeOK
<1>6. CASE Record(s)
    <2>1. run' \in [Slots -> Run \cup {Idle}]
        BY <1>6 DEF Record, End, TypeOK
    <2>2. /\ stream' \in [Events -> 0 .. MaxPending]
          /\ log' \in [Events -> 0 .. MaxPending]
        BY <1>6, BookEvent, EmitType DEF Record, TypeOK
    <2> QED BY <1>6, <2>1, <2>2 DEF Record, TypeOK
<1> QED BY <1>1, <1>2, <1>3, <1>4, <1>5, <1>6 DEF Step

LEMMA TypeStep == TypeOK /\ [Next]_vars => TypeOK'
<1> SUFFICES ASSUME TypeOK, [Next]_vars PROVE TypeOK'
    OBVIOUS
<1>1. CASE UNCHANGED vars
    BY <1>1 DEF vars, TypeOK
<1> QED BY <1>1, UserType, DeliverType, LoseType, StepType DEF Next

\* The state of files, queues and runs always has its types, in particular the
\* path a run goes on with after each of its actions (executor.go:203-296).
THEOREM TypeCorrect == Spec => []TypeOK
BY InitType, TypeStep, PTL DEF Spec

-----------------------------------------------------------------------------
\* With the path of a bookkeeping file looked up, neither event path matches it.
LEMMA BookMatchesNothing ==
    ASSUME "path" \notin Faults, NEW p \in ItemPath(Book), NEW type
    PROVE  LiveMatches(type, p) = {} /\ LogMatches(type, p) = {}
<1>1. p = BookPath
    BY NullAssumption DEF ItemPath, PathOf
<1> QED BY <1>1 DEF LiveMatches, LogMatches, IsInternalPath

\* Runs start in two places only.
LEMMA OnlyDispatchStarts ==
    ASSUME User \/ (\E e \in Events : Lose(e)) \/ (\E s \in Slots : Step(s))
           \/ UNCHANGED vars
    PROVE  UNCHANGED started
BY DEF User, Upload, UserMove, Share, Delete, UserActs, Toggle, Sync, Lose, Step,
       Load, MoveOrRename, Copy, Comment, NodeFails, Record, vars

\* "never match them" (manager.go:360-363), for every workflow and every chain
\* of runs and events: without failing path lookups no run is ever started for
\* a file the backend itself wrote.
THEOREM NoSelfTriggerAlways == "path" \notin Faults /\ Spec => []NoSelfTrigger
<1> SUFFICES ASSUME "path" \notin Faults PROVE Spec => []NoSelfTrigger
    OBVIOUS
<1>1. Init => NoSelfTrigger
    BY DEF Init, NoSelfTrigger
<1>2. NoSelfTrigger /\ [Next]_vars => NoSelfTrigger'
    <2> SUFFICES ASSUME NoSelfTrigger, [Next]_vars PROVE NoSelfTrigger'
        OBVIOUS
    <2>1. ASSUME NEW e \in Events, Deliver(e) \/ Dispatch(e) PROVE NoSelfTrigger'
        <3>1. PICK p \in ItemPath(e.item) :
                  \E ws \in {LiveMatches(e.type, p), LogMatches(e.type, p)} :
                      started' = started \cup (ws \X {e.item})
            BY <2>1 DEF Deliver, Dispatch, Start
        <3>2. e.item = Book => LiveMatches(e.type, p) = {} /\ LogMatches(e.type, p) = {}
            BY <3>1, BookMatchesNothing
        <3> QED BY <3>1, <3>2 DEF NoSelfTrigger
    <2> QED BY <2>1, OnlyDispatchStarts DEF Next, NoSelfTrigger
<1> QED BY <1>1, <1>2, PTL DEF Spec

\* The workflows that a failed path lookup lets the backend's own files trigger:
\* their filters let through an upload of which not even the path is known.
SelfTriggerUnfiltered ==
    \A w \in Workflows :
        <<w, Book>> \in started => Def[w].on = "upload" /\ NoPath \in Def[w].admits

\* A bookkeeping file is told of by uploads, and matched without its path only.
LEMMA BookMatchesBlindly ==
    ASSUME NEW e \in Events, e.item = Book, NEW p \in ItemPath(Book)
    PROVE  /\ LogMatches(e.type, p) = {}
           /\ \A w \in LiveMatches(e.type, p) :
                  Def[w].on = "upload" /\ NoPath \in Def[w].admits
<1>1. e.type = "upload"
    BY NullAssumption DEF Events
<1>2. p \in {BookPath, NoPath}
    BY NullAssumption DEF ItemPath, PathOf
<1> QED BY <1>1, <1>2 DEF LiveMatches, LogMatches, IsInternalPath, Matches

\* manager.go:351-363 and reconciler.go:304-330: whichever calls fail, a workflow
\* is triggered by the backend's own files only if its trigger is on uploads and
\* unfiltered, and by the live path only.  A filter on paths is always enough.
THEOREM SelfTriggerUnfilteredAlways == Spec => []SelfTriggerUnfiltered
<1>1. Init => SelfTriggerUnfiltered
    BY DEF Init, SelfTriggerUnfiltered
<1>2. SelfTriggerUnfiltered /\ [Next]_vars => SelfTriggerUnfiltered'
    <2> SUFFICES ASSUME SelfTriggerUnfiltered, [Next]_vars
                 PROVE  SelfTriggerUnfiltered'
        OBVIOUS
    <2>1. ASSUME NEW e \in Events, Deliver(e) \/ Dispatch(e)
          PROVE  SelfTriggerUnfiltered'
        <3>1. PICK p \in ItemPath(e.item) :
                  \E ws \in {LiveMatches(e.type, p), LogMatches(e.type, p)} :
                      started' = started \cup (ws \X {e.item})
            BY <2>1 DEF Deliver, Dispatch, Start
        <3>2. e.item = Book => LogMatches(e.type, p) = {} /\
                  \A w \in LiveMatches(e.type, p) :
                      Def[w].on = "upload" /\ NoPath \in Def[w].admits
            BY <3>1, BookMatchesBlindly
        <3> QED BY <3>1, <3>2 DEF SelfTriggerUnfiltered
    <2> QED BY <2>1, OnlyDispatchStarts DEF Next, SelfTriggerUnfiltered
<1> QED BY <1>1, <1>2, PTL DEF Spec
-----------------------------------------------------------------------------
Kept(i) == where[i] # Gone /\ where'[i] = Gone => i \in deleted'

\* A file put where none is displaces none.
LEMMA PutKeeps ==
    ASSUME NEW i \in Items, NEW p \in Paths, ~Occupied(p), Put(i, p)
    PROVE  \A j \in Items : Kept(j)
<1>1. p # Gone
    BY NullAssumption
<1> QED BY <1>1 DEF Put, Occupied, Kept

LEMMA UserKeeps ==
    ASSUME TypeOK, User
    PROVE  \A j \in Items : Kept(j)
<1>1. ASSUME NEW i \in Items, NEW p \in UserPaths, Upload(i, p) \/ UserMove(i, p)
      PROVE  \A j \in Items : Kept(j)
    <2>1. p \in Paths /\ ~Occupied(p) /\ Put(i, p)
        BY <1>1, BoundAssumption DEF Upload, UserMove
    <2> QED BY <2>1, PutKeeps
<1>2. ASSUME NEW i \in Items, Share(i) PROVE \A j \in Items : Kept(j)
    BY <1>2 DEF Share, Kept
<1>3. ASSUME NEW i \in Items, Delete(i) PROVE \A j \in Items : Kept(j)
    BY <1>3 DEF Delete, Kept, TypeOK
<1>4. ASSUME NEW w \in Workflows, Toggle(w) \/ Sync(w)
      PROVE  \A j \in Items : Kept(j)
    BY <1>4 DEF Toggle, Sync, Kept
<1> QED BY <1>1, <1>2, <1>3, <1>4 DEF User

LEMMA StepKeeps ==
    ASSUME TypeOK, NEW s \in Slots, Step(s)
    PROVE  \A j \in Items : Kept(j)
<1>1. CASE MoveOrRename(s)
    <2>1. Destination(s) \in Paths /\ Target(s) \in Items
        BY <1>1, DestinationType DEF MoveOrRename, Doing
    <2>2. ~Occupied(Destination(s)) /\ Put(Target(s), Destination(s))
        BY <1>1 DEF MoveOrRename, Refused
    <2> QED BY <2>1, <2>2, PutKeeps
<1>2. CASE Copy(s)
    <2>1. Destination(s) \in Paths
        BY <1>2, DestinationType DEF Copy, Doing
    <2>2. PICK i \in Items : Put(i, Destination(s))
        BY <1>2 DEF Copy, Free
    <2>3. ~Occupied(Destination(s))
        BY <1>2 DEF Copy, Refused
    <2> QED BY <2>1, <2>2, <2>3, PutKeeps
<1>3. CASE Load(s) \/ Comment(s) \/ NodeFails(s) \/ Record(s)
    BY <1>3 DEF Load, Comment, NodeFails, Record, Kept
<1> QED BY <1>1, <1>2, <1>3 DEF Step

\* No move, copy or rename of any run ever takes a file's place
\* (webdavfile.go:101), whatever the workflows do and however their runs and the
\* user interleave: a file is gone only where the user deleted it.
THEOREM NoFileLostAlways == Spec => NoFileLost
<1>1. TypeOK /\ [Next]_vars => [\A i \in Items : Kept(i)]_vars
    <2> SUFFICES ASSUME TypeOK, Next PROVE \A i \in Items : Kept(i)
        OBVIOUS
    <2>1. ASSUME NEW e \in Events, Deliver(e) \/ Lose(e) \/ Dispatch(e)
          PROVE  \A i \in Items : Kept(i)
        BY <2>1 DEF Deliver, Lose, Dispatch, Kept
    <2> QED BY <2>1, UserKeeps, StepKeeps DEF Next
<1>2. (\A i \in Items : Kept(i)) <=>
          (\A i \in Items : where[i] # Gone /\ where'[i] = Gone => i \in deleted')
    BY DEF Kept
<1> QED BY <1>1, <1>2, TypeCorrect, PTL DEF Spec, NoFileLost
=============================================================================
