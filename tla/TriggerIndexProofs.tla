------------------------- MODULE TriggerIndexProofs -------------------------
(***************************************************************************)
(* Proofs about TriggerIndex for every set of users, workflows, triggers   *)
(* and requests, whatever fails and wherever the process dies: the index   *)
(* never runs ahead of the store, the SSE manager learns of every event    *)
(* row, and one undisturbed request leaves the row its definition calls    *)
(* for.                                                                    *)
(***************************************************************************)
EXTENDS TriggerIndex, TLAPS

Busy(r) == req[r].at # "none"

\* A request in flight is about a workflow that some user owns.
Addressed ==
    \A r \in Requests :
        IF Busy(r) THEN req[r].wf \in Workflows /\ owner[req[r].wf] # None
        ELSE req[r].wf = None

\* What is about to be indexed was stored, and is worth indexing.
Saved ==
    \A r \in Requests :
        /\ req[r].at \in {"sync", "upsert"} => req[r].def \in stored[req[r].wf]
        /\ req[r].at \in {"upsert", "kick"} => Indexable(req[r].def)

\* A request that is alone has its workflow to itself, so file and row are as it
\* left them.
Alone ==
    \A r \in Requests : Busy(r) /\ req[r].alone =>
        /\ \A q \in Requests : req[q].wf = req[r].wf => q = r
        /\ req[r].at \in {"sync", "upsert", "kick"} => file[req[r].wf] = req[r].def
        /\ req[r].at = "unindex" => file[req[r].wf] = None
        /\ req[r].at = "kick" =>
               index[req[r].wf] =
                   [user |-> owner[req[r].wf], trigger |-> req[r].def.trigger]

\* A workflow in synced is at rest.
AtRest == \A w \in synced : \A q \in Requests : req[q].wf # w

IInv == TypeOK /\ Addressed /\ Saved /\ IndexFollowsStore /\ EventUsersWatched
            /\ Alone /\ AtRest /\ LoneRequestSyncs

LEMMA InitInv == Init => IInv
<1> SUFFICES ASSUME Init PROVE IInv
    OBVIOUS
<1>1. Blank \in Definition
    BY TriggerAssumption DEF Blank, Definition
<1>2. NoPatch \in Patch
    BY DEF NoPatch, Patch
<1>3. TypeOK
    BY <1>1, <1>2 DEF Init, TypeOK, Free
<1> QED
    BY <1>3 DEF Init, IInv, Addressed, Busy, Free, Saved, IndexFollowsStore,
        EventUsersWatched, EventUsers, Alone, AtRest, LoneRequestSyncs

-----------------------------------------------------------------------------
(* Types. *)

LEMMA BlankType == Blank \in Definition /\ NoPatch \in Patch
BY TriggerAssumption DEF Blank, Definition, NoPatch, Patch

\* A definition merged with a request's body is a definition.
LEMMA MergeType ==
    ASSUME NEW def \in Definition, NEW patch \in Patch
    PROVE  Merge(def, patch) \in Definition
BY DEF Merge, Definition, Patch

RequestType ==
    [at : {"none", "get", "put", "delete", "unindex", "sync", "upsert", "kick"},
     wf : Workflows \cup {None}, def : Definition, patch : Patch, alone : BOOLEAN]

\* A request that starts, and those it finds on the same workflow.
LEMMA BeginType ==
    ASSUME TypeOK, NEW r \in Requests, NEW w \in Workflows,
           NEW stage \in {"get", "put", "delete"}, NEW patch \in Patch,
           NEW d \in Definition, Begin(r, w, stage, patch, d)
    PROVE  req' \in [Requests -> RequestType] /\ synced' \subseteq Workflows
<1> DEFINE own == [at |-> stage, wf |-> w, def |-> d, patch |-> patch,
                   alone |-> InFlight(w) = {}]
           other(q) == [req[q] EXCEPT !.alone = FALSE]
<1>1. own \in RequestType
    BY DEF RequestType
<1>2. ASSUME NEW q \in Requests PROVE req[q] \in RequestType /\ other(q) \in RequestType
    BY DEF TypeOK, RequestType
<1>3. req' = [q \in Requests |->
                IF q = r THEN own ELSE IF req[q].wf = w THEN other(q) ELSE req[q]]
    BY DEF Begin
<1> HIDE DEF own, other
<1>4. req' \in [Requests -> RequestType]
    BY <1>1, <1>2, <1>3
<1> QED BY <1>4 DEF Begin, TypeOK

LEMMA ArriveType ==
    ASSUME TypeOK, NEW r \in Requests, Arrive(r)
    PROVE  TypeOK'
<1> SUFFICES /\ req' \in [Requests -> RequestType]
             /\ synced' \subseteq Workflows
             /\ owner' \in [Workflows -> Users \cup {None}]
             /\ UNCHANGED <<file, index, managerVars, stored>>
    BY DEF TypeOK, RequestType, managerVars
<1>1. ASSUME NEW w \in Workflows, NEW u \in Users, NEW p \in Patch, Create(r, u, w, p)
      PROVE  /\ req' \in [Requests -> RequestType]
             /\ synced' \subseteq Workflows
             /\ owner' \in [Workflows -> Users \cup {None}]
             /\ UNCHANGED <<file, index, managerVars, stored>>
    <2>1. Merge(Blank, p) \in Definition
        BY BlankType, MergeType
    <2>2. Begin(r, w, "put", NoPatch, Merge(Blank, p))
        BY <1>1 DEF Create
    <2>3. req' \in [Requests -> RequestType] /\ synced' \subseteq Workflows
        BY <2>1, <2>2, BlankType, BeginType
    <2> QED BY <1>1, <2>3 DEF Create, TypeOK
<1>2. ASSUME NEW w \in Workflows, NEW p \in Patch, PatchBegin(r, w, p)
      PROVE  /\ req' \in [Requests -> RequestType]
             /\ synced' \subseteq Workflows
             /\ UNCHANGED <<dataVars, managerVars, stored>>
    <2>1. req' \in [Requests -> RequestType] /\ synced' \subseteq Workflows
        BY <1>2, BlankType, BeginType DEF PatchBegin
    <2> QED BY <1>2, <2>1 DEF PatchBegin
<1>3. ASSUME NEW w \in Workflows, DeleteBegin(r, w)
      PROVE  /\ req' \in [Requests -> RequestType]
             /\ synced' \subseteq Workflows
             /\ UNCHANGED <<dataVars, managerVars, stored>>
    <2>1. req' \in [Requests -> RequestType] /\ synced' \subseteq Workflows
        BY <1>3, BlankType, BeginType DEF DeleteBegin
    <2> QED BY <1>3, <2>1 DEF DeleteBegin
<1> QED BY <1>1, <1>2, <1>3 DEF Arrive, dataVars, TypeOK

\* What each handler step leaves in its own request.
LEMMA FreeType == TypeOK => \A r \in Requests : [req EXCEPT ![r] = Free] \in
         [Requests -> [at : {"none", "get", "put", "delete", "unindex", "sync",
                             "upsert", "kick"},
                       wf : Workflows \cup {None}, def : Definition, patch : Patch,
                       alone : BOOLEAN]]
BY BlankType DEF TypeOK, Free

LEMMA HandleType ==
    ASSUME TypeOK, Addressed, NEW r \in Requests, Handle(r)
    PROVE  TypeOK'
<1> USE DEF TypeOK
<1>0. Busy(r) => req[r].wf \in Workflows /\ owner[req[r].wf] \in Users
    BY DEF Addressed
<1>1. CASE PatchGet(r)
    <2>0. file[req[r].wf] \in Definition /\ req[r].patch \in Patch
        BY <1>0, <1>1 DEF PatchGet, Busy
    <2>1. Merge(file[req[r].wf], req[r].patch) \in Definition
        BY <2>0, MergeType
    <2> DEFINE own == [req[r] EXCEPT !.at = "put", !.patch = NoPatch,
                                     !.def = Merge(file[req[r].wf], req[r].patch)]
    <2>2. own \in RequestType
        BY <2>1, BlankType DEF RequestType
    <2>3. req' = [req EXCEPT ![r] = own]
        BY <1>1 DEF PatchGet
    <2>4. req' \in [Requests -> RequestType]
        <3> HIDE DEF own
        <3> QED BY <2>2, <2>3 DEF RequestType
    <2> QED BY <1>1, <2>4 DEF PatchGet, RequestType, dataVars, managerVars
<1>2. CASE PatchGetFails(r)
    BY <1>2, FreeType DEF PatchGetFails, GiveUp, dataVars, managerVars
<1>3. CASE Put(r)
    BY <1>0, <1>3 DEF Put, Write, Goto, Busy, managerVars
<1>4. CASE PutFails(r)
    BY <1>0, <1>4, FreeType DEF PutFails, Write, GiveUp, Busy, managerVars
<1>5. CASE DeleteFile(r)
    BY <1>0, <1>5 DEF DeleteFile, Goto, Busy, managerVars
<1>6. CASE DeleteFileFails(r)
    BY <1>0, <1>6, FreeType DEF DeleteFileFails, GiveUp, Busy, managerVars
<1>7. CASE Unindex(r)
    BY <1>0, <1>7, FreeType
    DEF Unindex, DeleteTriggerIndexEntry, Done, GiveUp, Busy, managerVars
<1>8. CASE Me(r)
    BY <1>8, FreeType DEF Me, Goto, GiveUp, dataVars, managerVars
<1>9. CASE Upsert(r)
    <2>1. [user |-> owner[req[r].wf], trigger |-> req[r].def.trigger] \in Row
        BY <1>0, <1>9 DEF Upsert, Busy, Row, Definition
    <2> QED BY <1>0, <1>9, <2>1, FreeType DEF Upsert, Done, Goto, Busy, managerVars
<1>10. CASE UpsertFails(r)
    BY <1>10, FreeType DEF UpsertFails, GiveUp, dataVars, managerVars
<1>11. CASE Kick(r)
    BY <1>0, <1>11, FreeType DEF Kick, Done, Busy, dataVars
<1> QED BY <1>1, <1>2, <1>3, <1>4, <1>5, <1>6, <1>7, <1>8, <1>9, <1>10, <1>11
        DEF Handle

LEMMA OtherType ==
    ASSUME TypeOK, Look \/ Restart \/ UNCHANGED vars
    PROVE  TypeOK'
<1> USE DEF TypeOK, dataVars
<1>1. CASE Look
    <2>1. EventUsers \subseteq Users
        BY DEF EventUsers, Row
    <2> QED BY <1>1, <2>1 DEF Look
<1>2. CASE Restart
    BY <1>2, BlankType DEF Restart, Free
<1>3. CASE UNCHANGED vars
    BY <1>3 DEF vars
<1> QED BY <1>1, <1>2, <1>3

-----------------------------------------------------------------------------
(* A request that starts. *)

\* What starting a request on w does: it is alone only if no other is on w,
\* and those that are no longer are.
Begun(r, w) ==
    /\ ~Busy(r)
    /\ req'[r].at \in {"get", "put", "delete"}
    /\ req'[r].wf = w
    /\ req'[r].alone => \A q \in Requests : req[q].wf # w
    /\ \A q \in Requests \ {r} :
        /\ req'[q].at = req[q].at
        /\ req'[q].wf = req[q].wf
        /\ req'[q].def = req[q].def
        /\ req'[q].alone => req[q].alone /\ req[q].wf # w
    /\ synced' = synced \ {w}

LEMMA BeginEffect ==
    ASSUME TypeOK, NEW r \in Requests, NEW w \in Workflows,
           NEW stage \in {"get", "put", "delete"}, NEW patch, NEW d,
           Begin(r, w, stage, patch, d)
    PROVE  Begun(r, w)
<1> DEFINE own == [at |-> stage, wf |-> w, def |-> d, patch |-> patch,
                   alone |-> InFlight(w) = {}]
           other(q) == [req[q] EXCEPT !.alone = FALSE]
<1>1. req' = [q \in Requests |->
                IF q = r THEN own ELSE IF req[q].wf = w THEN other(q) ELSE req[q]]
    BY DEF Begin
<1>2. own.at = stage /\ own.wf = w /\ (own.alone => \A q \in Requests : req[q].wf # w)
    BY DEF InFlight
<1>3. ASSUME NEW q \in Requests
      PROVE  /\ other(q).at = req[q].at
             /\ other(q).wf = req[q].wf
             /\ other(q).def = req[q].def
             /\ ~other(q).alone
    BY DEF TypeOK
<1>4. ~Busy(r)
    BY DEF Begin, Busy, Free
<1> HIDE DEF own, other
<1>5. \A q \in Requests \ {r} :
        /\ req'[q].at = req[q].at
        /\ req'[q].wf = req[q].wf
        /\ req'[q].def = req[q].def
        /\ req'[q].alone => req[q].alone /\ req[q].wf # w
    BY <1>1, <1>3
<1>6. req'[r] = own
    BY <1>1
<1> QED BY <1>2, <1>4, <1>5, <1>6 DEF Begun, Begin

LEMMA ArriveEffect ==
    ASSUME TypeOK, NEW r \in Requests, Arrive(r)
    PROVE  \E w \in Workflows :
               /\ Begun(r, w)
               /\ owner'[w] # None
               /\ \A x \in Workflows : owner[x] # None => owner'[x] = owner[x]
               /\ \A x \in Workflows \ {w} : owner'[x] = owner[x]
               /\ UNCHANGED <<file, index, kick, watched, behind, stored>>
<1>1. ASSUME NEW w \in Workflows, NEW u \in Users, NEW p \in Patch, Create(r, u, w, p)
      PROVE  /\ Begun(r, w) /\ owner[w] = None /\ owner' = [owner EXCEPT ![w] = u]
             /\ UNCHANGED <<file, index, kick, watched, behind, stored>>
    BY <1>1, BeginEffect DEF Create, managerVars
<1>2. ASSUME NEW w \in Workflows, NEW p \in Patch, PatchBegin(r, w, p)
      PROVE  /\ Begun(r, w) /\ owner[w] # None
             /\ UNCHANGED <<owner, file, index, kick, watched, behind, stored>>
    BY <1>2, BeginEffect DEF PatchBegin, dataVars, managerVars
<1>3. ASSUME NEW w \in Workflows, DeleteBegin(r, w)
      PROVE  /\ Begun(r, w) /\ owner[w] # None
             /\ UNCHANGED <<owner, file, index, kick, watched, behind, stored>>
    BY <1>3, BeginEffect DEF DeleteBegin, dataVars, managerVars
<1> QED BY <1>1, <1>2, <1>3, NoneAssumption DEF Arrive, TypeOK

LEMMA ArriveStep ==
    ASSUME IInv, NEW r \in Requests, Arrive(r)
    PROVE  IInv'
<1>1. TypeOK'
    BY ArriveType DEF IInv
<1>2. PICK w \in Workflows :
               /\ Begun(r, w)
               /\ owner'[w] # None
               /\ \A x \in Workflows : owner[x] # None => owner'[x] = owner[x]
               /\ \A x \in Workflows \ {w} : owner'[x] = owner[x]
               /\ UNCHANGED <<file, index, kick, watched, behind, stored>>
    BY ArriveEffect DEF IInv
<1>3. req[r].wf = None /\ w # None
    BY <1>2, NoneAssumption DEF IInv, Addressed, Begun
<1>4. Addressed'
    BY <1>2 DEF IInv, Addressed, Begun, Busy
<1>5. Saved'
    BY <1>2 DEF IInv, Saved, Begun, Indexable
<1>6. IndexFollowsStore'
    BY <1>2 DEF IInv, IndexFollowsStore
<1>7. EventUsersWatched'
    <2>1. EventUsers' = EventUsers
        BY <1>2 DEF EventUsers
    <2>2. ASSUME NEW q \in Requests, req[q].at = "kick"
          PROVE  req'[q].at = "kick" /\ owner'[req'[q].wf] = owner[req[q].wf]
        BY <1>2, <2>2 DEF IInv, Addressed, Busy, Begun
    <2> QED BY <1>2, <2>1, <2>2 DEF IInv, EventUsersWatched
<1>8. Alone'
    <2> SUFFICES ASSUME NEW s \in Requests, Busy(s)', req'[s].alone
                 PROVE  Alone!(s)'
        BY DEF Alone
    <2>1. CASE s = r
        BY <1>2, <2>1 DEF Begun
    <2>2. CASE s # r
        BY <1>2, <2>2 DEF IInv, Alone, Addressed, Begun, Busy
    <2> QED BY <2>1, <2>2
<1>9. AtRest'
    BY <1>2 DEF IInv, AtRest, Begun
<1>10. LoneRequestSyncs'
    BY <1>2 DEF IInv, LoneRequestSyncs, Wanted, Begun, TypeOK
<1> QED BY <1>1, <1>4, <1>5, <1>6, <1>7, <1>8, <1>9, <1>10 DEF IInv

-----------------------------------------------------------------------------
(* A step of a request in flight. *)

\* What every such step has in common: it is about its own request and its own
\* workflow only, and only a request that was alone vouches for its workflow.
Own(r) ==
    /\ Busy(r)
    /\ owner' = owner
    /\ \A q \in Requests \ {r} : req'[q] = req[q]
    /\ \/ req'[r] = Free
       \/ Busy(r)' /\ req'[r].wf = req[r].wf /\ req'[r].alone = req[r].alone
    /\ \A w \in Workflows \ {req[r].wf} : file'[w] = file[w] /\ index'[w] = index[w]
    /\ \A w \in Workflows : stored[w] \subseteq stored'[w]
    /\ \/ synced' = synced
       \/ req'[r] = Free /\ req[r].alone /\ synced' = synced \cup {req[r].wf}

\* What is particular to each: where it leaves the request and its row.
Leaves(r) ==
    LET w == req[r].wf IN
    /\ req'[r].at \in {"sync", "upsert"} => req'[r].def \in stored'[w]
    /\ req'[r].at \in {"upsert", "kick"} => Indexable(req'[r].def)
    /\ Busy(r)' /\ req[r].alone =>
        /\ req'[r].at \in {"sync", "upsert", "kick"} => file'[w] = req'[r].def
        /\ req'[r].at = "unindex" => file'[w] = None
        /\ req'[r].at = "kick" =>
               index'[w] = [user |-> owner[w], trigger |-> req'[r].def.trigger]
    /\ index'[w] # None /\ index'[w] # index[w] =>
           /\ [enabled |-> TRUE, trigger |-> index'[w].trigger] \in stored'[w]
           /\ index'[w].user = owner[w]
           /\ KindOf[index'[w].trigger] = "event" => req'[r].at = "kick"
    /\ req[r].at = "kick" => kick'
    /\ watched' = watched /\ behind' = behind /\ (kick => kick')
    /\ synced' # synced => \A x \in Workflows : x = w => index'[x] = Wanted(x)'

\* An enabled definition worth indexing calls for its row.
LEMMA IndexableWanted ==
    ASSUME TypeOK, NEW w \in Workflows, file[w] \in Definition
    PROVE  Wanted(w) = IF Indexable(file[w])
                       THEN [user |-> owner[w], trigger |-> file[w].trigger]
                       ELSE None
<1>1. KindOf[file[w].trigger] \in Kinds
    BY TriggerAssumption DEF Definition
<1>2. file[w] # None
    BY NoneAssumption
<1>3. KindOf[file[w].trigger] # "manual" <=> KindOf[file[w].trigger] \in {"schedule", "event"}
    BY <1>1 DEF Kinds
<1> QED BY <1>2, <1>3 DEF Wanted, Indexable

LEMMA IndexableDefinition ==
    ASSUME NEW d \in Definition, Indexable(d)
    PROVE  d = [enabled |-> TRUE, trigger |-> d.trigger]
BY DEF Definition, Indexable

LEMMA FreeFields == Free.at = "none" /\ Free.wf = None
BY DEF Free

\* A handler that returns after a call failed.
LEMMA GiveUpOwn ==
    ASSUME IInv, NEW r \in Requests, Busy(r), GiveUp(r), UNCHANGED <<owner, index>>,
           \A w \in Workflows \ {req[r].wf} : file'[w] = file[w],
           \A w \in Workflows : stored[w] \subseteq stored'[w],
           req[r].at # "kick", UNCHANGED managerVars
    PROVE  Own(r) /\ Leaves(r)
<1>1. req'[r] = Free /\ \A q \in Requests \ {r} : req'[q] = req[q]
    BY DEF GiveUp, IInv, TypeOK
<1> QED BY <1>1, FreeFields DEF GiveUp, Own, Leaves, Busy, managerVars

LEMMA FileSteps ==
    ASSUME IInv, NEW r \in Requests,
           PatchGet(r) \/ PatchGetFails(r) \/ Put(r) \/ PutFails(r)
               \/ DeleteFile(r) \/ DeleteFileFails(r)
    PROVE  Own(r) /\ Leaves(r)
<1> USE DEF IInv, TypeOK
<1>0. Busy(r) /\ req[r].wf \in Workflows /\ req[r].at # "kick"
    BY DEF PatchGet, PatchGetFails, Put, PutFails, DeleteFile, DeleteFileFails,
           Busy, Addressed
<1>1. CASE PatchGet(r)
    <2>1. /\ req'[r].at = "put" /\ req'[r].wf = req[r].wf
          /\ req'[r].alone = req[r].alone
          /\ \A q \in Requests \ {r} : req'[q] = req[q]
        BY <1>1 DEF PatchGet
    <2> QED BY <1>0, <1>1, <2>1 DEF PatchGet, Own, Leaves, Busy, dataVars, managerVars
<1>2. CASE PatchGetFails(r)
    BY <1>0, <1>2, GiveUpOwn DEF PatchGetFails, dataVars
<1>3. CASE Put(r)
    <2>1. /\ req'[r].at = "sync" /\ req'[r].wf = req[r].wf
          /\ req'[r].def = req[r].def /\ req'[r].alone = req[r].alone
          /\ \A q \in Requests \ {r} : req'[q] = req[q]
        BY <1>3 DEF Put, Goto
    <2>2. file'[req[r].wf] = req[r].def /\ req[r].def \in stored'[req[r].wf]
        BY <1>0, <1>3 DEF Put, Write
    <2>3. /\ \A w \in Workflows \ {req[r].wf} : file'[w] = file[w]
          /\ \A w \in Workflows : stored[w] \subseteq stored'[w]
        BY <1>3 DEF Put, Write
    <2> QED BY <1>0, <1>3, <2>1, <2>2, <2>3 DEF Put, Own, Leaves, Busy, managerVars
<1>4. CASE PutFails(r)
    <2>1. /\ \A w \in Workflows \ {req[r].wf} : file'[w] = file[w]
          /\ \A w \in Workflows : stored[w] \subseteq stored'[w]
        BY <1>4 DEF PutFails, Write
    <2> QED BY <1>0, <1>4, <2>1, GiveUpOwn DEF PutFails
<1>5. CASE DeleteFile(r)
    <2>1. /\ req'[r].at = "unindex" /\ req'[r].wf = req[r].wf
          /\ req'[r].alone = req[r].alone
          /\ \A q \in Requests \ {r} : req'[q] = req[q]
        BY <1>5 DEF DeleteFile, Goto
    <2>2. /\ file'[req[r].wf] = None
          /\ \A w \in Workflows \ {req[r].wf} : file'[w] = file[w]
        BY <1>0, <1>5 DEF DeleteFile
    <2> QED BY <1>0, <1>5, <2>1, <2>2 DEF DeleteFile, Own, Leaves, Busy, managerVars
<1>6. CASE DeleteFileFails(r)
    <2>1. \A w \in Workflows \ {req[r].wf} : file'[w] = file[w]
        BY <1>6 DEF DeleteFileFails
    <2> QED BY <1>0, <1>6, <2>1, GiveUpOwn DEF DeleteFileFails
<1> QED BY <1>1, <1>2, <1>3, <1>4, <1>5, <1>6

LEMMA IndexSteps ==
    ASSUME IInv, NEW r \in Requests,
           Unindex(r) \/ Me(r) \/ Upsert(r) \/ UpsertFails(r) \/ Kick(r)
    PROVE  Own(r) /\ Leaves(r)
<1> USE DEF IInv, TypeOK
<1> DEFINE w == req[r].wf
           d == req[r].def
<1>0. Busy(r) /\ w \in Workflows /\ d \in Definition /\ owner[w] \in Users
    BY DEF Unindex, Me, Upsert, UpsertFails, Kick, Busy, Addressed
<1>6. ASSUME Done(r)
      PROVE  /\ req'[r] = Free
             /\ \A q \in Requests \ {r} : req'[q] = req[q]
             /\ synced' # synced => req[r].alone /\ synced' = synced \cup {w}
    <2>1. req'[r] = Free /\ \A q \in Requests \ {r} : req'[q] = req[q]
        BY <1>6 DEF Done
    <2>2. synced' # synced => req[r].alone /\ synced' = synced \cup {w}
        BY <1>6 DEF Done
    <2> QED BY <2>1, <2>2
<1>1. CASE Unindex(r)
    <2>1. CASE GiveUp(r) /\ UNCHANGED index
        BY <1>0, <1>1, <2>1, GiveUpOwn DEF Unindex
    <2>2. CASE DeleteTriggerIndexEntry(w) /\ Done(r)
        <3>1. index'[w] = None /\ \A x \in Workflows \ {w} : index'[x] = index[x]
            BY <1>0, <2>2 DEF DeleteTriggerIndexEntry
        <3>2. req[r].alone => Wanted(w) = None
            <4>1. CASE req[r].at = "unindex"
                BY <1>0, <4>1 DEF Alone, Wanted
            <4>2. CASE req[r].at = "sync" /\ ~Indexable(d)
                BY <1>0, <4>2, IndexableWanted DEF Alone
            <4> QED BY <1>1, <4>1, <4>2 DEF Unindex
        <3>3. \A x \in Workflows : Wanted(x)' = Wanted(x)
            BY <1>1 DEF Unindex, Wanted
        <3> QED BY <1>0, <1>1, <1>6, <2>2, <3>1, <3>2, <3>3, FreeFields
                DEF Unindex, Own, Leaves, Busy, managerVars
    <2> QED BY <1>1, <2>1, <2>2 DEF Unindex
<1>2. CASE Me(r)
    <2>1. CASE GiveUp(r)
        BY <1>0, <1>2, <2>1, GiveUpOwn DEF Me, dataVars
    <2>2. CASE Goto(r, "upsert") /\ UNCHANGED synced
        <3>1. /\ req'[r].at = "upsert" /\ req'[r].wf = w /\ req'[r].def = d
              /\ req'[r].alone = req[r].alone
              /\ \A q \in Requests \ {r} : req'[q] = req[q]
            BY <2>2 DEF Goto
        <3> QED BY <1>0, <1>2, <2>2, <3>1
                DEF Me, Own, Leaves, Busy, Alone, Saved, dataVars, managerVars
    <2> QED BY <1>2, <2>1, <2>2 DEF Me
<1>3. CASE Upsert(r)
    <2>1. /\ index'[w] = [user |-> owner[w], trigger |-> d.trigger]
          /\ \A x \in Workflows \ {w} : index'[x] = index[x]
        BY <1>0, <1>3 DEF Upsert
    <2>2. [enabled |-> TRUE, trigger |-> d.trigger] \in stored[w]
        BY <1>0, <1>3, IndexableDefinition DEF Upsert, Saved
    <2>3. CASE KindOf[d.trigger] = "event"
        <3>1. /\ req'[r].at = "kick" /\ req'[r].wf = w /\ req'[r].def = d
              /\ req'[r].alone = req[r].alone
              /\ \A q \in Requests \ {r} : req'[q] = req[q]
              /\ synced' = synced
            BY <1>3, <2>3 DEF Upsert, Goto
        <3> QED BY <1>0, <1>3, <2>1, <2>2, <3>1
                DEF Upsert, Own, Leaves, Busy, Alone, Saved, managerVars
    <2>4. CASE KindOf[d.trigger] # "event"
        <3>1. Done(r)
            BY <1>3, <2>4 DEF Upsert
        <3>2. req[r].alone => Wanted(w) = [user |-> owner[w], trigger |-> d.trigger]
            BY <1>0, <1>3, IndexableWanted DEF Upsert, Alone, Saved
        <3>3. \A x \in Workflows : Wanted(x)' = Wanted(x)
            BY <1>3 DEF Upsert, Wanted
        <3>4. /\ req[r].at = "upsert"
              /\ UNCHANGED <<owner, file, kick, watched, behind, stored>>
            BY <1>3 DEF Upsert, managerVars
        <3>5. Own(r)
            BY <1>0, <1>6, <2>1, <3>1, <3>4 DEF Own
        <3>6. Leaves(r)
            BY <1>0, <1>6, <2>1, <2>2, <2>4, <3>1, <3>2, <3>3, <3>4, FreeFields
            DEF Leaves, Busy
        <3> QED BY <3>5, <3>6
    <2> QED BY <2>3, <2>4
<1>4. CASE UpsertFails(r)
    BY <1>0, <1>4, GiveUpOwn DEF UpsertFails, dataVars
<1>5. CASE Kick(r)
    <2>1. ASSUME req[r].alone PROVE Wanted(w) = index[w]
        <3>1. /\ file[w] = d /\ Indexable(d)
              /\ index[w] = [user |-> owner[w], trigger |-> d.trigger]
            BY <1>0, <1>5, <2>1 DEF Kick, Alone, Saved
        <3>2. Wanted(w) = [user |-> owner[w], trigger |-> d.trigger]
            BY <1>0, <3>1, IndexableWanted
        <3> QED BY <3>1, <3>2
    <2>2. \A x \in Workflows : Wanted(x)' = Wanted(x)
        BY <1>5 DEF Kick, Wanted, dataVars
    <2> QED BY <1>0, <1>5, <1>6, <2>1, <2>2, FreeFields
            DEF Kick, Own, Leaves, Busy, dataVars
<1> QED BY <1>1, <1>2, <1>3, <1>4, <1>5

LEMMA HandleStep ==
    ASSUME IInv, NEW r \in Requests, Handle(r)
    PROVE  IInv'
<1>1. Own(r) /\ Leaves(r)
    BY FileSteps, IndexSteps DEF Handle
<1>2. TypeOK'
    BY HandleType DEF IInv
<1>3. req[r].wf \in Workflows /\ owner[req[r].wf] \in Users /\ owner[req[r].wf] # None
    BY <1>1 DEF IInv, Addressed, Own, TypeOK
<1>4. Addressed'
    BY <1>1, FreeFields DEF IInv, Addressed, Own, Busy
<1>5. Saved'
    <2> SUFFICES ASSUME NEW q \in Requests
                 PROVE  /\ req'[q].at \in {"sync", "upsert"} =>
                               req'[q].def \in stored'[req'[q].wf]
                        /\ req'[q].at \in {"upsert", "kick"} => Indexable(req'[q].def)
        BY DEF Saved, Indexable
    <2>1. CASE q = r
        BY <1>1, <2>1, FreeFields DEF Own, Leaves
    <2>2. CASE q # r
        BY <1>1, <2>2 DEF IInv, Own, Saved, Addressed, Busy
    <2> QED BY <2>1, <2>2
<1>6. IndexFollowsStore'
    BY <1>1, <1>3 DEF IInv, IndexFollowsStore, Own, Leaves
<1>7. EventUsersWatched'
    <2> SUFFICES ASSUME NEW w \in Workflows, index'[w] # None,
                        KindOf[index'[w].trigger] = "event"
                 PROVE  \/ index'[w].user \in watched' \/ kick' \/ behind'
                        \/ \E q \in Requests :
                               req'[q].at = "kick" /\ owner'[req'[q].wf] = index'[w].user
        BY DEF EventUsersWatched, EventUsers
    <2>1. CASE index'[w] = index[w]
        <3>1. index[w].user \in EventUsers
            BY <2>1 DEF EventUsers
        <3>2. CASE index[w].user \in watched \/ kick \/ behind
            BY <1>1, <2>1, <3>2 DEF Leaves
        <3>3. ASSUME NEW q \in Requests, req[q].at = "kick",
                     owner[req[q].wf] = index[w].user
              PROVE  \/ kick'
                     \/ req'[q].at = "kick" /\ owner'[req'[q].wf] = index'[w].user
            BY <1>1, <2>1, <3>3 DEF Own, Leaves
        <3> QED BY <2>1, <3>1, <3>2, <3>3 DEF IInv, EventUsersWatched
    <2>2. CASE index'[w] # index[w]
        <3>1. w = req[r].wf
            BY <1>1, <2>2 DEF Own
        <3>2. req'[r].at = "kick" /\ index'[w].user = owner[w]
            BY <1>1, <2>2, <3>1 DEF Leaves
        <3> QED BY <1>1, <3>1, <3>2, FreeFields DEF Own
    <2> QED BY <2>1, <2>2
<1>8. Alone'
    <2> SUFFICES ASSUME NEW s \in Requests, Busy(s)', req'[s].alone
                 PROVE  Alone!(s)'
        BY DEF Alone
    <2>1. CASE s = r
        <3>1. req'[r].wf = req[r].wf /\ req[r].alone /\ Busy(r)
            BY <1>1, <2>1, FreeFields DEF Own, Busy
        <3>2. ASSUME NEW q \in Requests \ {r} PROVE req'[q].wf # req[r].wf
            <4>1. \A p \in Requests : req[p].wf = req[r].wf => p = r
                BY <3>1 DEF IInv, Alone
            <4> QED BY <1>1, <4>1 DEF Own
        <3> QED BY <1>1, <2>1, <3>1, <3>2 DEF Own, Leaves
    <2>2. CASE s # r
        <3>1. req'[s] = req[s] /\ Busy(s) /\ req[s].wf # req[r].wf /\ req[s].wf \in Workflows
            BY <1>1, <2>2 DEF IInv, Alone, Own, Busy, Addressed
        <3>2. /\ file'[req[s].wf] = file[req[s].wf]
              /\ index'[req[s].wf] = index[req[s].wf]
              /\ owner' = owner
            BY <1>1, <3>1 DEF Own
        <3>3. \A q \in Requests : req'[q].wf = req[s].wf => q = s
            <4>1. \A q \in Requests : req[q].wf = req[s].wf => q = s
                BY <3>1 DEF IInv, Alone
            <4>2. req'[r].wf # req[s].wf
                BY <1>1, <3>1, FreeFields, NoneAssumption DEF Own
            <4> QED BY <1>1, <4>1, <4>2 DEF Own
        <3> QED BY <3>1, <3>2, <3>3 DEF IInv, Alone
    <2> QED BY <2>1, <2>2
<1>9. AtRest'
    <2> SUFFICES ASSUME NEW w \in Workflows, w \in synced', NEW q \in Requests
                 PROVE  req'[q].wf # w
        BY <1>2 DEF AtRest, TypeOK
    <2>1. CASE w \in synced
        <3>1. \A p \in Requests : req[p].wf # w
            BY <2>1 DEF IInv, AtRest
        <3> QED BY <1>1, <3>1, FreeFields, NoneAssumption DEF Own
    <2>2. CASE w \notin synced
        <3>1. req'[r] = Free /\ req[r].alone /\ Busy(r) /\ w = req[r].wf
            BY <1>1, <2>2 DEF Own
        <3>2. \A p \in Requests : req[p].wf = w => p = r
            BY <3>1 DEF IInv, Alone
        <3>3. \A p \in Requests \ {r} : req'[p].wf # w
            BY <1>1, <3>2 DEF Own
        <3> QED BY <3>1, <3>3, FreeFields, NoneAssumption
    <2> QED BY <2>1, <2>2
<1>10. LoneRequestSyncs'
    <2> SUFFICES ASSUME NEW w \in Workflows, w \in synced' PROVE index'[w] = Wanted(w)'
        BY <1>2 DEF LoneRequestSyncs, TypeOK
    <2>1. CASE w \in synced
        <3>1. w # req[r].wf
            BY <2>1 DEF IInv, AtRest
        <3>2. file'[w] = file[w] /\ index'[w] = index[w] /\ owner' = owner
            BY <1>1, <3>1 DEF Own
        <3> QED BY <2>1, <3>2 DEF IInv, LoneRequestSyncs, Wanted
    <2>2. CASE w \notin synced
        BY <1>1, <1>3, <2>2 DEF Own, Leaves
    <2> QED BY <2>1, <2>2
<1> QED BY <1>2, <1>4, <1>5, <1>6, <1>7, <1>8, <1>9, <1>10 DEF IInv

-----------------------------------------------------------------------------
(* The manager's look, a restart, and the theorems. *)

LEMMA OtherStep ==
    ASSUME IInv, Look \/ Restart \/ UNCHANGED vars
    PROVE  IInv'
<1>1. TypeOK'
    BY OtherType DEF IInv
<1>2. UNCHANGED <<owner, file, index, stored, synced>>
    BY DEF Look, Restart, vars, dataVars
<1>3. \/ req' = req
      \/ \A r \in Requests : req'[r] = Free
    BY DEF Look, Restart, vars
<1>4. Addressed' /\ Saved' /\ Alone' /\ AtRest'
    <2>1. CASE req' = req
        BY <1>2, <2>1 DEF IInv, Addressed, Saved, Alone, AtRest, Busy, Indexable
    <2>2. CASE \A r \in Requests : req'[r] = Free
        BY <1>1, <2>2, FreeFields, NoneAssumption
        DEF Addressed, Saved, Alone, AtRest, Busy, TypeOK
    <2> QED BY <1>3, <2>1, <2>2
<1>5. IndexFollowsStore' /\ LoneRequestSyncs'
    BY <1>2 DEF IInv, IndexFollowsStore, LoneRequestSyncs, Wanted
<1>6. EventUsersWatched'
    <2>1. EventUsers' = EventUsers
        BY <1>2 DEF EventUsers
    <2>2. CASE Look
        BY <2>1, <2>2 DEF EventUsersWatched, Look
    <2>3. CASE Restart
        BY <2>3 DEF EventUsersWatched, Restart
    <2>4. CASE UNCHANGED vars
        BY <2>1, <2>4 DEF IInv, EventUsersWatched, vars
    <2> QED BY <2>2, <2>3, <2>4
<1> QED BY <1>1, <1>4, <1>5, <1>6 DEF IInv

THEOREM Invariance == Spec => []IInv
<1>1. IInv /\ [Next]_vars => IInv'
    BY ArriveStep, HandleStep, OtherStep DEF Next
<1> QED BY InitInv, <1>1, PTL DEF Spec

\* The state of store, index and requests always has its types
\* (workflows.go:66-260).
THEOREM TypeCorrect == Spec => []TypeOK
<1>1. IInv => TypeOK
    BY DEF IInv
<1> QED BY Invariance, <1>1, PTL

\* Put comes before the index in every handler (workflows.go:159-164, 235-240):
\* whatever requests overlap, fail or are cut off, a row's trigger was stored.
THEOREM IndexFollowsStoreAlways == Spec => []IndexFollowsStore
<1>1. IInv => IndexFollowsStore
    BY DEF IInv
<1> QED BY Invariance, <1>1, PTL

\* The SSE manager learns of every event row (workflows.go:96-100), for any
\* number of requests at once.
THEOREM EventUsersWatchedAlways == Spec => []EventUsersWatched
<1>1. IInv => EventUsersWatched
    BY DEF IInv
<1> QED BY Invariance, <1>1, PTL

\* A request with its workflow to itself repairs the row whatever was left
\* behind by failures, crashes or overlapping requests (workflows.go:66-101).
THEOREM LoneRequestSyncsAlways == Spec => []LoneRequestSyncs
<1>1. IInv => LoneRequestSyncs
    BY DEF IInv
<1> QED BY Invariance, <1>1, PTL
=============================================================================
