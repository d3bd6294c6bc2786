-------------------------- MODULE SSEManagerProofs --------------------------
(***************************************************************************)
(* Proofs about SSEManager for every set of users, goroutine slots and     *)
(* credentials: the type invariant, and that the registry m.active and     *)
(* the running consumer goroutines never come apart.                       *)
(***************************************************************************)
EXTENDS SSEManager, TLAPS

\* A slot without a goroutine carries nothing over to the next one.
SlotsClean ==
    \A id \in Ids :
        IF Running(id) THEN owner[id] \in Users
        ELSE owner[id] = NoUser /\ id \notin cancelled

\* NoDeadEntry, and what is left of it when consumers return at shutdown
\* before stopAll clears the registry.
EntryOwned ==
    \A u \in Users : active[u] # NoId =>
        /\ ~shutdown => Running(active[u])
        /\ Running(active[u]) =>
               owner[active[u]] = u /\ active[u] \notin cancelled

RegistryInv == SlotsClean /\ NoOrphan /\ EntryOwned

IInv == TypeOK /\ RegistryInv

-----------------------------------------------------------------------------
(* Every field of the state keeps its type, for every constant. *)

LEMMA InitType == Init => TypeOK
BY DEF Init, TypeOK, MgrStates, ConsumerStates

LEMMA EnvironmentType ==
    TypeOK /\ Environment => TypeOK'
<1> SUFFICES ASSUME TypeOK, Environment PROVE TypeOK'
    OBVIOUS
<1> USE DEF TypeOK, envVars, consumerVars
<1>1. CASE \E u \in Users : AddEventTrigger(u)
    BY <1>1 DEF AddEventTrigger
<1>2. CASE \E u \in Users : RemoveLastTrigger(u)
    BY <1>2 DEF RemoveLastTrigger
<1>3. CASE \E u \in Users : Disconnect(u)
    BY <1>3 DEF Disconnect
<1>4. CASE \E u \in Users, c \in Creds : Connect(u, c)
    BY <1>4 DEF Connect, StoreCredential
<1>5. CASE \E u \in Users, c \in Creds : Renew(u, c)
    BY <1>5 DEF Renew, StoreCredential
<1>6. CASE \E c \in Creds : Revoke(c)
    BY <1>6 DEF Revoke
<1>7. CASE \E h \in Handlers : Kick(h)
    BY <1>7 DEF Kick
<1>8. CASE Shutdown
    BY <1>8 DEF Shutdown
<1> QED
    BY <1>1, <1>2, <1>3, <1>4, <1>5, <1>6, <1>7, <1>8 DEF Environment

LEMMA ManagerType ==
    TypeOK /\ Manager => TypeOK'
<1> SUFFICES ASSUME TypeOK, Manager PROVE TypeOK'
    OBVIOUS
<1> USE DEF TypeOK, envVars, consumerVars, MgrStates
<1>1. CASE ListEventTriggers
    BY <1>1 DEF ListEventTriggers
<1>2. CASE ListFails
    BY <1>2 DEF ListFails
<1>3. CASE Apply
  <2> PICK fresh \in [Missing -> FreeIds] :
        /\ active' = [u \in Users |->
                        IF u \in Missing THEN fresh[u]
                        ELSE IF u \in Unwanted THEN NoId ELSE active[u]]
        /\ at' = [id \in Ids |->
                    IF Starts(fresh, id) # {} THEN "start" ELSE at[id]]
        /\ owner' = [id \in Ids |->
                       IF Starts(fresh, id) # {}
                       THEN CHOOSE u \in Missing : fresh[u] = id
                       ELSE owner[id]]
    BY <1>3 DEF Apply
  <2>1. active' \in [Users -> Ids \cup {NoId}]
    BY DEF FreeIds
  <2>2. at' \in [Ids -> ConsumerStates]
    BY DEF ConsumerStates
  <2>3. owner' \in [Ids -> Users \cup {NoUser}]
    BY DEF Starts, Missing
  <2> QED
    BY <1>3, <2>1, <2>2, <2>3 DEF Apply, Registered
<1>4. CASE Tick
    BY <1>4 DEF Tick
<1>5. CASE TakeKick
    BY <1>5 DEF TakeKick
<1>6. CASE StopAll
    BY <1>6 DEF StopAll, Registered
<1> QED
    BY <1>1, <1>2, <1>3, <1>4, <1>5, <1>6 DEF Manager

LEMMA ConsumerType ==
    ASSUME TypeOK, SlotsClean, NEW id \in Ids, Consumer(id)
    PROVE  TypeOK'
<1> USE DEF TypeOK, envVars, consumerUnchanged, Goto, ConsumerStates
<1>1. CASE AutomationFound(id)
  <2>1. owner[id] \in Users
    BY <1>1 DEF AutomationFound, SlotsClean, Running
  <2> QED
    BY <1>1, <2>1 DEF AutomationFound
<1>2. CASE AutomationMissing(id)
    BY <1>2 DEF AutomationMissing
<1>3. CASE GiveUp(id)
    BY <1>3 DEF GiveUp, Deactivate, Exit
<1>4. CASE ReturnDone(id)
    BY <1>4 DEF ReturnDone, Exit
<1>5. CASE DialOK(id)
    BY <1>5 DEF DialOK
<1>6. CASE DialFails(id)
    BY <1>6 DEF DialFails
<1>7. CASE StreamEnds(id)
    BY <1>7 DEF StreamEnds
<1>8. CASE BackoffOver(id)
    BY <1>8 DEF BackoffOver
<1> QED
    BY <1>1, <1>2, <1>3, <1>4, <1>5, <1>6, <1>7, <1>8 DEF Consumer

-----------------------------------------------------------------------------
(* The registry invariant is inductive. *)

LEMMA InitRegistry == Init => RegistryInv
BY NullAssumption DEF Init, RegistryInv, SlotsClean, NoOrphan, EntryOwned, Running

\* A step that touches neither the registry nor a goroutine keeps it.
LEMMA RegistryFrame ==
    ASSUME RegistryInv,
           UNCHANGED <<active, at, owner, cancelled>>, shutdown => shutdown'
    PROVE  RegistryInv'
BY DEF RegistryInv, SlotsClean, NoOrphan, EntryOwned, Running

LEMMA EnvironmentRegistry ==
    ASSUME TypeOK, RegistryInv, Environment
    PROVE  RegistryInv'
<1>1. UNCHANGED <<active, at, owner, cancelled>> /\ (shutdown => shutdown')
    BY DEF Environment, AddEventTrigger, RemoveLastTrigger, Disconnect, Connect,
           Renew, StoreCredential, Revoke, Kick, Shutdown, consumerVars
<1> QED
    BY <1>1, RegistryFrame

\* reconcile's critical section: cancelled entries are dropped with their
\* goroutines, and a started goroutine gets a slot nobody bears.
LEMMA ApplyRegistry ==
    ASSUME TypeOK, RegistryInv, Apply
    PROVE  RegistryInv'
<1> USE NullAssumption DEF TypeOK
<1> PICK fresh \in [Missing -> FreeIds] :
        /\ \A u, v \in Missing : fresh[u] = fresh[v] => u = v
        /\ active' = [u \in Users |->
                        IF u \in Missing THEN fresh[u]
                        ELSE IF u \in Unwanted THEN NoId ELSE active[u]]
        /\ at' = [id \in Ids |->
                    IF Starts(fresh, id) # {} THEN "start" ELSE at[id]]
        /\ owner' = [id \in Ids |->
                       IF Starts(fresh, id) # {}
                       THEN CHOOSE u \in Missing : fresh[u] = id
                       ELSE owner[id]]
    BY DEF Apply
<1>1. shutdown' = shutdown /\ cancelled' = cancelled \cup Registered(Unwanted)
    BY DEF Apply
<1>2. \A u \in Missing : u \in Users /\ active[u] = NoId /\ u \in wanted
    BY DEF Missing
<1>3. ASSUME NEW u \in Missing
      PROVE  /\ fresh[u] \in Ids /\ ~Running(fresh[u])
             /\ \A v \in Users : active[v] # fresh[u]
             /\ at'[fresh[u]] = "start"
             /\ owner'[fresh[u]] = u
    <2>1. fresh[u] \in FreeIds
      OBVIOUS
    <2>2. u \in Starts(fresh, fresh[u])
      BY DEF Starts
    <2>3. (CHOOSE v \in Missing : fresh[v] = fresh[u]) = u
      OBVIOUS
    <2> QED
      BY <2>1, <2>2, <2>3 DEF FreeIds
<1>4. ASSUME NEW id \in Ids, \A u \in Missing : fresh[u] # id
      PROVE  at'[id] = at[id] /\ owner'[id] = owner[id]
    BY <1>4 DEF Starts
<1>5. SlotsClean'
  <2> SUFFICES ASSUME NEW id \in Ids
               PROVE  IF at'[id] # "none" THEN owner'[id] \in Users
                      ELSE owner'[id] = NoUser /\ id \notin cancelled'
    BY DEF SlotsClean, Running
  <2>1. CASE \E u \in Missing : fresh[u] = id
    <3> PICK u \in Missing : fresh[u] = id
      BY <2>1
    <3>1. u \in Users /\ at'[id] = "start" /\ owner'[id] = u
      BY <1>2, <1>3
    <3> QED
      BY <3>1
  <2>2. CASE \A u \in Missing : fresh[u] # id
    <3>1. at'[id] = at[id] /\ owner'[id] = owner[id]
      BY <2>2, <1>4
    <3> QED
      BY <3>1, <1>1 DEF RegistryInv, SlotsClean, Running, Registered
  <2> QED
    BY <2>1, <2>2
<1>6. NoOrphan'
  <2> SUFFICES ASSUME NEW id \in Ids, at'[id] # "none", id \notin cancelled'
               PROVE  active'[owner'[id]] = id
    BY DEF NoOrphan, Running
  <2>1. CASE \E u \in Missing : fresh[u] = id
    <3> PICK u \in Missing : fresh[u] = id
      BY <2>1
    <3>1. u \in Users /\ owner'[id] = u
      BY <1>2, <1>3
    <3> QED
      BY <3>1
  <2>2. CASE \A u \in Missing : fresh[u] # id
    <3>1. at'[id] = at[id] /\ owner'[id] = owner[id]
      BY <2>2, <1>4
    <3>2. Running(id) /\ id \notin cancelled /\ owner[id] \in Users
      BY <3>1, <1>1 DEF RegistryInv, SlotsClean, Running
    <3>3. active[owner[id]] = id
      BY <3>2 DEF RegistryInv, NoOrphan
    <3>4. owner[id] \notin Unwanted
      BY <3>2, <3>3, <1>1 DEF Registered
    <3>5. owner[id] \notin Missing
      BY <3>3 DEF Missing
    <3> QED
      BY <3>1, <3>2, <3>3, <3>4, <3>5
  <2> QED
    BY <2>1, <2>2
<1>7. EntryOwned'
  <2> SUFFICES ASSUME NEW u \in Users, active'[u] # NoId
               PROVE  /\ ~shutdown' => at'[active'[u]] # "none"
                      /\ at'[active'[u]] # "none" =>
                             /\ owner'[active'[u]] = u
                             /\ active'[u] \notin cancelled'
    BY DEF EntryOwned, Running
  <2>1. CASE u \in Missing
    <3>1. active'[u] = fresh[u]
      BY <2>1
    <3>2. fresh[u] \notin cancelled
      BY <2>1, <1>3 DEF RegistryInv, SlotsClean
    <3> QED
      BY <2>1, <3>1, <3>2, <1>1, <1>3 DEF Registered
  <2>2. CASE u \notin Missing
    <3> DEFINE id == active[u]
    <3>1. active'[u] = id /\ u \notin Unwanted /\ id \in Ids
      BY <2>2
    <3>2. \A v \in Missing : fresh[v] # id
      BY <1>3
    <3>3. at'[id] = at[id] /\ owner'[id] = owner[id]
      BY <3>1, <3>2, <1>4
    <3>4. /\ ~shutdown => Running(id)
          /\ Running(id) => owner[id] = u /\ id \notin cancelled
      BY <3>1 DEF RegistryInv, EntryOwned
    <3>5. Running(id) => id \notin Registered(Unwanted)
      <4> SUFFICES ASSUME Running(id), NEW v \in Unwanted, active[v] = id
                   PROVE  FALSE
        BY DEF Registered
      <4>1. owner[id] = v
        BY <3>1 DEF RegistryInv, EntryOwned, Unwanted
      <4> QED
        BY <4>1, <3>1, <3>4
    <3> QED
      BY <3>1, <3>3, <3>4, <3>5, <1>1 DEF Running
  <2> QED
    BY <2>1, <2>2
<1> QED
    BY <1>5, <1>6, <1>7 DEF RegistryInv

LEMMA ManagerRegistry ==
    ASSUME TypeOK, RegistryInv, Manager
    PROVE  RegistryInv'
<1>1. CASE ListEventTriggers \/ ListFails \/ Tick \/ TakeKick
    BY <1>1, RegistryFrame
       DEF ListEventTriggers, ListFails, Tick, TakeKick, consumerVars
<1>2. CASE Apply
    BY <1>2, ApplyRegistry
<1>3. CASE StopAll
    <2> USE <1>3 DEF StopAll, consumerVars, Registered, Running
    <2>1. SlotsClean'
      BY DEF RegistryInv, SlotsClean
    <2>2. NoOrphan'
      BY NullAssumption DEF RegistryInv, SlotsClean, NoOrphan, TypeOK
    <2>3. EntryOwned'
      BY DEF EntryOwned
    <2> QED
      BY <2>1, <2>2, <2>3 DEF RegistryInv
<1> QED
    BY <1>1, <1>2, <1>3 DEF Manager

\* A goroutine that returns takes its slot's fields with it; what is left to
\* show is that no entry of the registry still needs it.
LEMMA ExitRegistry ==
    ASSUME TypeOK, RegistryInv, NEW id \in Ids, Exit(id), shutdown' = shutdown,
           \A u \in Users : active'[u] = active[u] \/ active'[u] = NoId,
           \A u \in Users : active'[u] # active[u] => active[u] = id,
           \A u \in Users : active'[u] = id => shutdown
    PROVE  RegistryInv'
<1> USE NullAssumption DEF TypeOK, Exit
<1>1. SlotsClean'
    BY DEF RegistryInv, SlotsClean, Running
<1>2. NoOrphan'
  <2> SUFFICES ASSUME NEW j \in Ids, at'[j] # "none", j \notin cancelled'
               PROVE  active'[owner'[j]] = j
    BY DEF NoOrphan, Running
  <2>1. j # id /\ at'[j] = at[j] /\ owner'[j] = owner[j] /\ j \notin cancelled
    OBVIOUS
  <2>2. owner[j] \in Users /\ active[owner[j]] = j
    BY <2>1 DEF RegistryInv, SlotsClean, NoOrphan, Running
  <2> QED
    BY <2>1, <2>2
<1>3. EntryOwned'
  <2> SUFFICES ASSUME NEW u \in Users, active'[u] # NoId
               PROVE  /\ ~shutdown' => at'[active'[u]] # "none"
                      /\ at'[active'[u]] # "none" =>
                             /\ owner'[active'[u]] = u
                             /\ active'[u] \notin cancelled'
    BY DEF EntryOwned, Running
  <2>1. active'[u] = active[u] /\ active[u] \in Ids
    OBVIOUS
  <2>2. CASE active[u] = id
    BY <2>1, <2>2
  <2>3. CASE active[u] # id
    BY <2>1, <2>3 DEF RegistryInv, EntryOwned, Running
  <2> QED
    BY <2>2, <2>3
<1> QED
    BY <1>1, <1>2, <1>3 DEF RegistryInv

\* A goroutine that moves on from one place to another keeps the registry.
LEMMA MoveRegistry ==
    ASSUME TypeOK, RegistryInv, NEW id \in Ids, Running(id), NEW to, to # "none",
           at' = [at EXCEPT ![id] = to],
           UNCHANGED <<active, owner, cancelled, shutdown>>
    PROVE  RegistryInv'
BY DEF TypeOK, RegistryInv, SlotsClean, NoOrphan, EntryOwned, Running

LEMMA ConsumerRegistry ==
    ASSUME TypeOK, RegistryInv, NEW id \in Ids, Consumer(id)
    PROVE  RegistryInv'
<1> USE DEF consumerUnchanged
<1>1. CASE AutomationFound(id)
    BY <1>1, MoveRegistry DEF AutomationFound, Goto, Running
<1>2. CASE AutomationMissing(id)
    BY <1>2, MoveRegistry DEF AutomationMissing, Goto, Running
<1>3. CASE GiveUp(id)
  <2>1. \A u \in Users : active[u] = id => owner[id] = u
    BY <1>3, NullAssumption DEF GiveUp, RegistryInv, EntryOwned, Running
  <2>2. \A u \in Users : active'[u] # id
    BY <1>3, <2>1, NullAssumption DEF GiveUp, Deactivate
  <2>3. \A u \in Users : active'[u] = active[u] \/ (active'[u] = NoId /\ active[u] = id)
    BY <1>3 DEF GiveUp, Deactivate
  <2> QED
    BY <1>3, <2>2, <2>3, ExitRegistry DEF GiveUp
<1>4. CASE ReturnDone(id)
  <2>1. ASSUME NEW u \in Users, active[u] = id PROVE shutdown
    BY <1>4, <2>1, NullAssumption
       DEF ReturnDone, Cancelled, RegistryInv, EntryOwned, Running
  <2> QED
    BY <1>4, <2>1, ExitRegistry DEF ReturnDone
<1>5. CASE DialOK(id)
    BY <1>5, MoveRegistry DEF DialOK, Goto, Running
<1>6. CASE DialFails(id)
    BY <1>6, MoveRegistry DEF DialFails, Goto, Running
<1>7. CASE StreamEnds(id)
    BY <1>7, MoveRegistry DEF StreamEnds, Goto, Running
<1>8. CASE BackoffOver(id)
    BY <1>8, MoveRegistry DEF BackoffOver, Goto, Running
<1> QED
    BY <1>1, <1>2, <1>3, <1>4, <1>5, <1>6, <1>7, <1>8 DEF Consumer

-----------------------------------------------------------------------------
LEMMA Inductive == IInv /\ [Next]_vars => IInv'
<1> SUFFICES ASSUME IInv, [Next]_vars PROVE IInv'
    OBVIOUS
<1>1. CASE Environment
    BY <1>1, EnvironmentType, EnvironmentRegistry DEF IInv
<1>2. CASE Manager
    BY <1>2, ManagerType, ManagerRegistry DEF IInv
<1>3. CASE \E id \in Ids : Consumer(id)
    BY <1>3, ConsumerType, ConsumerRegistry DEF IInv, RegistryInv
<1>4. CASE Terminated \/ UNCHANGED vars
  <2>1. UNCHANGED vars
    BY <1>4 DEF Terminated
  <2>2. TypeOK'
    BY <2>1 DEF IInv, TypeOK, vars
  <2> QED
    BY <2>1, <2>2, RegistryFrame DEF IInv, vars
<1> QED
    BY <1>1, <1>2, <1>3, <1>4 DEF Next

THEOREM Invariance == Spec => []IInv
<1>1. Init => IInv
    BY InitType, InitRegistry DEF IInv
<1> QED
    BY <1>1, Inductive, PTL DEF Spec

\* The manager's state always has its type.
THEOREM TypeCorrect == Spec => []TypeOK
<1>1. IInv => TypeOK
    BY DEF IInv
<1> QED
    BY <1>1, Invariance, PTL

\* manager.go:94-98: a consumer goroutine nobody cancelled is always the one
\* m.active names, so a self-removal can never have hit somebody else's entry.
THEOREM NoOrphanAlways == Spec => []NoOrphan
<1>1. IInv => NoOrphan
    BY DEF IInv, RegistryInv
<1> QED
    BY <1>1, Invariance, PTL

\* manager.go:182-184: an entry that makes reconcile skip a user always has a
\* live consumer behind it, until shutdown.
THEOREM NoDeadEntryAlways == Spec => []NoDeadEntry
<1>1. IInv => NoDeadEntry
    BY DEF IInv, RegistryInv, EntryOwned, NoDeadEntry
<1> QED
    BY <1>1, Invariance, PTL

\* manager.go:1-2: one connection per user; two consumers of a user that
\* nobody cancelled never run side by side.
THEOREM OneConsumerAlways == Spec => []OneConsumerPerUser
<1>1. IInv => OneConsumerPerUser
    BY DEF IInv, RegistryInv, NoOrphan, OneConsumerPerUser
<1> QED
    BY <1>1, Invariance, PTL

-----------------------------------------------------------------------------
(* How a consumer that outlived its credential comes to an end.            *)

\* The consumer registered for a user dials with a credential that the server
\* no longer accepts, or waits to do so.
Stranded(u) ==
    /\ active[u] # NoId
    /\ at[active[u]] \in {"loop", "backoff"}
    /\ cred[active[u]] \notin live

\* Only a pass that did not list the user, or the shutdown, ends it.
StaysStranded ==
    \A u \in Users :
        Stranded(u) => Stranded(u)' \/ (mgr = "apply" /\ u \notin wanted) \/ shutdown

\* A credential that comes to be accepted is none a goroutine holds.
LEMMA EnvironmentStrands ==
    ASSUME TypeOK, NEW u \in Users, Stranded(u), Environment
    PROVE  Stranded(u)'
<1> USE DEF TypeOK, Stranded, envVars, consumerVars
<1>1. CASE \E v \in Users : AddEventTrigger(v)
    BY <1>1 DEF AddEventTrigger
<1>2. CASE \E v \in Users : RemoveLastTrigger(v)
    BY <1>2 DEF RemoveLastTrigger
<1>3. CASE \E v \in Users : Disconnect(v)
    BY <1>3 DEF Disconnect
<1>4. CASE \E v \in Users, c \in Creds : StoreCredential(v, c)
    BY <1>4 DEF StoreCredential, Fresh
<1>5. CASE \E c \in Creds : Revoke(c)
    BY <1>5 DEF Revoke
<1>6. CASE \E h \in Handlers : Kick(h)
    BY <1>6 DEF Kick
<1>7. CASE Shutdown
    BY <1>7 DEF Shutdown
<1> QED
    BY <1>1, <1>2, <1>3, <1>4, <1>5, <1>6, <1>7 DEF Environment, Connect, Renew

\* A pass that wants the user finds the entry and leaves it alone.
LEMMA ManagerStrands ==
    ASSUME TypeOK, NEW u \in Users, Stranded(u), Manager,
           ~(mgr = "apply" /\ u \notin wanted), ~shutdown
    PROVE  Stranded(u)'
<1> USE DEF TypeOK, Stranded, envVars, consumerVars
<1>1. CASE ListEventTriggers \/ ListFails \/ Tick \/ TakeKick \/ StopAll
    BY <1>1 DEF ListEventTriggers, ListFails, Tick, TakeKick, StopAll
<1>2. CASE Apply
  <2> PICK fresh \in [Missing -> FreeIds] :
        /\ active' = [v \in Users |->
                        IF v \in Missing THEN fresh[v]
                        ELSE IF v \in Unwanted THEN NoId ELSE active[v]]
        /\ at' = [id \in Ids |->
                    IF Starts(fresh, id) # {} THEN "start" ELSE at[id]]
    BY <1>2 DEF Apply
  <2>1. active'[u] = active[u] /\ active[u] \in Ids
    BY <1>2 DEF Apply, Missing, Unwanted
  <2>2. active[u] \notin FreeIds
    BY DEF FreeIds
  <2>3. Starts(fresh, active[u]) = {}
    BY <2>2 DEF Starts
  <2>4. at'[active[u]] = at[active[u]]
    BY <2>1, <2>3
  <2> QED
    BY <1>2, <2>1, <2>4 DEF Apply
<1> QED
    BY <1>1, <1>2 DEF Manager

\* The consumer itself goes round its loop: nobody cancelled it, so it does not
\* return, and it cannot dial.
LEMMA ConsumerStrands ==
    ASSUME IInv, NEW u \in Users, Stranded(u), NEW id \in Ids, Consumer(id),
           ~shutdown
    PROVE  Stranded(u)'
<1> USE NullAssumption DEF IInv, TypeOK, Stranded, consumerUnchanged, envVars, Goto
<1>1. Running(active[u]) /\ owner[active[u]] = u /\ active[u] \notin cancelled
    BY DEF RegistryInv, EntryOwned
<1>2. CASE AutomationFound(id)
    BY <1>2 DEF AutomationFound
<1>3. CASE AutomationMissing(id)
    BY <1>3 DEF AutomationMissing
<1>4. CASE GiveUp(id)
  <2>1. id # active[u]
    BY <1>4 DEF GiveUp
  <2>2. active'[u] = active[u]
    BY <1>4, <2>1 DEF GiveUp, Deactivate
  <2> QED
    BY <1>4, <2>1, <2>2 DEF GiveUp, Exit
<1>5. CASE ReturnDone(id)
  <2>1. id # active[u]
    BY <1>1, <1>5 DEF ReturnDone, Cancelled
  <2> QED
    BY <1>5, <2>1 DEF ReturnDone, Exit
<1>6. CASE DialOK(id)
    BY <1>6 DEF DialOK
<1>7. CASE DialFails(id) \/ StreamEnds(id) \/ BackoffOver(id)
    BY <1>7 DEF DialFails, StreamEnds, BackoffOver
<1> QED
    BY <1>2, <1>3, <1>4, <1>5, <1>6, <1>7 DEF Consumer

\* manager.go:182-184 and 231: once a consumer holds a revoked credential no
\* renewal, no Connect, no Kick and no reconnect gets its user served again.  Only
\* a pass after the user's last event trigger went away clears the entry.
THEOREM StaysStrandedAlways == Spec => [][StaysStranded]_vars
<1>1. IInv /\ [Next]_vars => [StaysStranded]_vars
  <2> SUFFICES ASSUME IInv, Next, NEW u \in Users, Stranded(u),
                      ~(mgr = "apply" /\ u \notin wanted), ~shutdown
               PROVE  Stranded(u)'
    BY DEF StaysStranded
  <2>1. CASE Environment
    BY <2>1, EnvironmentStrands DEF IInv
  <2>2. CASE Manager
    BY <2>2, ManagerStrands DEF IInv
  <2>3. CASE \E id \in Ids : Consumer(id)
    BY <2>3, ConsumerStrands
  <2>4. CASE Terminated
    BY <2>4 DEF Terminated, vars, consumerVars, envVars, Stranded
  <2> QED
    BY <2>1, <2>2, <2>3, <2>4 DEF Next
<1> QED
    BY <1>1, Invariance, PTL DEF Spec

-----------------------------------------------------------------------------
(* SSEManager implements ConsumerRegistry: initial states map to initial   *)
(* states, and every step of every goroutine maps to one step of the       *)
(* registry or to none.  The argument leans on the inductive invariant:    *)
(* the consumer that serves a user is the one m.active names.              *)

\* What the registry shows of a user, read off the entry of m.active.
EntryPhase(u) ==
    IF active[u] = NoId \/ at[active[u]] = "none" THEN "off"
    ELSE IF at[active[u]] \in {"start", "failed"} THEN "starting" ELSE "serving"

LEMMA PhaseOfEntry == IInv => \A u \in Users : Phase(u) = EntryPhase(u)
<1> SUFFICES ASSUME IInv, NEW u \in Users PROVE Phase(u) = EntryPhase(u)
    OBVIOUS
<1> USE NullAssumption DEF IInv, TypeOK, Running
<1>1. CASE active[u] = NoId \/ at[active[u]] = "none"
  <2>1. Consumers(u) = {}
    BY <1>1 DEF Consumers, RegistryInv, NoOrphan
  <2> QED
    BY <1>1, <2>1 DEF Phase, EntryPhase
<1>2. CASE active[u] # NoId /\ at[active[u]] # "none"
  <2>1. Consumers(u) = {active[u]}
    BY <1>2 DEF Consumers, RegistryInv, NoOrphan, EntryOwned
  <2> QED
    BY <1>2, <2>1 DEF Phase, EntryPhase
<1> QED
    BY <1>1, <1>2

LEMMA NextPhaseOfEntry == IInv' => \A u \in Users : Phase(u)' = EntryPhase(u)'
<1>1. (IInv => \A u \in Users : Phase(u) = EntryPhase(u))'
    BY PhaseOfEntry, PTL
<1> QED
    BY <1>1

\* The two ways a step can leave what is served alone.
LEMMA SamePhase ==
    ASSUME UNCHANGED <<at, owner, cancelled>>, NEW u \in Users
    PROVE  Phase(u)' = Phase(u)
BY DEF Phase, Consumers, Running

LEMMA SameLingering ==
    ASSUME UNCHANGED <<owner, cancelled>>
    PROVE  Lingering' = Lingering
BY DEF Lingering

-----------------------------------------------------------------------------
LEMMA InitRefines == Init => Registry!Init
BY NullAssumption DEF Init, Registry!Init, Connected, Pass, Lingering, Phase, Consumers,
   Running

LEMMA EnvironmentRefines ==
    ASSUME IInv, IInv', Environment
    PROVE  Registry!Next \/ UNCHANGED Registry!vars
<1>1. UNCHANGED <<mgr, wanted, at, owner, cancelled>>
    BY DEF Environment, AddEventTrigger, RemoveLastTrigger, Disconnect, Connect,
           Renew, StoreCredential, Revoke, Kick, Shutdown, consumerVars
<1>2. /\ [u \in Users |-> Phase(u)]' = [u \in Users |-> Phase(u)]
      /\ Lingering' = Lingering /\ Pass' = Pass /\ wanted' = wanted
    BY <1>1, SamePhase, SameLingering DEF Pass
<1>3. indexed' \subseteq Users /\ Connected' \subseteq Users
    BY DEF IInv, TypeOK, Connected
<1>4. \/ ~shutdown /\ shutdown' = shutdown
      \/ UNCHANGED <<indexed, automation, shutdown>>
      \/ UNCHANGED <<indexed, automation>> /\ shutdown' = TRUE
    BY DEF Environment, AddEventTrigger, RemoveLastTrigger, Disconnect, Connect,
           Renew, StoreCredential, Revoke, Kick, Shutdown, envVars
<1>5. CASE ~shutdown /\ shutdown' = shutdown
    BY <1>2, <1>3, <1>5 DEF Registry!Next, Registry!Change
<1>6. CASE UNCHANGED <<indexed, automation, shutdown>>
    BY <1>2, <1>6 DEF Registry!vars, Connected
<1>7. CASE UNCHANGED <<indexed, automation>> /\ shutdown' = TRUE
    BY <1>2, <1>7 DEF Registry!Next, Registry!Shutdown, Connected
<1> QED
    BY <1>4, <1>5, <1>6, <1>7

-----------------------------------------------------------------------------
(* The manager goroutine. *)

\* Cancelling the entries of some users turns those of them that are served
\* into lingering ones, and nobody else.
LEMMA Dropped ==
    ASSUME IInv, NEW S \in SUBSET Users, NEW u \in Users
    PROVE  (\E id \in Registered(S) : owner[id] = u) <=> u \in S /\ Phase(u) # "off"
<1> USE NullAssumption DEF IInv, TypeOK
<1>1. Phase(u) # "off" <=> active[u] # NoId /\ Running(active[u])
    BY PhaseOfEntry DEF EntryPhase, Running
<1>2. ASSUME NEW id \in Registered(S), owner[id] = u
      PROVE  u \in S /\ Phase(u) # "off"
  <2>1. PICK v \in S : active[v] = id
    BY DEF Registered
  <2>2. v = u
    BY <1>2, <2>1 DEF RegistryInv, EntryOwned, Registered
  <2> QED
    BY <1>1, <2>1, <2>2 DEF Registered
<1>3. ASSUME u \in S, Phase(u) # "off"
      PROVE  \E id \in Registered(S) : owner[id] = u
  <2>1. active[u] \in Registered(S)
    BY <1>1, <1>3 DEF Registered
  <2>2. owner[active[u]] = u
    BY <1>1, <1>3 DEF RegistryInv, EntryOwned
  <2> QED
    BY <2>1, <2>2
<1> QED
    BY <1>2, <1>3

LEMMA ApplyRefines ==
    ASSUME IInv, IInv', Apply
    PROVE  Registry!Apply
<1> USE NullAssumption DEF IInv, TypeOK
<1> PICK fresh \in [Missing -> FreeIds] :
        /\ \A u, v \in Missing : fresh[u] = fresh[v] => u = v
        /\ active' = [u \in Users |->
                        IF u \in Missing THEN fresh[u]
                        ELSE IF u \in Unwanted THEN NoId ELSE active[u]]
        /\ at' = [id \in Ids |->
                    IF Starts(fresh, id) # {} THEN "start" ELSE at[id]]
        /\ owner' = [id \in Ids |->
                       IF Starts(fresh, id) # {}
                       THEN CHOOSE u \in Missing : fresh[u] = id
                       ELSE owner[id]]
    BY DEF Apply
<1>1. \A u \in Missing : u \in wanted /\ u \in Users /\ active[u] = NoId
    BY DEF Missing
<1>2. ASSUME NEW u \in Missing
      PROVE  fresh[u] \in Ids /\ ~Running(fresh[u]) /\ at'[fresh[u]] = "start"
  <2>1. fresh[u] \in FreeIds /\ u \in Starts(fresh, fresh[u])
    BY DEF Starts
  <2> QED
    BY <2>1 DEF FreeIds
<1>3. ASSUME NEW id \in Ids, Running(id)
      PROVE  at'[id] = at[id] /\ owner'[id] = owner[id]
  <2>1. \A u \in Missing : fresh[u] # id
    BY <1>2, <1>3
  <2>2. Starts(fresh, id) = {}
    BY <2>1 DEF Starts
  <2> QED
    BY <2>2
<1>4. \A u \in Users : Phase(u) = EntryPhase(u) /\ Phase(u)' = EntryPhase(u)'
    BY PhaseOfEntry, NextPhaseOfEntry
<1>5. \A u \in Users : Phase(u)' = IF u \in Missing THEN "starting"
                                  ELSE IF u \in wanted THEN Phase(u) ELSE "off"
  <2> SUFFICES ASSUME NEW u \in Users
               PROVE  EntryPhase(u)' = IF u \in Missing THEN "starting"
                                       ELSE IF u \in wanted THEN EntryPhase(u) ELSE "off"
    BY <1>4
  <2>1. CASE u \in Missing
    BY <1>2, <2>1 DEF EntryPhase
  <2>2. CASE u \notin Missing /\ u \in wanted
    <3>1. active'[u] = active[u] /\ active[u] \in Ids
      BY <2>2 DEF Missing, Unwanted
    <3>2. CASE Running(active[u])
      BY <2>2, <3>1, <3>2, <1>3 DEF EntryPhase
    <3>3. CASE ~Running(active[u])
      <4>1. \A v \in Missing : fresh[v] # active[u]
        BY DEF FreeIds
      <4>2. at'[active[u]] = at[active[u]]
        BY <3>1, <4>1 DEF Starts
      <4> QED
        BY <2>2, <3>1, <4>2 DEF EntryPhase
    <3> QED
      BY <3>2, <3>3
  <2>3. CASE u \notin Missing /\ u \notin wanted
    BY <2>3 DEF Unwanted, EntryPhase
  <2> QED
    BY <2>1, <2>2, <2>3
<1> DEFINE served == {u \in Users : Phase(u) # "off"}
<1>6. Missing \subseteq wanted \ served /\ (~shutdown => Missing = wanted \ served)
  <2>1. \A u \in Missing : Phase(u) = "off"
    BY <1>1, <1>4 DEF EntryPhase
  <2>2. ASSUME ~shutdown, NEW u \in wanted, u \notin Missing PROVE Phase(u) # "off"
    BY <2>2, <1>4 DEF EntryPhase, Missing, RegistryInv, EntryOwned, Running
  <2> QED
    BY <2>1, <2>2, <1>1
<1>7. Lingering' = Lingering \cup (served \ wanted)
  <2>1. cancelled' = cancelled \cup Registered(Unwanted)
    BY DEF Apply
  <2>2. \A id \in cancelled : Running(id)
    BY DEF RegistryInv, SlotsClean
  <2>3. ASSUME NEW u \in Users
        PROVE  (\E id \in Registered(Unwanted) : owner[id] = u) <=> u \in served \ wanted
    <3>1. u \in served \ wanted <=> u \in Unwanted /\ Phase(u) # "off"
      BY <1>4 DEF EntryPhase, Unwanted
    <3> QED
      BY <3>1, Dropped DEF Unwanted
  <2>4. \A id \in cancelled' : id \in Ids /\ owner'[id] = owner[id]
    BY <2>1, <2>2, <1>3 DEF Registered
  <2> SUFFICES ASSUME NEW u \in Users
               PROVE  (\E id \in cancelled' : owner'[id] = u) <=>
                          (\E id \in cancelled : owner[id] = u) \/ u \in served \ wanted
    BY DEF Lingering
  <2>5. (\E id \in cancelled' : owner'[id] = u) <=> (\E id \in cancelled' : owner[id] = u)
    BY <2>4
  <2> QED
    BY <2>1, <2>3, <2>5
<1>8. /\ mgr = "apply" /\ mgr' = "select" /\ wanted' = {}
      /\ UNCHANGED <<indexed, automation, shutdown>>
    BY DEF Apply, envVars
<1>9. [u \in Users |-> Phase(u)]' =
        [u \in Users |-> IF u \in Missing THEN "starting"
                         ELSE IF u \in wanted THEN Phase(u) ELSE "off"]
    BY <1>5
<1>10. Registry!Served = served
    BY DEF Registry!Served
<1> HIDE DEF served
<1>11. /\ Missing \in SUBSET (wanted \ Registry!Served)
       /\ ~shutdown => Missing = wanted \ Registry!Served
    BY <1>6, <1>10
<1>12. /\ Pass = "listed" /\ Pass' = "idle" /\ Connected' = Connected
       /\ Lingering' = Lingering \cup (Registry!Served \ wanted)
    BY <1>7, <1>8, <1>10 DEF Pass, Connected
<1>13. [u \in Users |-> Phase(u)]' =
        [u \in Users |-> IF u \in Missing THEN "starting"
                         ELSE IF u \in wanted THEN [v \in Users |-> Phase(v)][u]
                         ELSE "off"]
    BY <1>9
<1> QED
    BY <1>8, <1>11, <1>12, <1>13 DEF Registry!Apply

LEMMA StopAllRefines ==
    ASSUME IInv, IInv', StopAll
    PROVE  Registry!StopAll
<1> USE NullAssumption DEF IInv, TypeOK
<1>1. [u \in Users |-> Phase(u)]' = [u \in Users |-> "off"]
  <2>1. \A u \in Users : Phase(u)' = EntryPhase(u)'
    BY NextPhaseOfEntry
  <2> QED
    BY <2>1 DEF StopAll, EntryPhase
<1>2. Lingering' = Lingering \cup Registry!Served
  <2> SUFFICES ASSUME NEW u \in Users
               PROVE  (\E id \in cancelled' : owner'[id] = u) <=>
                          (\E id \in cancelled : owner[id] = u) \/ Phase(u) # "off"
    BY DEF Lingering, Registry!Served
  <2>1. cancelled' = cancelled \cup Registered(Users) /\ owner' = owner
    BY DEF StopAll, consumerVars
  <2> QED
    BY <2>1, Dropped
<1> QED
    BY <1>1, <1>2 DEF StopAll, Registry!StopAll, Pass, Connected, envVars

LEMMA ManagerRefines ==
    ASSUME IInv, IInv', Manager
    PROVE  Registry!Next \/ UNCHANGED Registry!vars
<1>1. CASE ListEventTriggers \/ ListFails \/ Tick \/ TakeKick
  <2>1. /\ [u \in Users |-> Phase(u)]' = [u \in Users |-> Phase(u)]
        /\ Lingering' = Lingering /\ Connected' = Connected
        /\ UNCHANGED <<indexed, shutdown>>
    BY <1>1, SamePhase, SameLingering
       DEF ListEventTriggers, ListFails, Tick, TakeKick, envVars, consumerVars, Connected
  <2>2. CASE ListEventTriggers
    BY <2>1, <2>2 DEF ListEventTriggers, Registry!Next, Registry!List, Pass
  <2>3. CASE ListFails \/ Tick \/ TakeKick
    BY <2>1, <2>3 DEF ListFails, Tick, TakeKick, Registry!vars, Pass
  <2> QED
    BY <1>1, <2>2, <2>3
<1>2. CASE Apply
    BY <1>2, ApplyRefines DEF Registry!Next
<1>3. CASE StopAll
    BY <1>3, StopAllRefines DEF Registry!Next
<1> QED
    BY <1>1, <1>2, <1>3 DEF Manager

-----------------------------------------------------------------------------
(* A consumer goroutine. *)

\* What a consumer's step leaves alone anyway.
Aside == UNCHANGED <<indexed, automation, mgr, wanted, shutdown>>

\* A goroutine that was cancelled is in no entry; another is its user's.
LEMMA EntryOf ==
    ASSUME IInv, NEW id \in Ids, Running(id)
    PROVE  /\ owner[id] \in Users
           /\ id \in cancelled => \A u \in Users : active[u] # id
           /\ id \notin cancelled => \A u \in Users : active[u] = id <=> u = owner[id]
BY NullAssumption
   DEF IInv, TypeOK, RegistryInv, SlotsClean, NoOrphan, EntryOwned, Running

\* A goroutine that moves on within its phase does not move the registry.
LEMMA MoveRefines ==
    ASSUME IInv, IInv', NEW id \in Ids, NEW to,
           to # "none", Running(id), at' = [at EXCEPT ![id] = to],
           at[id] \in {"start", "failed"} <=> to \in {"start", "failed"},
           UNCHANGED <<active, owner, cancelled>>, Aside
    PROVE  UNCHANGED Registry!vars
<1>1. \A u \in Users : Phase(u) = EntryPhase(u) /\ Phase(u)' = EntryPhase(u)'
    BY PhaseOfEntry, NextPhaseOfEntry
<1>2. \A u \in Users : EntryPhase(u)' = EntryPhase(u)
    BY DEF EntryPhase, Running, IInv, TypeOK
<1> QED
    BY <1>1, <1>2, SameLingering DEF Aside, Registry!vars, Pass, Connected

LEMMA FoundRefines ==
    ASSUME IInv, IInv', NEW id \in Ids, AutomationFound(id)
    PROVE  Registry!Next \/ UNCHANGED Registry!vars
<1> USE NullAssumption DEF IInv, TypeOK
<1>1. Running(id) /\ at' = [at EXCEPT ![id] = "loop"] /\ at[id] = "start"
    BY DEF AutomationFound, Goto, Running
<1>2. UNCHANGED <<active, owner, cancelled>> /\ Aside
    BY DEF AutomationFound, consumerUnchanged, envVars, Aside
<1>3. \A u \in Users : Phase(u) = EntryPhase(u) /\ Phase(u)' = EntryPhase(u)'
    BY PhaseOfEntry, NextPhaseOfEntry
<1>4. Lingering' = Lingering /\ Pass' = Pass /\ Connected' = Connected
    BY <1>2, SameLingering DEF Aside, Pass, Connected
<1>5. CASE id \in cancelled
  <2>1. \A u \in Users : EntryPhase(u)' = EntryPhase(u)
    BY <1>1, <1>2, <1>5, EntryOf DEF EntryPhase
  <2> QED
    BY <1>2, <1>3, <1>4, <2>1 DEF Registry!vars, Aside
<1>6. CASE id \notin cancelled
  <2> PICK u \in Users : u = owner[id]
    BY <1>1, EntryOf
  <2>1. u \in Connected
    BY DEF AutomationFound, Connected
  <2>2. EntryPhase(u) = "starting" /\ EntryPhase(u)' = "serving"
    BY <1>1, <1>2, <1>6, EntryOf DEF EntryPhase
  <2>3. \A v \in Users : v # u => EntryPhase(v)' = EntryPhase(v)
    BY <1>1, <1>2, <1>6, EntryOf DEF EntryPhase
  <2>4. [v \in Users |-> Phase(v)]' =
          [[v \in Users |-> Phase(v)] EXCEPT ![u] = "serving"]
    <3>1. Phase(u)' = "serving"
      BY <1>3, <2>2
    <3>2. \A v \in Users : v # u => Phase(v)' = Phase(v)
      BY <1>3, <2>3
    <3> QED
      BY <3>1, <3>2
  <2>5. [v \in Users |-> Phase(v)][u] = "starting"
    BY <1>3, <2>1, <2>2
  <2>6. Registry!Found(u)
    BY <1>2, <1>4, <2>1, <2>4, <2>5 DEF Registry!Found, Aside
  <2> QED
    BY <2>1, <2>6 DEF Registry!Next
<1> QED
    BY <1>5, <1>6

\* A goroutine that returns ends its user's phase if it was not cancelled, and
\* may end his lingering if it was.
LEMMA ExitRefines ==
    ASSUME IInv, IInv', NEW id \in Ids, Running(id), Exit(id), Aside,
           \A u \in Users : active[u] # id => active'[u] = active[u],
           \A u \in Users : active[u] = id => active'[u] \in {id, NoId},
           \/ id \in cancelled
           \/ at[id] = "failed"
           \/ shutdown /\ at[id] \notin {"start", "failed"}
    PROVE  Registry!Next \/ UNCHANGED Registry!vars
<1> USE NullAssumption DEF IInv, TypeOK, Running
<1> DEFINE phase == [v \in Users |-> Phase(v)]
<1> PICK u \in Users : u = owner[id]
    BY EntryOf
<1>1. \A v \in Users : Phase(v) = EntryPhase(v) /\ Phase(v)' = EntryPhase(v)'
    BY PhaseOfEntry, NextPhaseOfEntry
<1>2. Pass' = Pass /\ Connected' = Connected
    BY DEF Aside, Pass, Connected
<1>3. /\ cancelled' = cancelled \ {id} /\ at' = [at EXCEPT ![id] = "none"]
      /\ owner' = [owner EXCEPT ![id] = NoUser]
    BY DEF Exit
<1>4. \A v \in Users : active[v] # id => EntryPhase(v)' = EntryPhase(v)
    BY <1>3 DEF EntryPhase
<1>5. CASE id \in cancelled
  <2>1. phase' = phase
    BY <1>1, <1>4, <1>5, EntryOf
  <2>2. \/ Lingering' = Lingering \/ Lingering' = Lingering \ {u}
    BY <1>3 DEF Lingering
  <2>3. CASE Lingering' = Lingering
    BY <1>2, <2>1, <2>3 DEF Aside, Registry!vars
  <2>4. CASE Lingering' = Lingering \ {u}
    BY <1>2, <2>1, <2>4 DEF Aside, Registry!Next, Registry!Leave
  <2> QED
    BY <2>2, <2>3, <2>4
<1>6. CASE id \notin cancelled
  <2>1. Lingering' = Lingering
    BY <1>3, <1>6 DEF Lingering
  <2>2. active[u] = id /\ active'[u] \in {id, NoId}
    BY <1>6, <1>2, EntryOf
  <2>3. EntryPhase(u)' = "off"
    BY <1>3, <2>2 DEF EntryPhase
  <2>4. phase' = [phase EXCEPT ![u] = "off"]
    <3>1. \A v \in Users : v # u => active[v] # id
      BY <1>6, EntryOf
    <3>2. \A v \in Users : v # u => Phase(v)' = Phase(v)
      BY <1>1, <1>4, <3>1
    <3>3. Phase(u)' = "off"
      BY <1>1, <2>3
    <3> HIDE DEF Running
    <3> QED
      BY <3>2, <3>3
  <2>5. CASE at[id] = "failed"
    <3>1. phase[u] = "starting"
      BY <1>1, <1>2, <2>2, <2>5 DEF EntryPhase
    <3> QED
      BY <1>2, <2>1, <2>4, <3>1 DEF Aside, Registry!Next, Registry!GiveUp
  <2>6. CASE shutdown /\ at[id] \notin {"start", "failed"}
    <3>1. phase[u] = "serving"
      BY <1>1, <1>2, <2>2, <2>6 DEF EntryPhase
    <3> QED
      BY <1>2, <2>1, <2>4, <2>6, <3>1 DEF Aside, Registry!Next, Registry!Return
  <2> QED
    BY <1>6, <2>5, <2>6
<1> QED
    BY <1>5, <1>6

LEMMA ConsumerRefines ==
    ASSUME IInv, IInv', NEW id \in Ids, Consumer(id)
    PROVE  Registry!Next \/ UNCHANGED Registry!vars
<1>1. UNCHANGED <<indexed, automation, mgr, wanted, shutdown>>
    BY DEF Consumer, AutomationFound, AutomationMissing, GiveUp, ReturnDone, DialOK,
           DialFails, StreamEnds, BackoffOver, consumerUnchanged, envVars
<1>2. CASE AutomationFound(id)
    BY <1>2, FoundRefines
<1>3. CASE AutomationMissing(id)
  <2>1. /\ Running(id) /\ at[id] = "start" /\ at' = [at EXCEPT ![id] = "failed"]
        /\ UNCHANGED <<active, owner, cancelled>>
    BY <1>3 DEF AutomationMissing, Goto, Running
  <2> QED
    BY <1>1, <2>1, MoveRefines DEF Aside
<1>4. CASE DialOK(id) \/ DialFails(id) \/ StreamEnds(id) \/ BackoffOver(id)
  <2>1. \E to \in {"loop", "stream", "backoff"} :
          /\ Running(id) /\ at' = [at EXCEPT ![id] = to]
          /\ at[id] \in {"loop", "stream", "backoff"}
          /\ UNCHANGED <<active, owner, cancelled>>
    BY <1>4 DEF DialOK, DialFails, StreamEnds, BackoffOver, Goto, Running
  <2> QED
    BY <1>1, <2>1, MoveRefines DEF Aside
<1>5. CASE GiveUp(id)
  <2>1. \A u \in Users : /\ active[u] # id => active'[u] = active[u]
                         /\ active[u] = id => active'[u] \in {id, NoId}
    BY <1>5 DEF GiveUp, Deactivate
  <2> QED
    BY <1>1, <1>5, <2>1, ExitRefines DEF GiveUp, Running, Aside
<1>6. CASE ReturnDone(id)
    BY <1>1, <1>6, ExitRefines DEF ReturnDone, Cancelled, Running, Aside
<1> QED
    BY <1>2, <1>3, <1>4, <1>5, <1>6 DEF Consumer

LEMMA StepRefines ==
    IInv /\ IInv' /\ [Next]_vars => [Registry!Next]_(Registry!vars)
<1> SUFFICES ASSUME IInv, IInv', [Next]_vars
             PROVE  Registry!Next \/ UNCHANGED Registry!vars
    OBVIOUS
<1>1. CASE Environment
    BY <1>1, EnvironmentRefines
<1>2. CASE Manager
    BY <1>2, ManagerRefines
<1>3. CASE \E id \in Ids : Consumer(id)
    BY <1>3, ConsumerRefines
<1>4. CASE Terminated \/ UNCHANGED vars
  <2>1. UNCHANGED vars
    BY <1>4 DEF Terminated
  <2>2. UNCHANGED <<indexed, automation, mgr, wanted, at, owner, cancelled, shutdown>>
    BY <2>1 DEF vars, consumerVars
  <2>3. [u \in Users |-> Phase(u)]' = [u \in Users |-> Phase(u)]
    BY <2>2, SamePhase
  <2> QED
    BY <2>2, <2>3, SameLingering DEF Registry!vars, Pass, Connected
<1> QED
    BY <1>1, <1>2, <1>3, <1>4 DEF Next

\* The manager implements the registry (ImplementsRegistry): with any number of
\* users, goroutines and late self-removals, who is served changes as the
\* registry says (manager.go:160-191, 205-221).
THEOREM Implementation == Spec => ImplementsRegistry
<1>1. Spec => []IInv
    BY Invariance
<1>2. Init => Registry!Init
    BY InitRefines
<1>3. IInv /\ IInv' /\ [Next]_vars => [Registry!Next]_(Registry!vars)
    BY StepRefines
<1> QED
    BY <1>1, <1>2, <1>3, PTL DEF Spec, ImplementsRegistry, Registry!Spec

-----------------------------------------------------------------------------
(* What holds of the registry holds of the manager.                        *)

\* Only a pass that listed a user makes him served, only a credential stored at
\* that moment makes the serving begin, and only a pass that did not list him,
\* or the shutdown, ends it.
ServedByPasses ==
    \A u \in Users :
        /\ Phase(u) = "off" /\ Phase(u)' # "off" => mgr = "apply" /\ u \in wanted
        /\ Phase(u) # "serving" /\ Phase(u)' = "serving" => automation[u] # NoCred
        /\ Phase(u) = "serving" /\ Phase(u)' # "serving" =>
               shutdown \/ (mgr = "apply" /\ u \notin wanted)

\* The argument is about the steps of the registry alone.
LEMMA RegistryServes ==
    ASSUME [Registry!Next]_(Registry!vars)
    PROVE  ServedByPasses
<1> DEFINE phase == [u \in Users |-> Phase(u)]
           next == [u \in Users |-> Phase(u)']
<1>1. /\ \A u \in Users : phase[u] = Phase(u) /\ next[u] = Phase(u)'
      /\ phase' = next
    OBVIOUS
<1>2. Pass = "listed" => mgr = "apply"
    BY DEF Pass
<1> HIDE DEF phase, next
<1>3. CASE UNCHANGED phase
    BY <1>1, <1>3 DEF ServedByPasses
<1>4. CASE Registry!Apply
  <2>1. PICK missing \in SUBSET (wanted \ Registry!Served) :
            next = [u \in Users |-> IF u \in missing THEN "starting"
                                    ELSE IF u \in wanted THEN phase[u] ELSE "off"]
    BY <1>1, <1>4 DEF Registry!Apply, phase
  <2>2. \A u \in Users : u \in missing => phase[u] = "off" /\ u \in wanted
    BY DEF Registry!Served, phase
  <2>3. mgr = "apply"
    BY <1>2, <1>4 DEF Registry!Apply
  <2> QED
    BY <1>1, <2>1, <2>2, <2>3 DEF ServedByPasses
<1>5. CASE Registry!StopAll
  <2>1. shutdown /\ next = [u \in Users |-> "off"]
    BY <1>1, <1>5 DEF Registry!StopAll, phase
  <2> QED
    BY <1>1, <2>1 DEF ServedByPasses
<1>6. ASSUME NEW v \in Users, Registry!Found(v) PROVE ServedByPasses
  <2>1. /\ phase[v] = "starting" /\ automation[v] # NoCred
        /\ next = [phase EXCEPT ![v] = "serving"]
    BY <1>1, <1>6 DEF Registry!Found, Connected, phase
  <2> QED
    BY <1>1, <2>1 DEF ServedByPasses
<1>7. ASSUME NEW v \in Users, Registry!GiveUp(v) PROVE ServedByPasses
  <2>1. phase[v] = "starting" /\ next = [phase EXCEPT ![v] = "off"]
    BY <1>1, <1>7 DEF Registry!GiveUp, phase
  <2> QED
    BY <1>1, <2>1 DEF ServedByPasses
<1>8. ASSUME NEW v \in Users, Registry!Return(v) PROVE ServedByPasses
  <2>1. shutdown /\ phase[v] = "serving" /\ next = [phase EXCEPT ![v] = "off"]
    BY <1>1, <1>8 DEF Registry!Return, phase
  <2> QED
    BY <1>1, <2>1 DEF ServedByPasses
<1>9. CASE \/ Registry!Change \/ Registry!Shutdown \/ Registry!List
           \/ (\E v \in Users : Registry!Leave(v)) \/ UNCHANGED Registry!vars
  <2>1. UNCHANGED phase
    BY <1>9 DEF Registry!Change, Registry!Shutdown, Registry!List, Registry!Leave,
                Registry!vars, phase
  <2> QED
    BY <1>3, <2>1
<1> QED
    BY <1>4, <1>5, <1>6, <1>7, <1>8, <1>9 DEF Registry!Next

\* manager.go:160-221: background consumers come and go with the passes, and with
\* nothing else that happens before the shutdown (ServedByPasses), as read off
\* the registry that the manager implements.
THEOREM ServedByPassesAlways == Spec => [][ServedByPasses]_vars
<1>1. IInv /\ IInv' /\ [Next]_vars => [ServedByPasses]_vars
    BY StepRefines, RegistryServes
<1> QED
    BY <1>1, Invariance, PTL DEF Spec
=============================================================================
