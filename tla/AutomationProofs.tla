-------------------------- MODULE AutomationProofs --------------------------
(***************************************************************************)
(* Proofs about Automation for every set of users, tokens and requests:    *)
(* a credential in use is never one this service revoked, except through a *)
(* Disconnect that is under way or was cut off, never somebody else's, and  *)
(* it lapses only if every sweep failed while it was due.                  *)
(***************************************************************************)
EXTENDS Automation, TLAPS

\* Every token a row, a request or the renewal loop holds was minted, and for
\* the user it is held for.
Owned ==
    /\ StoredIsOwn
    /\ \A r \in Requests : req[r].at # "idle" =>
        /\ req[r].user \in Users
        /\ req[r].token \in Tokens
        /\ owner[req[r].token] = req[r].user
    /\ \A job \in todo : owner[job.token] = job.user
    /\ loop \in {"store", "revoke"} =>
           cur \in JobType /\ owner[cur.token] = cur.user
    /\ loop = "store" => new \in Tokens /\ owner[new] = cur.user
    /\ \A t \in revoked : Minted(t)

\* A token about to be stored by a Connect is held by nobody else.
ConnectFresh ==
    \A r \in Requests : req[r].at = "store" =>
        /\ req[r].token \notin revoked
        /\ \A u \in Users : row[u] # req[r].token
        /\ \A s \in Requests :
               s # r /\ req[s].at # "idle" => req[s].token # req[r].token
        /\ \A job \in todo : job.token # req[r].token
        /\ loop \in {"store", "revoke"} => cur.token # req[r].token
        /\ loop = "store" => new # req[r].token

\* Neither is the one renewOne is about to store; and once it is stored, the
\* one it replaced is in no row any more.
RenewalFresh ==
    /\ loop = "store" =>
        /\ new \notin revoked
        /\ new # cur.token
        /\ \A u \in Users : row[u] # new
        /\ \A r \in Requests : req[r].at # "idle" => req[r].token # new
        /\ \A job \in todo : job.token # new
    /\ loop = "revoke" => \A u \in Users : row[u] # cur.token

IInv == TypeOK /\ Owned /\ ConnectFresh /\ RenewalFresh /\ StoredNotRevoked

\* The steps of Next, one disjunct each.
LEMMA Steps ==
    ASSUME TypeOK, Next
    PROVE  \/ \E r \in Requests, u \in Users : ConnectMint(r, u) \/ DisconnectGet(r, u)
           \/ \E r \in Requests :
                \/ ConnectStore(r) \/ ConnectFails(r) \/ DisconnectRevoke(r)
                \/ DisconnectDelete(r) \/ DisconnectFails(r)
           \/ \E job \in todo : RenewMint(job) \/ RenewMintFails(job)
           \/ List \/ ListFails \/ RenewOver \/ RenewStore \/ RenewStoreFails
           \/ RenewRevoke \/ NextDay \/ Restart
BY DEF Next, Request, Renewal

\* Every step keeps the types.
LEMMA TypeStep ==
    ASSUME TypeOK, Owned, Next
    PROVE  TypeOK'
<1> USE NullAssumption, TimeAssumption
    DEF TypeOK, Owned, RequestType, JobType, Stages, LoopStages, Idle, NoJob,
        oCISVars, loopVars, ghostVars
<1>1. ASSUME NEW r \in Requests, NEW u \in Users, ConnectMint(r, u) PROVE TypeOK'
    BY <1>1 DEF ConnectMint, Mint
<1>2. ASSUME NEW r \in Requests, NEW u \in Users, DisconnectGet(r, u) PROVE TypeOK'
    BY <1>2 DEF DisconnectGet
<1>3. ASSUME NEW r \in Requests, ConnectStore(r) PROVE TypeOK'
    BY <1>3 DEF ConnectStore, Upsert, Done
<1>4. ASSUME NEW r \in Requests, ConnectFails(r) PROVE TypeOK'
    BY <1>4 DEF ConnectFails, Done
<1>5. ASSUME NEW r \in Requests, DisconnectRevoke(r) PROVE TypeOK'
    BY <1>5 DEF DisconnectRevoke, Revoke
<1>6. ASSUME NEW r \in Requests, DisconnectDelete(r) PROVE TypeOK'
    BY <1>6 DEF DisconnectDelete, Done
<1>7. ASSUME NEW r \in Requests, DisconnectFails(r) PROVE TypeOK'
    BY <1>7 DEF DisconnectFails, Done
<1>8. CASE List
    BY <1>8 DEF List, TickDue, Stored
<1>9. CASE ListFails
    BY <1>9 DEF ListFails, TickDue
<1>10. ASSUME NEW job \in todo, RenewMint(job) PROVE TypeOK'
    BY <1>10 DEF RenewMint, Mint
<1>11. ASSUME NEW job \in todo, RenewMintFails(job) PROVE TypeOK'
    BY <1>11 DEF RenewMintFails
<1>12. CASE RenewOver
    BY <1>12 DEF RenewOver
<1>13. CASE RenewStore
    BY <1>13 DEF RenewStore, Upsert
<1>14. CASE RenewStoreFails
    BY <1>14 DEF RenewStoreFails, RenewGivesUp
<1>15. CASE RenewRevoke
    BY <1>15 DEF RenewRevoke, Revoke
<1>16. CASE NextDay
  <2>1. day' \in Nat /\ missed' \in [Users -> Nat]
    BY <1>16 DEF NextDay
  <2> QED
    BY <1>16, <2>1 DEF NextDay
<1>17. CASE Restart
    BY <1>17 DEF Restart
<1> QED
    BY Steps,
       <1>1, <1>2, <1>3, <1>4, <1>5, <1>6, <1>7, <1>8, <1>9,
       <1>10, <1>11, <1>12, <1>13, <1>14, <1>15, <1>16, <1>17

\* Every step keeps tokens with the user they were minted for.
LEMMA OwnedStep ==
    ASSUME TypeOK, Owned, Next
    PROVE  Owned'
<1> USE NullAssumption, TimeAssumption
    DEF TypeOK, RequestType, JobType, Idle, NoJob, oCISVars, loopVars, Owned,
        StoredIsOwn, Minted
<1>1. ASSUME NEW r \in Requests, NEW u \in Users, ConnectMint(r, u) PROVE Owned'
    BY <1>1 DEF ConnectMint, Mint
<1>2. ASSUME NEW r \in Requests, NEW u \in Users, DisconnectGet(r, u) PROVE Owned'
    BY <1>2 DEF DisconnectGet
<1>3. ASSUME NEW r \in Requests, ConnectStore(r) PROVE Owned'
    BY <1>3 DEF ConnectStore, Upsert, Done
<1>4. ASSUME NEW r \in Requests, ConnectFails(r) PROVE Owned'
    BY <1>4 DEF ConnectFails, Done
<1>5. ASSUME NEW r \in Requests, DisconnectRevoke(r) PROVE Owned'
    BY <1>5 DEF DisconnectRevoke, Revoke
<1>6. ASSUME NEW r \in Requests, DisconnectDelete(r) PROVE Owned'
    BY <1>6 DEF DisconnectDelete, Done
<1>7. ASSUME NEW r \in Requests, DisconnectFails(r) PROVE Owned'
    BY <1>7 DEF DisconnectFails, Done
<1>8. CASE List
    BY <1>8 DEF List, TickDue, Stored
<1>9. CASE ListFails
    BY <1>9 DEF ListFails, TickDue
<1>10. ASSUME NEW job \in todo, RenewMint(job) PROVE Owned'
    BY <1>10 DEF RenewMint, Mint
<1>11. ASSUME NEW job \in todo, RenewMintFails(job) PROVE Owned'
    BY <1>11 DEF RenewMintFails
<1>12. CASE RenewOver
    BY <1>12 DEF RenewOver
<1>13. CASE RenewStore
    BY <1>13 DEF RenewStore, Upsert
<1>14. CASE RenewStoreFails
    BY <1>14 DEF RenewStoreFails, RenewGivesUp
<1>15. CASE RenewRevoke
    BY <1>15 DEF RenewRevoke, Revoke
<1>16. CASE NextDay
    BY <1>16 DEF NextDay
<1>17. CASE Restart
    BY <1>17 DEF Restart
<1> QED
    BY Steps,
       <1>1, <1>2, <1>3, <1>4, <1>5, <1>6, <1>7, <1>8, <1>9,
       <1>10, <1>11, <1>12, <1>13, <1>14, <1>15, <1>16, <1>17

\* Every step keeps a Connect's new token to itself.
LEMMA ConnectFreshStep ==
    ASSUME IInv, Next
    PROVE  ConnectFresh'
<1> USE NullAssumption, TimeAssumption
    DEF IInv, TypeOK, RequestType, JobType, Idle, NoJob, oCISVars, loopVars,
        Owned, StoredIsOwn, Minted, ConnectFresh, RenewalFresh
<1>1. ASSUME NEW r \in Requests, NEW u \in Users, ConnectMint(r, u) PROVE ConnectFresh'
    BY <1>1 DEF ConnectMint, Mint
<1>2. ASSUME NEW r \in Requests, NEW u \in Users, DisconnectGet(r, u) PROVE ConnectFresh'
    BY <1>2 DEF DisconnectGet
<1>3. ASSUME NEW r \in Requests, ConnectStore(r) PROVE ConnectFresh'
    BY <1>3 DEF ConnectStore, Upsert, Done
<1>4. ASSUME NEW r \in Requests, ConnectFails(r) PROVE ConnectFresh'
    BY <1>4 DEF ConnectFails, Done
<1>5. ASSUME NEW r \in Requests, DisconnectRevoke(r) PROVE ConnectFresh'
    BY <1>5 DEF DisconnectRevoke, Revoke
<1>6. ASSUME NEW r \in Requests, DisconnectDelete(r) PROVE ConnectFresh'
    BY <1>6 DEF DisconnectDelete, Done
<1>7. ASSUME NEW r \in Requests, DisconnectFails(r) PROVE ConnectFresh'
    BY <1>7 DEF DisconnectFails, Done
<1>8. CASE List
    BY <1>8 DEF List, TickDue, Stored
<1>9. CASE ListFails
    BY <1>9 DEF ListFails, TickDue
<1>10. ASSUME NEW job \in todo, RenewMint(job) PROVE ConnectFresh'
    BY <1>10 DEF RenewMint, Mint
<1>11. ASSUME NEW job \in todo, RenewMintFails(job) PROVE ConnectFresh'
    BY <1>11 DEF RenewMintFails
<1>12. CASE RenewOver
    BY <1>12 DEF RenewOver
<1>13. CASE RenewStore
    BY <1>13 DEF RenewStore, Upsert
<1>14. CASE RenewStoreFails
    BY <1>14 DEF RenewStoreFails, RenewGivesUp
<1>15. CASE RenewRevoke
    BY <1>15 DEF RenewRevoke, Revoke
<1>16. CASE NextDay
    BY <1>16 DEF NextDay
<1>17. CASE Restart
    BY <1>17 DEF Restart
<1> QED
    BY Steps,
       <1>1, <1>2, <1>3, <1>4, <1>5, <1>6, <1>7, <1>8, <1>9,
       <1>10, <1>11, <1>12, <1>13, <1>14, <1>15, <1>16, <1>17

\* Every step keeps the renewal's new token to itself, and its old one out.
LEMMA RenewalFreshStep ==
    ASSUME IInv, Next
    PROVE  RenewalFresh'
<1> USE NullAssumption, TimeAssumption
    DEF IInv, TypeOK, RequestType, JobType, Idle, NoJob, oCISVars, loopVars,
        Owned, StoredIsOwn, Minted, ConnectFresh, RenewalFresh
<1>1. ASSUME NEW r \in Requests, NEW u \in Users, ConnectMint(r, u) PROVE RenewalFresh'
    BY <1>1 DEF ConnectMint, Mint
<1>2. ASSUME NEW r \in Requests, NEW u \in Users, DisconnectGet(r, u) PROVE RenewalFresh'
    BY <1>2 DEF DisconnectGet
<1>3. ASSUME NEW r \in Requests, ConnectStore(r) PROVE RenewalFresh'
    BY <1>3 DEF ConnectStore, Upsert, Done
<1>4. ASSUME NEW r \in Requests, ConnectFails(r) PROVE RenewalFresh'
    BY <1>4 DEF ConnectFails, Done
<1>5. ASSUME NEW r \in Requests, DisconnectRevoke(r) PROVE RenewalFresh'
    BY <1>5 DEF DisconnectRevoke, Revoke
<1>6. ASSUME NEW r \in Requests, DisconnectDelete(r) PROVE RenewalFresh'
    BY <1>6 DEF DisconnectDelete, Done
<1>7. ASSUME NEW r \in Requests, DisconnectFails(r) PROVE RenewalFresh'
    BY <1>7 DEF DisconnectFails, Done
<1>8. CASE List
    BY <1>8 DEF List, TickDue, Stored
<1>9. CASE ListFails
    BY <1>9 DEF ListFails, TickDue
<1>10. ASSUME NEW job \in todo, RenewMint(job) PROVE RenewalFresh'
    BY <1>10 DEF RenewMint, Mint
<1>11. ASSUME NEW job \in todo, RenewMintFails(job) PROVE RenewalFresh'
    BY <1>11 DEF RenewMintFails
<1>12. CASE RenewOver
    BY <1>12 DEF RenewOver
<1>13. CASE RenewStore
    BY <1>13 DEF RenewStore, Upsert
<1>14. CASE RenewStoreFails
    BY <1>14 DEF RenewStoreFails, RenewGivesUp
<1>15. CASE RenewRevoke
    BY <1>15 DEF RenewRevoke, Revoke
<1>16. CASE NextDay
    BY <1>16 DEF NextDay
<1>17. CASE Restart
    BY <1>17 DEF Restart
<1> QED
    BY Steps,
       <1>1, <1>2, <1>3, <1>4, <1>5, <1>6, <1>7, <1>8, <1>9,
       <1>10, <1>11, <1>12, <1>13, <1>14, <1>15, <1>16, <1>17

\* Every step keeps revoked tokens out of the rows, Disconnects aside.
LEMMA StoredStep ==
    ASSUME IInv, Next
    PROVE  StoredNotRevoked'
<1> USE NullAssumption, TimeAssumption
    DEF IInv, TypeOK, RequestType, JobType, Idle, NoJob, oCISVars, loopVars,
        Owned, StoredIsOwn, ConnectFresh, RenewalFresh, StoredNotRevoked
<1>1. ASSUME NEW r \in Requests, NEW u \in Users, ConnectMint(r, u) PROVE StoredNotRevoked'
    BY <1>1 DEF ConnectMint, Mint
<1>2. ASSUME NEW r \in Requests, NEW u \in Users, DisconnectGet(r, u) PROVE StoredNotRevoked'
    BY <1>2 DEF DisconnectGet
<1>3. ASSUME NEW r \in Requests, ConnectStore(r) PROVE StoredNotRevoked'
    BY <1>3 DEF ConnectStore, Upsert, Done
<1>4. ASSUME NEW r \in Requests, ConnectFails(r) PROVE StoredNotRevoked'
    BY <1>4 DEF ConnectFails, Done
<1>5. ASSUME NEW r \in Requests, DisconnectRevoke(r) PROVE StoredNotRevoked'
    BY <1>5 DEF DisconnectRevoke, Revoke
<1>6. ASSUME NEW r \in Requests, DisconnectDelete(r) PROVE StoredNotRevoked'
    BY <1>6 DEF DisconnectDelete, Done
<1>7. ASSUME NEW r \in Requests, DisconnectFails(r) PROVE StoredNotRevoked'
    BY <1>7 DEF DisconnectFails, Done
<1>8. CASE List
    BY <1>8 DEF List, TickDue, Stored
<1>9. CASE ListFails
    BY <1>9 DEF ListFails, TickDue
<1>10. ASSUME NEW job \in todo, RenewMint(job) PROVE StoredNotRevoked'
    BY <1>10 DEF RenewMint, Mint
<1>11. ASSUME NEW job \in todo, RenewMintFails(job) PROVE StoredNotRevoked'
    BY <1>11 DEF RenewMintFails
<1>12. CASE RenewOver
    BY <1>12 DEF RenewOver
<1>13. CASE RenewStore
    BY <1>13 DEF RenewStore, Upsert
<1>14. CASE RenewStoreFails
    BY <1>14 DEF RenewStoreFails, RenewGivesUp
<1>15. CASE RenewRevoke
    BY <1>15 DEF RenewRevoke, Revoke
<1>16. CASE NextDay
    BY <1>16 DEF NextDay
<1>17. CASE Restart
    BY <1>17 DEF Restart
<1> QED
    BY Steps,
       <1>1, <1>2, <1>3, <1>4, <1>5, <1>6, <1>7, <1>8, <1>9,
       <1>10, <1>11, <1>12, <1>13, <1>14, <1>15, <1>16, <1>17

-----------------------------------------------------------------------------
LEMMA InitInv == Init => IInv
<1> SUFFICES ASSUME Init PROVE IInv
    OBVIOUS
<1>1. TypeOK
  <2>1. req \in [Requests -> RequestType]
    BY DEF Init, RequestType, Stages, Idle
  <2>2. expires \in [Tokens -> Nat] /\ missed \in [Users -> Nat] /\ day \in Nat
    BY DEF Init
  <2> QED
    BY <2>1, <2>2 DEF Init, TypeOK, LoopStages
<1>2. Owned /\ ConnectFresh /\ RenewalFresh
    BY NullAssumption
       DEF Init, Idle, Owned, StoredIsOwn, ConnectFresh, RenewalFresh
<1>3. StoredNotRevoked
    BY DEF Init, StoredNotRevoked
<1> QED
    BY <1>1, <1>2, <1>3 DEF IInv

LEMMA Inductive == IInv /\ [Next]_vars => IInv'
<1>1. ASSUME IInv, Next PROVE IInv'
    BY <1>1, TypeStep, OwnedStep, ConnectFreshStep, RenewalFreshStep, StoredStep
       DEF IInv
<1>2. ASSUME IInv, UNCHANGED vars PROVE IInv'
    BY <1>2
       DEF IInv, vars, TypeOK, Owned, StoredIsOwn, Minted, ConnectFresh,
           RenewalFresh, StoredNotRevoked
<1> QED
    BY <1>1, <1>2

THEOREM Invariance == Spec => []IInv
BY InitInv, Inductive, PTL DEF Spec

\* The credential state always has its type.
THEOREM TypeCorrect == Spec => []TypeOK
<1>1. IInv => TypeOK
    BY DEF IInv
<1> QED
    BY <1>1, Invariance, PTL

\* renew.go:74-78, automation.go:138-146: what a row holds was never revoked by
\* this service, but for a Disconnect between its revoke and its delete.
THEOREM StoredNotRevokedAlways == Spec => []StoredNotRevoked
<1>1. IInv => StoredNotRevoked
    BY DEF IInv
<1> QED
    BY <1>1, Invariance, PTL

\* automation.go:101-108, renew.go:62-69: nobody's row ever holds a token that
\* was minted for another user.
THEOREM StoredIsOwnAlways == Spec => []StoredIsOwn
<1>1. IInv => StoredIsOwn
    BY DEF IInv, Owned
<1> QED
    BY <1>1, Invariance, PTL
-----------------------------------------------------------------------------
(* Lapsing: an account of the days and of the sweeps. *)

Held(u) == row[u] # NoToken /\ row[u] \notin revoked
Job(u) == [user |-> u, token |-> row[u]]
\* Today's sweep passes the user over, and rightly so.
Passed(u) == u \in excused \/ day + Window < expires[row[u]]

\* A token about to be stored has all of its days before it.
FullLife ==
    /\ \A r \in Requests :
           req[r].at = "store" => expires[req[r].token] = day + Lifetime
    /\ loop = "store" => expires[new] = day + Lifetime

\* Days below the window are missed sweeps.
Counted == \A u \in Users : Held(u) => day + Window <= expires[row[u]] + missed[u]

\* Once List has run, who is not passed over has a job to come or under way.
Covered ==
    /\ swept => loop = "wait"
    /\ swept => \A u \in Users : Held(u) => Passed(u)
    /\ loop # "wait" => \A u \in Users : Held(u) =>
           Passed(u) \/ Job(u) \in todo \/ (loop = "store" /\ cur = Job(u))

LInv == FullLife /\ Counted /\ Covered

\* Every step keeps the days of a token that is not stored yet.
LEMMA FullLifeStep ==
    ASSUME IInv, LInv, Next
    PROVE  FullLife'
<1> USE NullAssumption, TimeAssumption
    DEF IInv, TypeOK, RequestType, JobType, Idle, NoJob, oCISVars, loopVars,
        ghostVars, Owned, StoredIsOwn, Minted, LInv, FullLife
<1>1. ASSUME NEW r \in Requests, NEW u \in Users, ConnectMint(r, u) PROVE FullLife'
    BY <1>1 DEF ConnectMint, Mint
<1>2. ASSUME NEW r \in Requests, NEW u \in Users, DisconnectGet(r, u) PROVE FullLife'
    BY <1>2 DEF DisconnectGet
<1>3. ASSUME NEW r \in Requests, ConnectStore(r) PROVE FullLife'
    BY <1>3 DEF ConnectStore, Upsert, Done
<1>4. ASSUME NEW r \in Requests, ConnectFails(r) PROVE FullLife'
    BY <1>4 DEF ConnectFails, Done
<1>5. ASSUME NEW r \in Requests, DisconnectRevoke(r) PROVE FullLife'
    BY <1>5 DEF DisconnectRevoke, Revoke
<1>6. ASSUME NEW r \in Requests, DisconnectDelete(r) PROVE FullLife'
    BY <1>6 DEF DisconnectDelete, Done
<1>7. ASSUME NEW r \in Requests, DisconnectFails(r) PROVE FullLife'
    BY <1>7 DEF DisconnectFails, Done
<1>8. CASE List
    BY <1>8 DEF List, TickDue, Stored, Due
<1>9. CASE ListFails
    BY <1>9 DEF ListFails, TickDue
<1>10. ASSUME NEW job \in todo, RenewMint(job) PROVE FullLife'
    BY <1>10 DEF RenewMint, Mint
<1>11. ASSUME NEW job \in todo, RenewMintFails(job) PROVE FullLife'
    BY <1>11 DEF RenewMintFails
<1>12. CASE RenewOver
    BY <1>12 DEF RenewOver
<1>13. CASE RenewStore
    BY <1>13 DEF RenewStore, Upsert
<1>14. CASE RenewStoreFails
    BY <1>14 DEF RenewStoreFails, RenewGivesUp
<1>15. CASE RenewRevoke
    BY <1>15 DEF RenewRevoke, Revoke
<1>16. CASE NextDay
    BY <1>16 DEF NextDay
<1>17. CASE Restart
    BY <1>17 DEF Restart
<1> QED
    BY Steps,
       <1>1, <1>2, <1>3, <1>4, <1>5, <1>6, <1>7, <1>8, <1>9,
       <1>10, <1>11, <1>12, <1>13, <1>14, <1>15, <1>16, <1>17

\* Every step keeps the account of days and missed sweeps.
LEMMA CountedStep ==
    ASSUME IInv, LInv, Next
    PROVE  Counted'
<1> USE NullAssumption, TimeAssumption
    DEF IInv, TypeOK, RequestType, JobType, Idle, NoJob, oCISVars, loopVars,
        ghostVars, Owned, StoredIsOwn, Minted, LInv, FullLife, Counted,
        Covered, Held, Passed
<1>1. ASSUME NEW r \in Requests, NEW u \in Users, ConnectMint(r, u) PROVE Counted'
    BY <1>1 DEF ConnectMint, Mint
<1>2. ASSUME NEW r \in Requests, NEW u \in Users, DisconnectGet(r, u) PROVE Counted'
    BY <1>2 DEF DisconnectGet
<1>3. ASSUME NEW r \in Requests, ConnectStore(r) PROVE Counted'
    BY <1>3 DEF ConnectStore, Upsert, Done
<1>4. ASSUME NEW r \in Requests, ConnectFails(r) PROVE Counted'
    BY <1>4 DEF ConnectFails, Done
<1>5. ASSUME NEW r \in Requests, DisconnectRevoke(r) PROVE Counted'
    BY <1>5 DEF DisconnectRevoke, Revoke
<1>6. ASSUME NEW r \in Requests, DisconnectDelete(r) PROVE Counted'
    BY <1>6 DEF DisconnectDelete, Done
<1>7. ASSUME NEW r \in Requests, DisconnectFails(r) PROVE Counted'
    BY <1>7 DEF DisconnectFails, Done
<1>8. CASE List
    BY <1>8 DEF List, TickDue, Stored, Due
<1>9. CASE ListFails
    BY <1>9 DEF ListFails, TickDue
<1>10. ASSUME NEW job \in todo, RenewMint(job) PROVE Counted'
    BY <1>10 DEF RenewMint, Mint
<1>11. ASSUME NEW job \in todo, RenewMintFails(job) PROVE Counted'
    BY <1>11 DEF RenewMintFails
<1>12. CASE RenewOver
    BY <1>12 DEF RenewOver
<1>13. CASE RenewStore
    BY <1>13 DEF RenewStore, Upsert
<1>14. CASE RenewStoreFails
    BY <1>14 DEF RenewStoreFails, RenewGivesUp
<1>15. CASE RenewRevoke
    BY <1>15 DEF RenewRevoke, Revoke
<1>16. CASE NextDay
    BY <1>16 DEF NextDay
<1>17. CASE Restart
    BY <1>17 DEF Restart
<1> QED
    BY Steps,
       <1>1, <1>2, <1>3, <1>4, <1>5, <1>6, <1>7, <1>8, <1>9,
       <1>10, <1>11, <1>12, <1>13, <1>14, <1>15, <1>16, <1>17

\* Every step keeps whom the sweep has passed over, or will come to.
LEMMA CoveredStep ==
    ASSUME IInv, LInv, Next
    PROVE  Covered'
<1> USE NullAssumption, TimeAssumption
    DEF IInv, TypeOK, RequestType, JobType, Idle, NoJob, oCISVars, loopVars,
        ghostVars, Owned, StoredIsOwn, Minted, LInv, FullLife, Covered,
        Held, Passed, Job
<1>1. ASSUME NEW r \in Requests, NEW u \in Users, ConnectMint(r, u) PROVE Covered'
    BY <1>1 DEF ConnectMint, Mint
<1>2. ASSUME NEW r \in Requests, NEW u \in Users, DisconnectGet(r, u) PROVE Covered'
    BY <1>2 DEF DisconnectGet
<1>3. ASSUME NEW r \in Requests, ConnectStore(r) PROVE Covered'
    BY <1>3 DEF ConnectStore, Upsert, Done
<1>4. ASSUME NEW r \in Requests, ConnectFails(r) PROVE Covered'
    BY <1>4 DEF ConnectFails, Done
<1>5. ASSUME NEW r \in Requests, DisconnectRevoke(r) PROVE Covered'
    BY <1>5 DEF DisconnectRevoke, Revoke
<1>6. ASSUME NEW r \in Requests, DisconnectDelete(r) PROVE Covered'
    BY <1>6 DEF DisconnectDelete, Done
<1>7. ASSUME NEW r \in Requests, DisconnectFails(r) PROVE Covered'
    BY <1>7 DEF DisconnectFails, Done
<1>8. CASE List
    BY <1>8 DEF List, TickDue, Stored, Due
<1>9. CASE ListFails
    BY <1>9 DEF ListFails, TickDue
<1>10. ASSUME NEW job \in todo, RenewMint(job) PROVE Covered'
    BY <1>10 DEF RenewMint, Mint
<1>11. ASSUME NEW job \in todo, RenewMintFails(job) PROVE Covered'
    BY <1>11 DEF RenewMintFails
<1>12. CASE RenewOver
    BY <1>12 DEF RenewOver
<1>13. CASE RenewStore
    BY <1>13 DEF RenewStore, Upsert
<1>14. CASE RenewStoreFails
    BY <1>14 DEF RenewStoreFails, RenewGivesUp
<1>15. CASE RenewRevoke
    BY <1>15 DEF RenewRevoke, Revoke
<1>16. CASE NextDay
    BY <1>16 DEF NextDay
<1>17. CASE Restart
    BY <1>17 DEF Restart
<1> QED
    BY Steps,
       <1>1, <1>2, <1>3, <1>4, <1>5, <1>6, <1>7, <1>8, <1>9,
       <1>10, <1>11, <1>12, <1>13, <1>14, <1>15, <1>16, <1>17

\* renew.go:12-15: one good sweep while a credential is due keeps it from lapsing,
\* for every lifetime and window. An unrevoked credential that lapsed has missed
\* a whole window of them.
THEOREM LapsesOnlyAfterWindowAlways == Spec => []LapsesOnlyAfterWindow
<1>1. Init => LInv
    BY NullAssumption DEF Init, Idle, LInv, FullLife, Counted, Covered, Held
<1>2. IInv /\ LInv /\ [Next]_vars => LInv'
  <2>1. ASSUME IInv, LInv, Next PROVE LInv'
    BY <2>1, FullLifeStep, CountedStep, CoveredStep DEF LInv
  <2>2. ASSUME LInv, UNCHANGED vars PROVE LInv'
    BY <2>2 DEF vars, LInv, FullLife, Counted, Covered, Held, Passed, Job
  <2> QED
    BY <2>1, <2>2
<1>3. IInv /\ LInv => LapsesOnlyAfterWindow
  <2> SUFFICES ASSUME TypeOK, Counted PROVE LapsesOnlyAfterWindow
    BY DEF IInv, LInv
  <2> QED
    BY TimeAssumption DEF TypeOK, Counted, Held, LapsesOnlyAfterWindow
<1> QED
    BY <1>1, <1>2, <1>3, Invariance, PTL DEF Spec

-----------------------------------------------------------------------------
(* The way of a token: minted, stored at most once, never stored again.     *)

\* Minted by a request or by the loop, and not stored yet.
InFlight(t) ==
    \/ \E r \in Requests : req[r].at = "store" /\ req[r].token = t
    \/ loop = "store" /\ new = t

\* A token enters a row out of flight, and comes into flight by its mint only.
StoredOnce ==
    /\ \A u \in Users, t \in Tokens : row'[u] = t /\ row[u] # t =>
           /\ InFlight(t) /\ ~InFlight(t)'
           /\ t \notin revoked /\ \A v \in Users : row[v] # t
    /\ \A t \in Tokens : InFlight(t)' => InFlight(t) \/ ~Minted(t)
    /\ \A t \in Tokens : Minted(t) => Minted(t)'

\* Every step takes tokens one way only.
LEMMA StoredOnceStep ==
    ASSUME IInv, Next
    PROVE  StoredOnce
<1> USE NullAssumption, TimeAssumption
    DEF IInv, TypeOK, RequestType, JobType, Idle, NoJob, oCISVars, loopVars,
        Owned, StoredIsOwn, Minted, ConnectFresh, RenewalFresh, InFlight,
        StoredOnce
<1>1. ASSUME NEW r \in Requests, NEW u \in Users, ConnectMint(r, u) PROVE StoredOnce
    BY <1>1 DEF ConnectMint, Mint
<1>2. ASSUME NEW r \in Requests, NEW u \in Users, DisconnectGet(r, u) PROVE StoredOnce
    BY <1>2 DEF DisconnectGet
<1>3. ASSUME NEW r \in Requests, ConnectStore(r) PROVE StoredOnce
    BY <1>3 DEF ConnectStore, Upsert, Done
<1>4. ASSUME NEW r \in Requests, ConnectFails(r) PROVE StoredOnce
    BY <1>4 DEF ConnectFails, Done
<1>5. ASSUME NEW r \in Requests, DisconnectRevoke(r) PROVE StoredOnce
    BY <1>5 DEF DisconnectRevoke, Revoke
<1>6. ASSUME NEW r \in Requests, DisconnectDelete(r) PROVE StoredOnce
    BY <1>6 DEF DisconnectDelete, Done
<1>7. ASSUME NEW r \in Requests, DisconnectFails(r) PROVE StoredOnce
    BY <1>7 DEF DisconnectFails, Done
<1>8. CASE List
    BY <1>8 DEF List, TickDue, Stored
<1>9. CASE ListFails
    BY <1>9 DEF ListFails, TickDue
<1>10. ASSUME NEW job \in todo, RenewMint(job) PROVE StoredOnce
    BY <1>10 DEF RenewMint, Mint
<1>11. ASSUME NEW job \in todo, RenewMintFails(job) PROVE StoredOnce
    BY <1>11 DEF RenewMintFails
<1>12. CASE RenewOver
    BY <1>12 DEF RenewOver
<1>13. CASE RenewStore
    BY <1>13 DEF RenewStore, Upsert
<1>14. CASE RenewStoreFails
    BY <1>14 DEF RenewStoreFails, RenewGivesUp
<1>15. CASE RenewRevoke
    BY <1>15 DEF RenewRevoke, Revoke
<1>16. CASE NextDay
    BY <1>16 DEF NextDay
<1>17. CASE Restart
    BY <1>17 DEF Restart
<1> QED
    BY Steps,
       <1>1, <1>2, <1>3, <1>4, <1>5, <1>6, <1>7, <1>8, <1>9,
       <1>10, <1>11, <1>12, <1>13, <1>14, <1>15, <1>16, <1>17

\* What SSEManager takes for granted of the credentials it reads (Fresh there):
\* automation.go:101-108 and renew.go:62-69 store a token that nobody's row holds
\* and nobody revoked, and one that was stored before is never stored again.
THEOREM StoredOnceAlways == Spec => [][StoredOnce]_vars
BY Invariance, StoredOnceStep, PTL DEF Spec

-----------------------------------------------------------------------------
(* How far a renewal can undo a Disconnect.                                *)

\* Those the sweep under way listed and has not done with.
InHand == {job.user : job \in todo} \cup {cur.user}

\* A request that connects is not one of somebody who did not connect again.
ConnectingRemembered ==
    \A r \in Requests : req[r].at = "store" => req[r].user \notin forgotten

\* A user without a row that no sweep has in hand stays like that.
ForgottenStays ==
    \A u \in forgotten \cap forgotten' :
        row[u] = NoToken /\ u \notin InHand =>
            row'[u] = NoToken /\ u \notin InHand'

LEMMA RememberedStep ==
    ASSUME IInv, ConnectingRemembered, Next
    PROVE  ConnectingRemembered'
<1> USE NullAssumption
    DEF IInv, TypeOK, RequestType, Idle, oCISVars, loopVars, Owned,
        ConnectingRemembered
<1>1. ASSUME NEW r \in Requests, NEW u \in Users, ConnectMint(r, u) PROVE ConnectingRemembered'
    BY <1>1 DEF ConnectMint, Mint
<1>2. ASSUME NEW r \in Requests, NEW u \in Users, DisconnectGet(r, u) PROVE ConnectingRemembered'
    BY <1>2 DEF DisconnectGet
<1>3. ASSUME NEW r \in Requests, ConnectStore(r) PROVE ConnectingRemembered'
    BY <1>3 DEF ConnectStore, Upsert, Done
<1>4. ASSUME NEW r \in Requests, ConnectFails(r) PROVE ConnectingRemembered'
    BY <1>4 DEF ConnectFails, Done
<1>5. ASSUME NEW r \in Requests, DisconnectRevoke(r) PROVE ConnectingRemembered'
    BY <1>5 DEF DisconnectRevoke, Revoke
<1>6. ASSUME NEW r \in Requests, DisconnectDelete(r) PROVE ConnectingRemembered'
    BY <1>6 DEF DisconnectDelete, Done, Connecting
<1>7. ASSUME NEW r \in Requests, DisconnectFails(r) PROVE ConnectingRemembered'
    BY <1>7 DEF DisconnectFails, Done
<1>8. CASE List
    BY <1>8 DEF List, TickDue, Stored
<1>9. CASE ListFails
    BY <1>9 DEF ListFails, TickDue
<1>10. ASSUME NEW job \in todo, RenewMint(job) PROVE ConnectingRemembered'
    BY <1>10 DEF RenewMint, Mint
<1>11. ASSUME NEW job \in todo, RenewMintFails(job) PROVE ConnectingRemembered'
    BY <1>11 DEF RenewMintFails
<1>12. CASE RenewOver
    BY <1>12 DEF RenewOver
<1>13. CASE RenewStore
    BY <1>13 DEF RenewStore, Upsert
<1>14. CASE RenewStoreFails
    BY <1>14 DEF RenewStoreFails, RenewGivesUp
<1>15. CASE RenewRevoke
    BY <1>15 DEF RenewRevoke, Revoke
<1>16. CASE NextDay
    BY <1>16 DEF NextDay
<1>17. CASE Restart
    BY <1>17 DEF Restart
<1> QED
    BY Steps,
       <1>1, <1>2, <1>3, <1>4, <1>5, <1>6, <1>7, <1>8, <1>9,
       <1>10, <1>11, <1>12, <1>13, <1>14, <1>15, <1>16, <1>17

LEMMA ForgottenStep ==
    ASSUME IInv, ConnectingRemembered, Next
    PROVE  ForgottenStays
<1> USE NullAssumption
    DEF IInv, TypeOK, RequestType, JobType, Idle, NoJob, oCISVars, loopVars,
        Owned, StoredIsOwn, ConnectingRemembered, InHand, ForgottenStays
<1>1. ASSUME NEW r \in Requests, NEW u \in Users, ConnectMint(r, u) PROVE ForgottenStays
    BY <1>1 DEF ConnectMint, Mint
<1>2. ASSUME NEW r \in Requests, NEW u \in Users, DisconnectGet(r, u) PROVE ForgottenStays
    BY <1>2 DEF DisconnectGet
<1>3. ASSUME NEW r \in Requests, ConnectStore(r) PROVE ForgottenStays
    BY <1>3 DEF ConnectStore, Upsert, Done
<1>4. ASSUME NEW r \in Requests, ConnectFails(r) PROVE ForgottenStays
    BY <1>4 DEF ConnectFails, Done
<1>5. ASSUME NEW r \in Requests, DisconnectRevoke(r) PROVE ForgottenStays
    BY <1>5 DEF DisconnectRevoke, Revoke
<1>6. ASSUME NEW r \in Requests, DisconnectDelete(r) PROVE ForgottenStays
    BY <1>6 DEF DisconnectDelete, Done
<1>7. ASSUME NEW r \in Requests, DisconnectFails(r) PROVE ForgottenStays
    BY <1>7 DEF DisconnectFails, Done
<1>8. CASE List
    BY <1>8 DEF List, TickDue, Stored
<1>9. CASE ListFails
    BY <1>9 DEF ListFails, TickDue
<1>10. ASSUME NEW job \in todo, RenewMint(job) PROVE ForgottenStays
    BY <1>10 DEF RenewMint, Mint
<1>11. ASSUME NEW job \in todo, RenewMintFails(job) PROVE ForgottenStays
    BY <1>11 DEF RenewMintFails
<1>12. CASE RenewOver
    BY <1>12 DEF RenewOver
<1>13. CASE RenewStore
    BY <1>13 DEF RenewStore, Upsert
<1>14. CASE RenewStoreFails
    BY <1>14 DEF RenewStoreFails, RenewGivesUp
<1>15. CASE RenewRevoke
    BY <1>15 DEF RenewRevoke, Revoke
<1>16. CASE NextDay
    BY <1>16 DEF NextDay
<1>17. CASE Restart
    BY <1>17 DEF Restart
<1> QED
    BY Steps,
       <1>1, <1>2, <1>3, <1>4, <1>5, <1>6, <1>7, <1>8, <1>9,
       <1>10, <1>11, <1>12, <1>13, <1>14, <1>15, <1>16, <1>17

\* automation.go:123-146: a user who disconnected and did not start connecting
\* since gets a credential back from a sweep that had listed the old one before
\* its row was deleted (renew.go:49-69), and from nothing else: no later sweep,
\* no request of anybody and no restart brings one.
THEOREM ForgottenStaysAlways == Spec => [][ForgottenStays]_vars
<1>1. Init => ConnectingRemembered
    BY DEF Init, Idle, ConnectingRemembered
<1>2. IInv /\ ConnectingRemembered /\ [Next]_vars => ConnectingRemembered'
    BY RememberedStep DEF vars, ConnectingRemembered
<1>3. IInv /\ ConnectingRemembered /\ [Next]_vars => [ForgottenStays]_vars
    BY ForgottenStep
<1> QED
    BY <1>1, <1>2, <1>3, Invariance, PTL DEF Spec
=============================================================================
