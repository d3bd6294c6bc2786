----------------------------- MODULE Automation -----------------------------
(***************************************************************************)
(* The life of a user's automation credential                              *)
(* (src/backend/pkg/automation): Connect mints an app-password and stores  *)
(* it, Disconnect revokes and deletes it, and the renewal loop replaces it *)
(* before it expires.  HTTP requests and the loop interleave freely, each  *)
(* of them is a sequence of calls to oCIS and to the local database, any   *)
(* call may fail, and the process may die between two of them.             *)
(***************************************************************************)
EXTENDS Naturals

CONSTANTS
    Users, NoUser,
    Tokens, NoToken,    \* the app-passwords that may be minted
    Requests,           \* HTTP requests in flight at once
    Lifetime,           \* defaultExpiry, in sweeps of the renewal loop
    Window,             \* renewalWindow, in sweeps
    MaxDay,             \* bound: the days of a behaviour
    Faults              \* the calls that may fail, and "restart", "newkey"

ASSUME NullAssumption == NoUser \notin Users /\ NoToken \notin Tokens
ASSUME TimeAssumption ==
    Lifetime \in Nat /\ Window \in Nat /\ MaxDay \in Nat /\ Window < Lifetime

VARIABLES
    day,        \* today; a token works on the days before expires[t]
    row,        \* the automations table: each user's stored token
    readable,   \* whose row was sealed with the key this process has
    owner,      \* whom a token was minted for
    expires,    \* the day a token stops working
    revoked,    \* tokens revoked in oCIS
    req,        \* the requests in flight
    loop,       \* where the renewal goroutine is
    todo,       \* what is left of renewDue's snapshot of due automations
    cur,        \* the automation renewOne works on
    new,        \* the token renewOne minted
    swept,      \* today's tick of the renewal loop is over or was skipped
    excused,    \* ghost: users today's sweep failed, or never came to
    missed,     \* ghost: for how many days in a row
    torn,       \* ghost: tokens of Disconnects cut off before their delete
    forgotten   \* ghost: users disconnected, who did not connect again

oCISVars == <<owner, expires, revoked>>
loopVars == <<loop, todo, cur, new, swept>>
ghostVars == <<excused, missed>>
vars == <<day, row, readable, owner, expires, revoked, req, loop, todo, cur,
          new, swept, excused, missed, torn, forgotten>>

Idle == [at |-> "idle", user |-> NoUser, token |-> NoToken]
NoJob == [user |-> NoUser, token |-> NoToken]
Stages == {"idle", "store", "revoke", "delete"}
LoopStages == {"wait", "next", "store", "revoke"}

Minted(t) == owner[t] # NoUser
Accepted(t) == Minted(t) /\ t \notin revoked /\ day < expires[t]

Init ==
    /\ day = 0
    /\ row = [u \in Users |-> NoToken]
    /\ readable = [u \in Users |-> TRUE]
    /\ owner = [t \in Tokens |-> NoUser]
    /\ expires = [t \in Tokens |-> 0]
    /\ revoked = {}
    /\ req = [r \in Requests |-> Idle]
    /\ loop = "wait"
    /\ todo = {}
    /\ cur = NoJob
    /\ new = NoToken
    /\ swept = FALSE
    /\ excused = {}
    /\ missed = [u \in Users |-> 0]
    /\ torn = {}
    /\ forgotten = {}

-----------------------------------------------------------------------------
(* What several callers do. *)

\* MintAppPassword: a token nobody had before, valid for Lifetime.
Mint(u, t) ==
    /\ ~Minted(t)
    /\ owner' = [owner EXCEPT ![t] = u]
    /\ expires' = [expires EXCEPT ![t] = day + Lifetime]
    /\ UNCHANGED revoked

\* RevokeAppPassword, whose failure both callers only log.
Revoke(t) ==
    /\ \/ revoked' = revoked \cup {t}
       \/ "revoke" \in Faults /\ UNCHANGED revoked
    /\ UNCHANGED <<owner, expires>>

\* Mutant: an update that forgot which row it is for.
UpsertAll(u, t) ==
    /\ row' = [v \in Users |-> IF v = u \/ row[v] # NoToken THEN t ELSE NoToken]
    /\ readable' = [readable EXCEPT ![u] = TRUE]
\* UpsertAutomation: replaces the row, whatever it holds, or creates it.
Upsert(u, t) ==
    /\ row' = [row EXCEPT ![u] = t]
    /\ readable' = [readable EXCEPT ![u] = TRUE]

Done(r) == req' = [req EXCEPT ![r] = Idle]

-----------------------------------------------------------------------------
(* Connect.  The calls before the mint (Me, Username) change nothing, nor   *)
(* does a mint that fails: a request exists here from its mint on.          *)

ConnectMint(r, u) ==
    /\ req[r] = Idle
    /\ \E t \in Tokens :
        /\ Mint(u, t)
        /\ req' = [req EXCEPT ![r] = [at |-> "store", user |-> u, token |-> t]]
    /\ forgotten' = forgotten \ {u}
    /\ UNCHANGED <<day, row, readable, loopVars, ghostVars, torn>>

ConnectStore(r) ==
    /\ req[r].at = "store"
    /\ Upsert(req[r].user, req[r].token)
    /\ Done(r)
    /\ UNCHANGED <<day, oCISVars, loopVars, ghostVars, torn, forgotten>>

\* The request ends, and the token it minted stays valid.
ConnectFails(r) ==
    /\ req[r].at = "store"
    /\ "store" \in Faults
    /\ Done(r)
    /\ UNCHANGED <<day, row, readable, oCISVars, loopVars, ghostVars, torn,
                   forgotten>>

-----------------------------------------------------------------------------
(* Disconnect. *)

\* Mutant: a missing row is taken for an automation.
DisconnectGetMissing(r, u) ==
    /\ req[r] = Idle
    /\ readable[u]
    /\ req' = [req EXCEPT ![r] = [at |-> "revoke", user |-> u, token |-> row[u]]]
    /\ UNCHANGED <<day, row, readable, oCISVars, loopVars, ghostVars, torn,
                   forgotten>>

\* With nothing stored, or a row this process cannot decrypt, it ends here.
DisconnectGet(r, u) ==
    /\ req[r] = Idle
    /\ row[u] # NoToken
    /\ readable[u]
    /\ req' = [req EXCEPT ![r] = [at |-> "revoke", user |-> u, token |-> row[u]]]
    /\ UNCHANGED <<day, row, readable, oCISVars, loopVars, ghostVars, torn,
                   forgotten>>

DisconnectRevoke(r) ==
    /\ req[r].at = "revoke"
    /\ Revoke(req[r].token)
    /\ req' = [req EXCEPT ![r].at = "delete"]
    /\ UNCHANGED <<day, row, readable, loopVars, ghostVars, torn, forgotten>>

\* A Connect of the same user in flight may store a row after this one's end.
Connecting(u) == \E r \in Requests : req[r].user = u /\ req[r].at = "store"

\* The row goes whatever token it holds by now.
DisconnectDelete(r) ==
    LET u == req[r].user IN
    /\ req[r].at = "delete"
    /\ row' = [row EXCEPT ![u] = NoToken]
    /\ Done(r)
    /\ forgotten' = IF Connecting(u) THEN forgotten ELSE forgotten \cup {u}
    /\ UNCHANGED <<day, readable, oCISVars, loopVars, ghostVars, torn>>

DisconnectFails(r) ==
    /\ req[r].at = "delete"
    /\ "delete" \in Faults
    /\ torn' = torn \cup {req[r].token}
    /\ Done(r)
    /\ UNCHANGED <<day, row, readable, oCISVars, loopVars, ghostVars, forgotten>>

-----------------------------------------------------------------------------
(* The renewal loop. *)

\* Mutant: looks a day later than the window says.
DueLate(t) == expires[t] < day + Window
\* a.ExpiresAt.Sub(now) <= renewalWindow, for expired automations too.
Due(t) == expires[t] <= day + Window

Stored == {u \in Users : row[u] # NoToken}

\* The daily tick comes at any time of the day.
TickDue == loop = "wait" /\ ~swept

\* ListAutomations decrypts every row, so one unreadable row fails it for all.
List ==
    /\ TickDue
    /\ \A u \in Stored : readable[u]
    /\ todo' = {[user |-> u, token |-> row[u]] :
                   u \in {v \in Stored : Due(row[v])}}
    /\ loop' = "next"
    /\ UNCHANGED <<day, row, readable, oCISVars, req, cur, new, swept,
                   ghostVars, torn, forgotten>>

ListFails ==
    /\ TickDue
    /\ "list" \in Faults \/ \E u \in Stored : ~readable[u]
    /\ swept' = TRUE
    /\ excused' = Users
    /\ UNCHANGED <<day, row, readable, oCISVars, req, loop, todo, cur, new, missed,
                   torn, forgotten>>

RenewOver ==
    /\ loop = "next"
    /\ todo = {}
    /\ loop' = "wait"
    /\ swept' = TRUE
    /\ UNCHANGED <<day, row, readable, oCISVars, req, todo, cur, new, ghostVars,
                   torn, forgotten>>

\* The mint is authenticated with the very token it replaces.
RenewMint(job) ==
    /\ loop = "next"
    /\ Accepted(job.token)
    /\ \E t \in Tokens : Mint(job.user, t) /\ new' = t
    /\ cur' = job
    /\ todo' = todo \ {job}
    /\ loop' = "store"
    /\ UNCHANGED <<day, row, readable, req, swept, ghostVars, torn, forgotten>>

RenewMintFails(job) ==
    /\ loop = "next"
    /\ "mint" \in Faults \/ ~Accepted(job.token)
    /\ todo' = todo \ {job}
    /\ excused' = excused \cup {job.user}
    /\ UNCHANGED <<day, row, readable, oCISVars, req, loop, cur, new, swept,
                   missed, torn, forgotten>>

RenewStore ==
    /\ loop = "store"
    /\ Upsert(cur.user, new)
    /\ loop' = "revoke"
    /\ UNCHANGED <<day, oCISVars, req, todo, cur, new, swept, ghostVars, torn,
                   forgotten>>

\* Mutant: a failed store is logged and the old token revoked all the same.
RenewGivesUpLate == loop' = "revoke" /\ UNCHANGED <<cur, new>>
\* A failed store leaves the automation alone and goes on to the next one.
RenewGivesUp == loop' = "next" /\ cur' = NoJob /\ new' = NoToken

RenewStoreFails ==
    /\ loop = "store"
    /\ "store" \in Faults
    /\ RenewGivesUp
    /\ excused' = excused \cup {cur.user}
    /\ UNCHANGED <<day, row, readable, oCISVars, req, todo, swept, missed, torn,
                   forgotten>>

RenewRevoke ==
    /\ loop = "revoke"
    /\ Revoke(cur.token)
    /\ loop' = "next"
    /\ cur' = NoJob
    /\ new' = NoToken
    /\ UNCHANGED <<day, row, readable, req, todo, swept, ghostVars, torn,
                   forgotten>>

-----------------------------------------------------------------------------
(* Time and restarts. *)

\* A sweep, and a request that minted a token, are over before the day is.
NextDay ==
    /\ loop = "wait"
    /\ swept
    /\ \A r \in Requests : req[r].at # "store"
    /\ day < MaxDay
    /\ day' = day + 1
    /\ swept' = FALSE
    /\ missed' = [u \in Users |-> IF u \in excused THEN missed[u] + 1 ELSE 0]
    /\ excused' = {}
    /\ UNCHANGED <<row, readable, oCISVars, req, loop, todo, cur, new, torn,
                   forgotten>>

\* The process dies and comes back: requests and the sweep are cut off, the
\* ticker starts over, and without WORKFLOWS_ENCRYPTION_KEY the key is new.
Restart ==
    /\ "restart" \in Faults
    /\ req' = [r \in Requests |-> Idle]
    /\ torn' = torn \cup {req[r].token : r \in {s \in Requests : req[s].at = "delete"}}
    /\ readable' = [u \in Users |-> "newkey" \notin Faults /\ readable[u]]
    /\ loop' = "wait"
    /\ todo' = {}
    /\ cur' = NoJob
    /\ new' = NoToken
    /\ swept' = TRUE
    /\ excused' = IF swept THEN excused ELSE Users
    /\ UNCHANGED <<day, row, oCISVars, missed, forgotten>>

-----------------------------------------------------------------------------
Request(r) ==
    \/ \E u \in Users : ConnectMint(r, u) \/ DisconnectGet(r, u)
    \/ ConnectStore(r) \/ ConnectFails(r)
    \/ DisconnectRevoke(r) \/ DisconnectDelete(r) \/ DisconnectFails(r)

Renewal ==
    \/ List \/ ListFails
    \/ \E job \in todo : RenewMint(job) \/ RenewMintFails(job)
    \/ RenewOver \/ RenewStore \/ RenewStoreFails \/ RenewRevoke

Next == (\E r \in Requests : Request(r)) \/ Renewal \/ NextDay \/ Restart

Spec == Init /\ [][Next]_vars

-----------------------------------------------------------------------------
(* Properties. *)

RequestType ==
    [at : Stages, user : Users \cup {NoUser}, token : Tokens \cup {NoToken}]
JobType == [user : Users, token : Tokens]

\* The type invariant of the credential's state.
TypeOK ==
    /\ day \in Nat
    /\ row \in [Users -> Tokens \cup {NoToken}]
    /\ readable \in [Users -> BOOLEAN]
    /\ owner \in [Tokens -> Users \cup {NoUser}]
    /\ expires \in [Tokens -> Nat]
    /\ revoked \subseteq Tokens
    /\ req \in [Requests -> RequestType]
    /\ loop \in LoopStages
    /\ todo \subseteq JobType
    /\ cur \in JobType \cup {NoJob}
    /\ new \in Tokens \cup {NoToken}
    /\ swept \in BOOLEAN
    /\ excused \subseteq Users
    /\ missed \in [Users -> Nat]
    /\ torn \subseteq Tokens
    /\ forgotten \subseteq Users

\* A stored credential was never revoked by this service, unless a Disconnect
\* that read it stands between its revoke and its delete or was cut off there:
\* renewal never revokes what anybody's row holds (renew.go:74-78), however
\* connects, disconnects, renewals, failures and restarts interleave.
StoredNotRevoked ==
    \A u \in Users :
        row[u] \in revoked =>
            \/ row[u] \in torn
            \/ \E r \in Requests : req[r].at = "delete" /\ req[r].token = row[u]

\* A user's row never holds a token minted for somebody else, so nothing ever
\* runs with another user's identity (automation.go:101-108, renew.go:62-69).
StoredIsOwn == \A u \in Users : row[u] # NoToken => owner[row[u]] = u

\* A stored credential that nobody revoked lapses only if as many daily sweeps
\* in a row as renewalWindow spans failed for its user or never came
\* (renew.go:12-15): one good sweep among them is enough.
LapsesOnlyAfterWindow ==
    \A u \in Users :
        row[u] # NoToken /\ row[u] \notin revoked /\ expires[row[u]] <= day
            => missed[u] >= Window

\* "Disconnect revokes and forgets the caller's stored app-password"
\* (automation.go:123): a user who disconnected and did not start connecting
\* since has no stored credential.
DisconnectForgets == \A u \in forgotten : row[u] = NoToken
=============================================================================
