----------------------------- MODULE Reconciler -----------------------------
(***************************************************************************)
(* The reconciliation backstop (src/backend/pkg/reconcile/reconciler.go):  *)
(* every time a user's SSE stream connects, a pass queries oCIS's          *)
(* activitylog for what happened since a durable per-drive cursor,         *)
(* dispatches it and advances the cursor.  One user's passes are modelled, *)
(* which may overlap each other, wait for a slot of the instance-wide      *)
(* semaphore, be cancelled, fail at every call, or die with the process.   *)
(***************************************************************************)
EXTENDS Integers, FiniteSets

CONSTANTS
    Drives,
    Activities,     \* the activitylog entries of a behaviour that map to a trigger
    Passes,         \* goroutine slots for passes, no more run at once
    MaxConcurrent,  \* reconcileMaxConcurrent: the semaphore's capacity
    Grace,          \* reconcileGracePeriod
    Overlap,        \* reconcileOverlapWindow
    Lookback,       \* reconcileFirstConnectLookback
    Lag,            \* how late the activitylog shows an activity, at most
    MaxTime,        \* bound: the length of a behaviour
    Faults,         \* the calls that may fail: "scope", "activities", "path", "db"
    None

ASSUME TimeAssumption ==
    /\ Grace \in Nat /\ Overlap \in Nat \ {0} /\ Lookback \in Nat /\ Lag \in Nat
    /\ MaxTime \in Nat
    /\ Lag <= Overlap
ASSUME SlotAssumption == MaxConcurrent \in Nat \ {0} /\ IsFiniteSet(Passes)

Rows == [last : -Lookback .. MaxTime, status : {"full", "sse-only"}]

ASSUME NullAssumption == None \notin Int /\ None \notin Rows

VARIABLES
    now,        \* the wall clock
    drive,      \* the drive each activity happened in
    recorded,   \* when, None while it has not
    visible,    \* activities the activitylog answers with
    cursor,     \* the event_cursors rows
    lastStart,  \* lastPassStart of the user, lost on restart
    sem,        \* how many slots of the semaphore are taken
    others,     \* how many of them by other users' passes
    pass,       \* the passes
    done,       \* passes whose context is done
    attempted,  \* ghost: activities some pass handled
    lost,       \* ghost: activities whose path did not resolve
    clamp,      \* ghost: per drive, the highest floor that cut a query short
    settled,    \* ghost: activities a persisted cursor says are over and done
    overlapped, \* ghost: drives some pass took up while another was at them
    refired     \* ghost: activities dispatched after they were settled

logVars == <<now, drive, recorded, visible>>
ghostVars == <<attempted, lost, clamp, settled, overlapped, refired>>
vars == <<now, drive, recorded, visible, cursor, lastStart, sem, others, pass,
          done, attempted, lost, clamp, settled, overlapped, refired>>

Times == 0 .. MaxTime

Free == [at |-> "none", left |-> {}, drive |-> None, start |-> 0, from |-> 0,
         found |-> {}, handled |-> {}]

Init ==
    /\ now = 0
    /\ drive \in [Activities -> Drives]
    /\ recorded = [a \in Activities |-> None]
    /\ visible = {}
    /\ cursor = [d \in Drives |-> None]
    /\ lastStart = None
    /\ sem = 0
    /\ others = 0
    /\ pass = [p \in Passes |-> Free]
    /\ done = {}
    /\ attempted = {}
    /\ lost = {}
    /\ clamp = [d \in Drives |-> -1]
    /\ settled = {}
    /\ overlapped = {}
    /\ refired = {}

-----------------------------------------------------------------------------
(* Outside: time, the activitylog, the consumers that own the contexts.    *)

HasHappened(a) == recorded[a] # None

Advance ==
    /\ now < MaxTime
    /\ \A a \in Activities \ visible :
        HasHappened(a) => now + 1 < recorded[a] + Lag
    /\ now' = now + 1
    /\ UNCHANGED <<others, drive, recorded, visible, cursor, lastStart, sem, pass, done,
                   ghostVars>>

Happen(a) ==
    /\ ~HasHappened(a)
    /\ recorded' = [recorded EXCEPT ![a] = now]
    /\ UNCHANGED <<others, now, drive, visible, cursor, lastStart, sem, pass, done,
                   ghostVars>>

Appear(a) ==
    /\ HasHappened(a)
    /\ a \notin visible
    /\ visible' = visible \cup {a}
    /\ UNCHANGED <<others, now, drive, recorded, cursor, lastStart, sem, pass, done,
                   ghostVars>>

\* The SSE consumer that started the pass was cancelled.
Cancel(p) ==
    /\ pass[p].at # "none"
    /\ p \notin done
    /\ done' = done \cup {p}
    /\ UNCHANGED <<others, logVars, cursor, lastStart, sem, pass, ghostVars>>

\* Disconnect's DeleteEventCursors; what was settled may be found again.
DeleteEventCursors ==
    /\ cursor' = [d \in Drives |-> None]
    /\ settled' = {}
    /\ UNCHANGED <<others, logVars, lastStart, sem, pass, done, attempted, lost, clamp,
                   overlapped, refired>>

\* Passes of other users compete for the same slots.
OtherAcquires ==
    /\ sem < MaxConcurrent
    /\ sem' = sem + 1
    /\ others' = others + 1
    /\ UNCHANGED <<logVars, cursor, lastStart, pass, done, ghostVars>>

OtherReleases ==
    /\ others > 0
    /\ sem' = sem - 1
    /\ others' = others - 1
    /\ UNCHANGED <<logVars, cursor, lastStart, pass, done, ghostVars>>

\* Only the cursors survive the process.
Restart ==
    /\ pass' = [p \in Passes |-> Free]
    /\ done' = {}
    /\ sem' = 0
    /\ others' = 0
    /\ lastStart' = None
    /\ UNCHANGED <<logVars, cursor, ghostVars>>

-----------------------------------------------------------------------------
(* Reconcile. *)

Goto(p, stage) == pass' = [pass EXCEPT ![p].at = stage]
\* The loop over the drives goes on; what reconcileDrive knew is gone.
Continue(p, left) ==
    pass' = [pass EXCEPT ![p] = [Free EXCEPT !.at = "next", !.left = left]]

\* Mutant: only the end of a whole pass gives the slot back.
FinishKeepingSlot(p) ==
    /\ pass' = [pass EXCEPT ![p] = Free]
    /\ done' = done \ {p}
    /\ sem' = IF pass[p].at = "next" THEN sem - 1 ELSE sem
\* The deferred release runs on every return behind the acquire.
Finish(p) ==
    /\ pass' = [pass EXCEPT ![p] = Free]
    /\ done' = done \ {p}
    /\ sem' = sem - 1

\* shouldStartPass: check and record under one lock.
Start(p) ==
    /\ pass[p] = Free
    /\ lastStart # None => now - lastStart >= Grace
    /\ lastStart' = now
    /\ Goto(p, "wait")
    /\ UNCHANGED <<others, logVars, cursor, sem, done, ghostVars>>

Acquire(p) ==
    /\ pass[p].at = "wait"
    /\ sem < MaxConcurrent
    /\ sem' = sem + 1
    /\ Goto(p, "list")
    /\ UNCHANGED <<others, logVars, cursor, lastStart, done, ghostVars>>

\* Mutant: releases a slot that was never acquired.
BailReleasing(p) ==
    /\ pass[p].at = "wait"
    /\ p \in done
    /\ Finish(p)
    /\ UNCHANGED <<others, logVars, cursor, lastStart, ghostVars>>
\* Cancelled while waiting: no slot to give back.
Bail(p) ==
    /\ pass[p].at = "wait"
    /\ p \in done
    /\ pass' = [pass EXCEPT ![p] = Free]
    /\ done' = done \ {p}
    /\ UNCHANGED <<others, logVars, cursor, lastStart, sem, ghostVars>>

\* The drives of the user's triggers at this moment, whatever they are.
Scope(p) ==
    /\ pass[p].at = "list"
    /\ \E ds \in SUBSET Drives : Continue(p, ds)
    /\ UNCHANGED <<others, logVars, cursor, lastStart, sem, done, ghostVars>>

\* The triggers or the drives cannot be listed: the pass touches no cursor.
ScopeFails(p) ==
    /\ pass[p].at = "list"
    /\ "scope" \in Faults \/ p \in done
    /\ Finish(p)
    /\ UNCHANGED <<others, logVars, cursor, lastStart, ghostVars>>

PassOver(p) ==
    /\ pass[p].at = "next"
    /\ pass[p].left = {}
    /\ Finish(p)
    /\ UNCHANGED <<others, logVars, cursor, lastStart, ghostVars>>

-----------------------------------------------------------------------------
(* reconcileDrive. *)

Debounced(d) == cursor[d] # None /\ now - cursor[d].last < Grace
At(p, d) == pass[p].at \in {"query", "dispatch"} /\ pass[p].drive = d

\* now is read before the cursor and before the query.
ReadCursor(p, d) ==
    /\ pass[p].at = "next"
    /\ d \in pass[p].left
    /\ ~Debounced(d)
    /\ pass' = [pass EXCEPT ![p] =
         [at |-> "query", left |-> @.left \ {d}, drive |-> d, start |-> now,
          from |-> IF cursor[d] = None THEN now - Lookback ELSE cursor[d].last,
          found |-> {}, handled |-> {}]]
    /\ overlapped' = IF \E q \in Passes : At(q, d) THEN overlapped \cup {d}
                     ELSE overlapped
    /\ UNCHANGED <<others, logVars, cursor, lastStart, sem, done, attempted, lost,
                   clamp, settled, refired>>

\* A cursor younger than the grace period: the drive is left alone.
Debounce(p, d) ==
    /\ pass[p].at = "next"
    /\ d \in pass[p].left
    /\ Debounced(d)
    /\ Continue(p, pass[p].left \ {d})
    /\ UNCHANGED <<others, logVars, cursor, lastStart, sem, done, ghostVars>>

\* GetEventCursor fails: this drive is left out of the pass.
ReadCursorFails(p, d) ==
    /\ pass[p].at = "next"
    /\ d \in pass[p].left
    /\ "db" \in Faults \/ p \in done
    /\ Continue(p, pass[p].left \ {d})
    /\ UNCHANGED <<others, logVars, cursor, lastStart, sem, done, ghostVars>>

Floor(p) == pass[p].start - Lookback
Since(p) ==
    IF pass[p].from - Overlap < Floor(p) THEN Floor(p) ELSE pass[p].from - Overlap

\* ListActivities answers with what it shows by now, strictly after since.
Answer(p) == {a \in visible : drive[a] = pass[p].drive /\ recorded[a] > Since(p)}

Query(p) ==
    /\ pass[p].at = "query"
    /\ p \notin done
    /\ pass' = [pass EXCEPT ![p].at = "dispatch", ![p].found = Answer(p)]
    /\ UNCHANGED <<others, logVars, cursor, lastStart, sem, done, ghostVars>>

\* Ghost: once the cursor is written, what is below the floor is given up.
NoteClamp(p) ==
    LET d == pass[p].drive
        cut == pass[p].from - Overlap < Floor(p)
    IN clamp' = [clamp EXCEPT ![d] = IF cut /\ Floor(p) > @ THEN Floor(p) ELSE @]

Row(t, status) == [last |-> t, status |-> status]

\* UpsertEventCursor fails with the database or with a context that is done.
Upsert(p, t, status) ==
    \/ /\ p \notin done
       /\ cursor' = [cursor EXCEPT ![pass[p].drive] = Row(t, status)]
    \/ ("db" \in Faults \/ p \in done) /\ UNCHANGED cursor

\* A failed query leaves last_checked where the pass read it ...
Degrade(p) == Upsert(p, pass[p].from, "sse-only")

\* ... and touches nothing when the query failed because of the context.
QueryFails(p) ==
    /\ pass[p].at = "query"
    /\ \/ p \in done /\ UNCHANGED <<cursor, clamp>>
       \/ p \notin done /\ "activities" \in Faults /\ Degrade(p) /\ NoteClamp(p)
    /\ Continue(p, pass[p].left)
    /\ UNCHANGED <<others, logVars, lastStart, sem, done, attempted, lost, settled,
                   overlapped, refired>>

\* dispatch: the path resolves, and the matching workflows run.
Dispatch(p, a) ==
    /\ pass[p].at = "dispatch"
    /\ a \in pass[p].found
    /\ p \notin done
    /\ pass' = [pass EXCEPT ![p].found = @ \ {a}, ![p].handled = @ \cup {a}]
    /\ attempted' = attempted \cup {a}
    /\ refired' = refired \cup ({a} \cap settled)
    /\ UNCHANGED <<others, logVars, cursor, lastStart, sem, done, lost, clamp, settled,
                   overlapped>>

\* ItemPath fails: the activity is skipped.  With a context that is done the
\* cursor will not advance; otherwise it will, and the activity is lost.
DispatchFails(p, a) ==
    /\ pass[p].at = "dispatch"
    /\ a \in pass[p].found
    /\ "path" \in Faults \/ p \in done
    /\ pass' = [pass EXCEPT ![p].found = @ \ {a}]
    /\ lost' = IF p \in done THEN lost ELSE lost \cup {a}
    /\ UNCHANGED <<others, logVars, cursor, lastStart, sem, done, attempted, clamp,
                   settled, overlapped, refired>>

\* Mutant: advances to the time the query and the dispatches ended.
AdvanceToNow(p) == Upsert(p, now, "full")
\* Mutant: advances to the latest activity it handled.
AdvanceToLatest(p) ==
    LET times == {recorded[a] : a \in pass[p].handled}
    IN Upsert(p, IF times = {} THEN pass[p].start
                 ELSE CHOOSE t \in times : \A u \in times : u <= t, "full")
\* The cursor advances to the time the drive's turn began.
AdvanceCursor(p) == Upsert(p, pass[p].start, "full")

DriveOver(p) ==
    /\ pass[p].at = "dispatch"
    /\ pass[p].found = {}
    /\ AdvanceCursor(p)
    /\ NoteClamp(p)
    /\ settled' = IF cursor' = cursor THEN settled ELSE settled \cup
         {a \in pass[p].handled : recorded[a] <= pass[p].start - Overlap}
    /\ Continue(p, pass[p].left)
    /\ UNCHANGED <<others, logVars, lastStart, sem, done, attempted, lost, overlapped,
                   refired>>

-----------------------------------------------------------------------------
Outside ==
    \/ Advance \/ DeleteEventCursors \/ Restart
    \/ OtherAcquires \/ OtherReleases
    \/ \E a \in Activities : Happen(a) \/ Appear(a)
    \/ \E p \in Passes : Cancel(p)

Step(p) ==
    \/ Acquire(p) \/ Bail(p) \/ Scope(p) \/ ScopeFails(p) \/ PassOver(p)
    \/ \E d \in Drives : ReadCursor(p, d) \/ Debounce(p, d) \/ ReadCursorFails(p, d)
    \/ Query(p) \/ QueryFails(p) \/ DriveOver(p)
    \/ \E a \in Activities : Dispatch(p, a) \/ DispatchFails(p, a)

Next == Outside \/ \E p \in Passes : Start(p) \/ Step(p)

Spec == Init /\ [][Next]_vars

-----------------------------------------------------------------------------
(* Properties. *)

Stages == {"none", "wait", "list", "next", "query", "dispatch"}

\* The type invariant of the clock, the log, the cursors and the passes.
TypeOK ==
    /\ now \in Times
    /\ drive \in [Activities -> Drives]
    /\ recorded \in [Activities -> Times \cup {None}]
    /\ visible \subseteq Activities
    /\ cursor \in [Drives -> Rows \cup {None}]
    /\ lastStart \in Times \cup {None}
    /\ sem \in 0 .. MaxConcurrent
    /\ others \in 0 .. MaxConcurrent
    /\ pass \in [Passes ->
         [at : Stages, left : SUBSET Drives, drive : Drives \cup {None},
          start : Times, from : -Lookback .. MaxTime,
          found : SUBSET Activities, handled : SUBSET Activities]]
    /\ done \subseteq Passes
    /\ attempted \subseteq Activities
    /\ lost \subseteq Activities
    /\ clamp \in [Drives -> Int]
    /\ settled \subseteq Activities
    /\ overlapped \subseteq Drives
    /\ refired \subseteq Activities

Holders == {p \in Passes : pass[p].at \notin {"none", "wait"}}

\* Every taken slot belongs to a pass that still runs (reconciler.go:124-129):
\* no way through a pass leaks one, or later passes would wait for ever.
SlotsAccounted == sem = Cardinality(Holders) + others

\* What the cursor has moved past was handled: an activity at least the overlap
\* older than a drive's stored cursor was dispatched by some pass, unless its
\* path did not resolve or the documented lookback floor cut it off
\* (reconciler.go:220-247), whatever passes overlap, fail or are cancelled.
NoSilentGap ==
    \A a \in Activities :
        /\ HasHappened(a)
        /\ cursor[drive[a]] # None
        /\ recorded[a] <= cursor[drive[a]].last - Overlap
        => a \in attempted \cup lost \/ recorded[a] <= clamp[drive[a]]

\* "The durable per-drive cursor further down is what actually prevents
\* duplicate dispatch" (reconciler.go:116-118): what a persisted cursor has
\* moved past, by more than the overlap that may double-fire, runs again only on
\* a drive two passes of the user were at together, the slower of which writes
\* an older cursor over a newer (reconciler.go:284, 299).
DuplicatesNeedOverlap == \A a \in refired : drive[a] \in overlapped
=============================================================================
