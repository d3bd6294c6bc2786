--------------------------- MODULE ReconcilerProofs ---------------------------
(***************************************************************************)
(* The semaphore, the cursors and the passes of Reconciler, for every      *)
(* number of passes, drives and activities and every length of the         *)
(* overlap, the lookback and the grace period: no slot leaks, nothing a    *)
(* cursor has moved past is silently dropped, and nothing is dispatched    *)
(* twice on a drive that no two passes were at together.                   *)
(***************************************************************************)
EXTENDS Reconciler, FiniteSetTheorems, TLAPS

PassRecords ==
    [at : Stages, left : SUBSET Drives, drive : Drives \cup {None},
     start : Times, from : -Lookback .. MaxTime,
     found : SUBSET Activities, handled : SUBSET Activities]

\* A pass in the middle of a drive knows the drive and the time it took it up.
Active(p) == pass[p].at \in {"query", "dispatch"}
ActiveOK ==
    \A p \in Passes : Active(p) =>
        /\ pass[p].drive \in Drives
        /\ pass[p].from <= pass[p].start
        /\ pass[p].start <= now

\* Cursors are never ahead of the clock.
CursorsOK == \A d \in Drives : cursor[d] # None => cursor[d].last <= now

TInv == TypeOK /\ SlotsAccounted /\ ActiveOK /\ CursorsOK

-----------------------------------------------------------------------------
(* Types, the semaphore and what a pass knows. *)

LEMMA FreeType == Free \in PassRecords
BY TimeAssumption DEF Free, PassRecords, Stages, Times

LEMMA InitT == Init => TInv
<1> SUFFICES ASSUME Init PROVE TInv
    OBVIOUS
<1>1. TypeOK
    BY FreeType, TimeAssumption, SlotAssumption DEF Init, TypeOK, PassRecords, Times, Free
<1>2. Holders = {}
    BY DEF Init, Holders, Free
<1>3. SlotsAccounted
    BY <1>2, FS_EmptySet DEF SlotsAccounted, Init
<1> QED
    BY <1>1, <1>3 DEF Init, TInv, ActiveOK, CursorsOK, Active, Free

\* One more holder, one fewer, or the same ones.
LEMMA HoldersFinite == IsFiniteSet(Holders) /\ Cardinality(Holders) \in Nat
BY SlotAssumption, FS_Subset, FS_CardinalityType DEF Holders

\* A step of the environment, or of a pass that stays on its side of the
\* semaphore, keeps its types.
LEMMA OutsideT ==
    ASSUME TInv, Outside
    PROVE  TInv'
<1> USE TimeAssumption, NullAssumption DEF TInv, TypeOK, Times, logVars, ghostVars, HasHappened
<1>1. CASE Advance
  <2>1. TypeOK' /\ ActiveOK' /\ CursorsOK'
    BY <1>1 DEF Advance, ActiveOK, CursorsOK, Active, Rows
  <2> QED
    BY <1>1, <2>1 DEF Advance, SlotsAccounted, Holders
<1>2. CASE DeleteEventCursors
    BY <1>2 DEF DeleteEventCursors, ActiveOK, CursorsOK, Active, SlotsAccounted, Holders
<1>3. CASE Restart
  <2>1. TypeOK'
    BY <1>3, FreeType, SlotAssumption DEF Restart, PassRecords
  <2>2. Holders' = {}
    BY <1>3 DEF Restart, Holders, Free
  <2>3. ActiveOK' /\ CursorsOK'
    BY <1>3 DEF Restart, ActiveOK, CursorsOK, Active, Free
  <2> QED
    BY <1>3, <2>1, <2>2, <2>3, FS_EmptySet DEF Restart, SlotsAccounted
<1>4. CASE OtherAcquires
    BY <1>4, HoldersFinite, SlotAssumption
       DEF OtherAcquires, ActiveOK, CursorsOK, Active, SlotsAccounted, Holders
<1>5. CASE OtherReleases
    BY <1>5, HoldersFinite, SlotAssumption
       DEF OtherReleases, ActiveOK, CursorsOK, Active, SlotsAccounted, Holders
<1>6. ASSUME NEW a \in Activities, Happen(a) \/ Appear(a)
      PROVE  TInv'
    BY <1>6 DEF Happen, Appear, ActiveOK, CursorsOK, Active, SlotsAccounted, Holders
<1>7. ASSUME NEW p \in Passes, Cancel(p)
      PROVE  TInv'
    BY <1>7 DEF Cancel, ActiveOK, CursorsOK, Active, SlotsAccounted, Holders
<1> QED
    BY <1>1, <1>2, <1>3, <1>4, <1>5, <1>6, <1>7 DEF Outside

\* A pass changes its record, and with it which side of the semaphore it is on.
Outer == {"none", "wait"}

LEMMA HoldersStep ==
    ASSUME NEW p \in Passes, \A q \in Passes \ {p} : pass'[q] = pass[q]
    PROVE  /\ (pass'[p].at \in Outer <=> pass[p].at \in Outer) =>
                  Cardinality(Holders') = Cardinality(Holders)
           /\ pass'[p].at \in Outer /\ pass[p].at \notin Outer =>
                  Cardinality(Holders') = Cardinality(Holders) - 1
           /\ pass'[p].at \notin Outer /\ pass[p].at \in Outer =>
                  Cardinality(Holders') = Cardinality(Holders) + 1
<1>2. IsFiniteSet(Holders)
    BY HoldersFinite
<1>3. CASE pass'[p].at \in Outer <=> pass[p].at \in Outer
    BY <1>3 DEF Holders, Outer
<1>4. CASE pass'[p].at \in Outer /\ pass[p].at \notin Outer
  <2>1. Holders' = Holders \ {p} /\ p \in Holders
    BY <1>4 DEF Holders, Outer
  <2> QED
    BY <1>2, <1>4, <2>1, FS_RemoveElement
<1>5. CASE pass'[p].at \notin Outer /\ pass[p].at \in Outer
  <2>1. Holders' = Holders \cup {p} /\ p \notin Holders
    BY <1>5 DEF Holders, Outer
  <2> QED
    BY <1>2, <1>5, <2>1, FS_AddElement
<1> QED
    BY <1>3, <1>4, <1>5

\* A pass that ends or goes on to the next drive knows none.
LEMMA ContinueT ==
    ASSUME TInv, NEW p \in Passes, NEW left \in SUBSET Drives, Continue(p, left),
           pass[p].at \notin Outer, UNCHANGED <<sem, others, now>>
    PROVE  pass' \in [Passes -> PassRecords] /\ SlotsAccounted' /\ ActiveOK'
<1> DEFINE r == [Free EXCEPT !.at = "next", !.left = left]
<1>1. r \in PassRecords /\ r.at = "next"
    BY FreeType DEF PassRecords, Stages, Free
<1>2. pass' = [pass EXCEPT ![p] = r]
    BY DEF Continue
<1> HIDE DEF r
<1>3. pass' \in [Passes -> PassRecords]
    BY <1>1, <1>2 DEF TInv, TypeOK, PassRecords
<1>4. SlotsAccounted'
  <2>1. pass'[p].at = "next" /\ \A q \in Passes \ {p} : pass'[q] = pass[q]
    BY <1>1, <1>2 DEF TInv, TypeOK
  <2> QED
    BY <2>1, HoldersStep DEF TInv, SlotsAccounted, Outer
<1>5. ActiveOK'
    BY <1>1, <1>2 DEF TInv, TypeOK, ActiveOK, Active
<1> QED
    BY <1>3, <1>4, <1>5

LEMMA FinishT ==
    ASSUME TInv, NEW p \in Passes, Finish(p), pass[p].at \notin Outer,
           UNCHANGED <<others, now>>
    PROVE  /\ pass' \in [Passes -> PassRecords] /\ done' \subseteq Passes
           /\ sem' \in 0 .. MaxConcurrent /\ SlotsAccounted' /\ ActiveOK'
<1>1. pass' \in [Passes -> PassRecords]
    BY FreeType DEF Finish, TInv, TypeOK, PassRecords
<1>2. Cardinality(Holders') = Cardinality(Holders) - 1
  <2>1. pass'[p].at = "none" /\ \A q \in Passes \ {p} : pass'[q] = pass[q]
    BY DEF Finish, Free, TInv, TypeOK
  <2> QED
    BY <2>1, HoldersStep DEF Outer
<1>3. Cardinality(Holders') \in Nat
  <2>1. (IsFiniteSet(Holders) /\ Cardinality(Holders) \in Nat)'
    BY HoldersFinite, PTL
  <2> QED
    BY <2>1
<1>4. sem' \in 0 .. MaxConcurrent /\ SlotsAccounted'
    BY <1>2, <1>3, HoldersFinite, SlotAssumption DEF Finish, TInv, TypeOK, SlotsAccounted
<1>5. ActiveOK'
    BY DEF Finish, TInv, TypeOK, ActiveOK, Active, Free
<1> QED
    BY <1>1, <1>4, <1>5 DEF Finish, TInv, TypeOK

LEMMA UpsertT ==
    ASSUME TInv, NEW p \in Passes, NEW t \in -Lookback .. MaxTime, t <= now,
           NEW status \in {"full", "sse-only"}, Active(p), Upsert(p, t, status), now' = now
    PROVE  cursor' \in [Drives -> Rows \cup {None}] /\ CursorsOK'
<1>1. Row(t, status) \in Rows /\ Row(t, status).last = t
    BY DEF Row, Rows
<1> QED
    BY <1>1, TimeAssumption DEF Upsert, TInv, TypeOK, CursorsOK, ActiveOK

LEMMA NoteClampT ==
    ASSUME TInv, NEW p \in Passes, NoteClamp(p)
    PROVE  clamp' \in [Drives -> Int]
<1>1. Floor(p) \in Int
    BY TimeAssumption DEF Floor, TInv, TypeOK, Times
<1> QED
    BY <1>1 DEF NoteClamp, TInv, TypeOK

LEMMA PassT ==
    ASSUME TInv, NEW p \in Passes, Start(p) \/ Step(p)
    PROVE  TInv'
<1> USE TimeAssumption, SlotAssumption, NullAssumption
        DEF TInv, TypeOK, Times, logVars, ghostVars
<1> USE DEF PassRecords
<1>1. CASE Start(p)
  <2>1. pass' = [pass EXCEPT ![p] = [@ EXCEPT !.at = "wait"]] /\ pass[p].at = "none"
    BY <1>1 DEF Start, Goto, Free
  <2>2. pass'[p].at = "wait" /\ \A q \in Passes \ {p} : pass'[q] = pass[q]
    BY <2>1
  <2>3. SlotsAccounted'
    BY <1>1, <2>1, <2>2, HoldersStep DEF Start, SlotsAccounted, Outer
  <2> QED
    BY <1>1, <2>1, <2>3 DEF Start, ActiveOK, CursorsOK, Active, Stages
<1>2. CASE Acquire(p)
  <2>1. pass' = [pass EXCEPT ![p] = [@ EXCEPT !.at = "list"]] /\ pass[p].at = "wait"
    BY <1>2 DEF Acquire, Goto
  <2>2. pass'[p].at = "list" /\ \A q \in Passes \ {p} : pass'[q] = pass[q]
    BY <2>1
  <2>3. SlotsAccounted'
    BY <1>2, <2>1, <2>2, HoldersStep, HoldersFinite DEF Acquire, SlotsAccounted, Outer
  <2> QED
    BY <1>2, <2>1, <2>3 DEF Acquire, ActiveOK, CursorsOK, Active, Stages
<1>3. CASE Bail(p)
  <2>1. /\ pass'[p].at = "none" /\ pass[p].at = "wait"
        /\ \A q \in Passes \ {p} : pass'[q] = pass[q]
    BY <1>3 DEF Bail, Free
  <2>2. SlotsAccounted'
    BY <1>3, <2>1, HoldersStep DEF Bail, SlotsAccounted, Outer
  <2> QED
    BY <1>3, <2>2, FreeType DEF Bail, ActiveOK, CursorsOK, Active, Free
<1>4. CASE Scope(p)
    BY <1>4, ContinueT DEF Scope, CursorsOK, Outer
<1>5. CASE ScopeFails(p) \/ PassOver(p)
    BY <1>5, FinishT DEF ScopeFails, PassOver, CursorsOK, Outer
<1>6. ASSUME NEW d \in Drives, ReadCursor(p, d)
      PROVE  TInv'
  <2> DEFINE r == [at |-> "query", left |-> pass[p].left \ {d}, drive |-> d, start |-> now,
                   from |-> IF cursor[d] = None THEN now - Lookback ELSE cursor[d].last,
                   found |-> {}, handled |-> {}]
  <2>1. r \in PassRecords /\ r.at = "query" /\ r.drive = d /\ r.from <= r.start /\ r.start = now
    BY DEF Stages, CursorsOK, Rows
  <2>2. pass' = [pass EXCEPT ![p] = r] /\ pass[p].at = "next"
    BY <1>6 DEF ReadCursor
  <2> HIDE DEF r
  <2>3. SlotsAccounted'
    <3>1. pass'[p].at = "query" /\ \A q \in Passes \ {p} : pass'[q] = pass[q]
      BY <2>1, <2>2
    <3> QED
      BY <1>6, <2>2, <3>1, HoldersStep DEF ReadCursor, SlotsAccounted, Outer
  <2>4. ActiveOK'
    BY <1>6, <2>1, <2>2 DEF ReadCursor, ActiveOK, Active
  <2> QED
    BY <1>6, <2>1, <2>2, <2>3, <2>4 DEF ReadCursor, CursorsOK
<1>7. ASSUME NEW d \in Drives, Debounce(p, d) \/ ReadCursorFails(p, d)
      PROVE  TInv'
    BY <1>7, ContinueT DEF Debounce, ReadCursorFails, CursorsOK, Outer
<1>8. CASE Query(p)
  <2>1. Answer(p) \in SUBSET Activities
    BY DEF Answer
  <2>2. pass' = [pass EXCEPT ![p] = [@ EXCEPT !.at = "dispatch", !.found = Answer(p)]]
    BY <1>8 DEF Query
  <2>3. SlotsAccounted'
    BY <1>8, <2>2 DEF Query, SlotsAccounted, Holders
  <2>4. pass' \in [Passes -> PassRecords]
    <3>1. [pass[p] EXCEPT !.at = "dispatch", !.found = Answer(p)] \in PassRecords
      BY <2>1 DEF Stages
    <3> QED
      BY <2>2, <3>1
  <2>5. ActiveOK' /\ CursorsOK'
    BY <1>8, <2>2 DEF Query, ActiveOK, CursorsOK, Active
  <2> QED
    BY <1>8, <2>3, <2>4, <2>5 DEF Query
<1>9. CASE QueryFails(p)
  <2>1. pass' \in [Passes -> PassRecords] /\ SlotsAccounted' /\ ActiveOK'
    BY <1>9, ContinueT DEF QueryFails, Outer
  <2>2. cursor' \in [Drives -> Rows \cup {None}] /\ CursorsOK'
    BY <1>9, UpsertT DEF QueryFails, Degrade, ActiveOK, Active, CursorsOK
  <2>3. clamp' \in [Drives -> Int]
    BY <1>9, NoteClampT DEF QueryFails
  <2> QED
    BY <1>9, <2>1, <2>2, <2>3 DEF QueryFails
<1>10. ASSUME NEW a \in Activities, Dispatch(p, a) \/ DispatchFails(p, a)
       PROVE  TInv'
  <2>1. \A q \in Passes : pass'[q].at = pass[q].at
    BY <1>10 DEF Dispatch, DispatchFails
  <2>2. SlotsAccounted'
    BY <1>10, <2>1 DEF Dispatch, DispatchFails, SlotsAccounted, Holders
  <2> QED
    BY <1>10, <2>2 DEF Dispatch, DispatchFails, ActiveOK, CursorsOK, Active, Stages
<1>11. CASE DriveOver(p)
  <2>1. pass' \in [Passes -> PassRecords] /\ SlotsAccounted' /\ ActiveOK'
    BY <1>11, ContinueT DEF DriveOver, Outer
  <2>2. cursor' \in [Drives -> Rows \cup {None}] /\ CursorsOK'
    BY <1>11, UpsertT DEF DriveOver, AdvanceCursor, ActiveOK, Active
  <2>3. clamp' \in [Drives -> Int]
    BY <1>11, NoteClampT DEF DriveOver
  <2> QED
    BY <1>11, <2>1, <2>2, <2>3 DEF DriveOver
<1> QED
    BY <1>1, <1>2, <1>3, <1>4, <1>5, <1>6, <1>7, <1>8, <1>9, <1>10, <1>11 DEF Step

LEMMA StutterT == TInv /\ UNCHANGED vars => TInv'
BY DEF TInv, TypeOK, SlotsAccounted, ActiveOK, CursorsOK, vars, Holders, Active

LEMMA StepT == TInv /\ [Next]_vars => TInv'
BY OutsideT, PassT, StutterT DEF Next

THEOREM TInvariance == Spec => []TInv
BY InitT, StepT, PTL DEF Spec

\* Clock, log, cursors and passes keep their types (TypeOK), for every number of
\* passes, drives and activities (reconciler.go:249-302).
THEOREM TypeCorrect == Spec => []TypeOK
BY TInvariance, PTL DEF TInv

\* Every taken slot belongs to a pass that still runs (SlotsAccounted), for every
\* number of passes and every capacity of the semaphore (reconciler.go:124-129).
THEOREM SlotsAccountedAlways == Spec => []SlotsAccounted
BY TInvariance, PTL DEF TInv
-----------------------------------------------------------------------------
(* What the cursors have moved past.                                       *)

\* Handled, or given up in a way the code documents.
Settles(a) == a \in attempted \cup lost \/ recorded[a] <= clamp[drive[a]]

\* The activity log lags by less than the overlap.
LogOK ==
    \A a \in Activities : HasHappened(a) =>
        /\ recorded[a] <= now
        /\ a \in visible \/ recorded[a] = now \/ now < recorded[a] + Lag

\* Below the cursor a pass read, unless the floor cuts it off, all is settled.
BelowCursor(p) ==
    \A a \in Activities :
        /\ HasHappened(a) /\ drive[a] = pass[p].drive
        /\ recorded[a] <= pass[p].from - Overlap
        /\ Floor(p) <= pass[p].from - Overlap
        => Settles(a)

\* Between there and what the pass will write as the cursor, all that its query
\* owes is found or settled, unless its context is done.
InWindow(p) ==
    \A a \in Activities :
        /\ HasHappened(a) /\ drive[a] = pass[p].drive
        /\ Since(p) < recorded[a] /\ recorded[a] <= pass[p].start - Overlap
        => a \in pass[p].found \cup attempted \cup lost

WindowsOK ==
    \A p \in Passes :
        /\ Active(p) => BelowCursor(p)
        /\ pass[p].at = "dispatch" /\ p \notin done => InWindow(p)

GInv == LogOK /\ WindowsOK /\ NoSilentGap

\* What is settled stays settled.
Grows ==
    /\ UNCHANGED <<drive, recorded>>
    /\ attempted \subseteq attempted' /\ lost \subseteq lost'
    /\ \A d \in Drives : clamp[d] <= clamp'[d]

\* A pass in the middle of a drive that a step does not concern.
Undisturbed(q) ==
    Active(q)' => Active(q) /\ pass'[q] = pass[q] /\ (q \in done => q \in done')

LEMMA SettlesGrows ==
    ASSUME TInv, TInv', Grows, NEW a \in Activities, HasHappened(a), Settles(a)
    PROVE  Settles(a)'
BY NullAssumption DEF Settles, Grows, TInv, TypeOK, Times, HasHappened

LEMMA WindowsGrow ==
    ASSUME TInv, TInv', WindowsOK, Grows, NEW q \in Passes, Undisturbed(q)
    PROVE  /\ Active(q)' => BelowCursor(q)'
           /\ (pass[q].at = "dispatch" /\ q \notin done)' => InWindow(q)'
<1>1. ASSUME Active(q)' PROVE BelowCursor(q)'
  <2> SUFFICES ASSUME NEW a \in Activities, HasHappened(a), drive[a] = pass[q].drive,
                      recorded[a] <= pass[q].from - Overlap,
                      Floor(q) <= pass[q].from - Overlap
               PROVE  Settles(a)'
    BY <1>1 DEF BelowCursor, Undisturbed, Grows, HasHappened, Floor
  <2> QED
    BY <1>1, SettlesGrows DEF Undisturbed, WindowsOK, BelowCursor
<1>2. ASSUME (pass[q].at = "dispatch" /\ q \notin done)' PROVE InWindow(q)'
    BY <1>2 DEF Undisturbed, WindowsOK, InWindow, Active, Grows, HasHappened, Since, Floor
<1> QED
    BY <1>1, <1>2

LEMMA GapGrows ==
    ASSUME TInv, TInv', NoSilentGap, Grows, cursor' = cursor
    PROVE  NoSilentGap'
<1> SUFFICES ASSUME NEW a \in Activities, HasHappened(a), cursor[drive[a]] # None,
                    recorded[a] <= cursor[drive[a]].last - Overlap
             PROVE  Settles(a)'
    BY DEF NoSilentGap, Settles, Grows, HasHappened
<1> QED
    BY SettlesGrows DEF NoSilentGap, Settles

LEMMA InitG == Init => GInv
BY DEF Init, GInv, LogOK, WindowsOK, NoSilentGap, Active, HasHappened, Free

LEMMA HappenG ==
    ASSUME TInv, TInv', GInv, NEW b \in Activities, Happen(b)
    PROVE  GInv'
<1> USE TimeAssumption, NullAssumption
        DEF TInv, TypeOK, Times, GInv, Happen, ghostVars, HasHappened
<1>1. /\ recorded'[b] = now
      /\ \A a \in Activities : a # b => recorded'[a] = recorded[a]
    OBVIOUS
<1>2. LogOK'
    BY <1>1 DEF LogOK
<1>3. \A a \in Activities : a # b => Settles(a)' = Settles(a)
    BY <1>1 DEF Settles
<1>4. \A q \in Passes : Active(q)' => BelowCursor(q)'
  <2> SUFFICES ASSUME NEW q \in Passes, Active(q), NEW a \in Activities,
                      recorded'[a] # None, drive[a] = pass[q].drive,
                      recorded'[a] <= pass[q].from - Overlap,
                      Floor(q) <= pass[q].from - Overlap
               PROVE  Settles(a)'
    BY DEF BelowCursor, Active, Floor
  <2>1. a # b
    BY <1>1 DEF ActiveOK
  <2> QED
    BY <1>1, <1>3, <2>1 DEF WindowsOK, BelowCursor
<1>5. \A q \in Passes : (pass[q].at = "dispatch" /\ q \notin done)' => InWindow(q)'
  <2> SUFFICES ASSUME NEW q \in Passes, pass[q].at = "dispatch", q \notin done,
                      NEW a \in Activities,
                      recorded'[a] # None, drive[a] = pass[q].drive,
                      Since(q) < recorded'[a], recorded'[a] <= pass[q].start - Overlap
               PROVE  a \in pass[q].found \cup attempted \cup lost
    BY DEF InWindow, Since, Floor
  <2>1. a # b
    BY <1>1 DEF ActiveOK, Active
  <2> QED
    BY <1>1, <2>1 DEF WindowsOK, InWindow
<1>6. NoSilentGap'
  <2> SUFFICES ASSUME NEW a \in Activities, recorded'[a] # None, cursor[drive[a]] # None,
                      recorded'[a] <= cursor[drive[a]].last - Overlap
               PROVE  Settles(a)'
    BY DEF NoSilentGap, Settles
  <2>1. a # b
    BY <1>1 DEF CursorsOK, Rows
  <2> QED
    BY <1>1, <1>3, <2>1 DEF NoSilentGap, Settles
<1> QED
    BY <1>2, <1>4, <1>5, <1>6 DEF WindowsOK

\* The other steps of the environment disturb no pass.
LEMMA OutsideG ==
    ASSUME TInv, TInv', GInv, Outside
    PROVE  GInv'
<1>1. CASE \E b \in Activities : Happen(b)
    BY <1>1, HappenG
<1>2. CASE ~\E b \in Activities : Happen(b)
  <2>1. /\ \/ Advance
           \/ now' = now /\ visible \subseteq visible'
        /\ \/ cursor' = cursor
           \/ cursor' = [d \in Drives |-> None]
        /\ \/ pass' = pass /\ done \subseteq done'
           \/ pass' = [p \in Passes |-> Free]
        /\ UNCHANGED <<drive, recorded, attempted, lost, clamp>>
    BY <1>2 DEF Outside, Advance, DeleteEventCursors, Restart, OtherAcquires, OtherReleases,
                Appear, Cancel, logVars, ghostVars
  <2>2. Grows /\ \A q \in Passes : Undisturbed(q)
    BY <2>1 DEF Grows, Undisturbed, Active, Free, TInv, TypeOK
  <2>3. LogOK'
    BY <2>1, TimeAssumption, NullAssumption
       DEF GInv, LogOK, Advance, logVars, HasHappened, TInv, TypeOK, Times
  <2>4. WindowsOK'
    BY <2>2, WindowsGrow DEF GInv, WindowsOK
  <2>5. NoSilentGap'
    BY <2>1, <2>2, GapGrows DEF GInv, NoSilentGap, TInv, TypeOK
  <2> QED
    BY <2>3, <2>4, <2>5 DEF GInv
<1> QED
    BY <1>1, <1>2

\* What the floor cuts short is noted, and nothing of it forgotten.
LEMMA NoteClampG ==
    ASSUME TInv, NEW p \in Passes, Active(p), NoteClamp(p)
    PROVE  /\ \A d \in Drives : clamp[d] <= clamp'[d]
           /\ pass[p].from - Overlap < Floor(p) => Floor(p) <= clamp'[pass[p].drive]
<1>1. Floor(p) \in Int /\ pass[p].drive \in Drives
    BY TimeAssumption DEF Floor, TInv, TypeOK, Times, ActiveOK
<1> QED
    BY <1>1 DEF NoteClamp, TInv, TypeOK

\* A drive that is over: whatever the cursor now says was settled before.
LEMMA CursorG ==
    ASSUME TInv, TInv', NoSilentGap, Grows, NEW p \in Passes, Active(p),
           NEW t \in -Lookback .. MaxTime, NEW status, Upsert(p, t, status),
           \A a \in Activities :
               HasHappened(a) /\ drive[a] = pass[p].drive /\ recorded[a] <= t - Overlap
               => Settles(a)'
    PROVE  NoSilentGap'
<1>1. CASE cursor' = cursor
    BY <1>1, GapGrows
<1>2. CASE cursor' = [cursor EXCEPT ![pass[p].drive] = Row(t, status)]
  <2> SUFFICES ASSUME NEW a \in Activities, HasHappened(a), cursor'[drive[a]] # None,
                      recorded[a] <= cursor'[drive[a]].last - Overlap
               PROVE  Settles(a)'
    BY DEF NoSilentGap, Settles, Grows, HasHappened
  <2>1. CASE drive[a] = pass[p].drive
    BY <1>2, <2>1 DEF Row, TInv, TypeOK, ActiveOK
  <2>2. CASE drive[a] # pass[p].drive
    BY <1>2, <2>2, SettlesGrows DEF NoSilentGap, Settles, TInv, TypeOK
  <2> QED
    BY <2>1, <2>2
<1> QED
    BY <1>1, <1>2 DEF Upsert

\* Below the cursor the pass read all is settled once the cut is noted.
LEMMA BelowG ==
    ASSUME TInv, TInv', WindowsOK, Grows, NEW p \in Passes, Active(p), NoteClamp(p),
           NEW a \in Activities, HasHappened(a), drive[a] = pass[p].drive,
           recorded[a] <= pass[p].from - Overlap \/ recorded[a] <= Since(p)
    PROVE  Settles(a)'
<1> USE TimeAssumption, NullAssumption DEF TInv, TypeOK, Times, HasHappened
<1>1. Floor(p) \in Int /\ pass[p].from \in Int /\ recorded[a] \in Int /\ drive[a] \in Drives
    BY DEF Floor
<1>2. CASE pass[p].from - Overlap < Floor(p)
  <2>1. Floor(p) <= clamp'[drive[a]] /\ recorded[a] <= Floor(p)
    BY <1>1, <1>2, NoteClampG DEF Since
  <2>2. recorded'[a] = recorded[a] /\ drive' = drive /\ clamp'[drive[a]] \in Int
    BY DEF Grows
  <2> QED
    BY <1>1, <2>1, <2>2 DEF Settles
<1>3. CASE Floor(p) <= pass[p].from - Overlap
  <2>1. recorded[a] <= pass[p].from - Overlap
    BY <1>1, <1>3 DEF Since
  <2>2. Settles(a)
    BY <1>3, <2>1 DEF WindowsOK, BelowCursor
  <2> QED
    BY <2>2, SettlesGrows
<1> QED
    BY <1>1, <1>2, <1>3

LEMMA PassG ==
    ASSUME TInv, TInv', GInv, NEW p \in Passes, Start(p) \/ Step(p)
    PROVE  GInv'
<1> USE TimeAssumption, NullAssumption DEF TInv, TypeOK, Times
<1>1. \A q \in Passes : q # p => Undisturbed(q)
    BY DEF Undisturbed, Active, Start, Step, Acquire, Bail, Scope, ScopeFails, PassOver,
           ReadCursor, Debounce, ReadCursorFails, Query, QueryFails, DriveOver, Dispatch,
           DispatchFails, Goto, Continue, Finish
<1>2. UNCHANGED logVars
    BY DEF Start, Step, Acquire, Bail, Scope, ScopeFails, PassOver, ReadCursor, Debounce,
           ReadCursorFails, Query, QueryFails, DriveOver, Dispatch, DispatchFails
<1>3. LogOK'
    BY <1>2 DEF GInv, LogOK, logVars, HasHappened
\* It is left to show that what is settled grows, and what the pass itself knows.
<1> DEFINE Own == /\ Active(p)' => BelowCursor(p)'
                  /\ (pass[p].at = "dispatch" /\ p \notin done)' => InWindow(p)'
<1>4. SUFFICES Grows /\ Own /\ NoSilentGap'
  <2>1. ASSUME Grows, NEW q \in Passes, q # p
        PROVE  /\ Active(q)' => BelowCursor(q)'
               /\ (pass[q].at = "dispatch" /\ q \notin done)' => InWindow(q)'
    BY <1>1, <2>1, WindowsGrow DEF GInv
  <2> QED
    BY <1>3, <2>1 DEF GInv, WindowsOK
<1> USE <1>2 DEF logVars
<1>5. CASE \/ Start(p) \/ Acquire(p) \/ Bail(p) \/ Scope(p) \/ ScopeFails(p) \/ PassOver(p)
           \/ \E d \in Drives : Debounce(p, d) \/ ReadCursorFails(p, d)
  <2>1. UNCHANGED <<cursor, attempted, lost, clamp>>
    BY <1>5 DEF Start, Acquire, Bail, Scope, ScopeFails, PassOver, Debounce, ReadCursorFails,
                ghostVars
  <2>2. pass'[p].at \in {"none", "wait", "list", "next"}
    <3>1. CASE Start(p) \/ Acquire(p)
      BY <3>1 DEF Start, Acquire, Goto
    <3>2. CASE Bail(p) \/ ScopeFails(p) \/ PassOver(p)
      BY <3>2 DEF Bail, ScopeFails, PassOver, Finish, Free
    <3>3. CASE Scope(p)
      BY <3>3 DEF Scope, Continue, Free
    <3>4. ASSUME NEW d \in Drives, Debounce(p, d) \/ ReadCursorFails(p, d)
          PROVE  pass'[p].at = "next"
      BY <3>4 DEF Debounce, ReadCursorFails, Continue, Free
    <3> QED
      BY <1>5, <3>1, <3>2, <3>3, <3>4
  <2>3. Grows
    BY <2>1 DEF Grows
  <2> QED
    BY <2>1, <2>2, <2>3, GapGrows DEF GInv, Active
<1>6. ASSUME NEW d \in Drives, ReadCursor(p, d)
      PROVE  Grows /\ Own /\ NoSilentGap'
  <2>1. Grows /\ cursor' = cursor
    BY <1>6 DEF ReadCursor, Grows
  <2>2. /\ pass'[p].at = "query" /\ pass'[p].drive = d /\ pass'[p].start = now
        /\ pass'[p].from = IF cursor[d] = None THEN now - Lookback ELSE cursor[d].last
    BY <1>6 DEF ReadCursor
  <2>3. BelowCursor(p)'
    <3> SUFFICES ASSUME NEW a \in Activities, HasHappened(a), drive[a] = d,
                        recorded[a] <= pass'[p].from - Overlap,
                        now - Lookback <= pass'[p].from - Overlap
                 PROVE  Settles(a)'
      BY <2>1, <2>2 DEF BelowCursor, Grows, Floor, HasHappened
    <3>1. cursor[d] # None
      BY <2>2
    <3>2. Settles(a)
      BY <2>2, <3>1 DEF GInv, NoSilentGap, Settles
    <3> QED
      BY <2>1, <3>2, SettlesGrows
  <2> QED
    BY <2>1, <2>2, <2>3, GapGrows DEF GInv
<1>7. CASE Query(p)
  <2>1. /\ Grows /\ cursor' = cursor /\ Active(p) /\ done' = done
        /\ pass'[p].drive = pass[p].drive /\ pass'[p].start = pass[p].start
        /\ pass'[p].from = pass[p].from /\ pass'[p].found = Answer(p)
    BY <1>7 DEF Query, ghostVars, Grows, Active
  <2>2. Since(p)' = Since(p) /\ Floor(p)' = Floor(p)
    BY <2>1 DEF Since, Floor
  <2>3. BelowCursor(p)'
    BY <2>1, <2>2, SettlesGrows DEF GInv, WindowsOK, BelowCursor, Grows, HasHappened
  <2>4. InWindow(p)'
    <3> SUFFICES ASSUME NEW a \in Activities, HasHappened(a), drive[a] = pass[p].drive,
                        Since(p) < recorded[a], recorded[a] <= pass[p].start - Overlap
                 PROVE  a \in pass'[p].found
      BY <2>1, <2>2 DEF InWindow, Grows, HasHappened
    <3>1. a \in visible
      <4>1. pass[p].start <= now /\ pass[p].start \in Int
        BY <2>1 DEF ActiveOK
      <4> QED
        BY <4>1 DEF GInv, LogOK, HasHappened
    <3> QED
      BY <2>1, <3>1 DEF Answer
  <2> QED
    BY <2>1, <2>3, <2>4, GapGrows DEF GInv
<1>8. CASE QueryFails(p)
  <2>1. ~Active(p)' /\ Active(p)
    BY <1>8 DEF QueryFails, Continue, Free, Active
  <2>2. CASE UNCHANGED <<cursor, clamp>>
    <3>1. Grows
      BY <1>8, <2>2 DEF QueryFails, Grows
    <3> QED
      BY <2>1, <2>2, <3>1, GapGrows DEF GInv, Active
  <2>3. CASE Degrade(p) /\ NoteClamp(p)
    <3>1. Grows
      BY <1>8, <2>1, <2>3, NoteClampG DEF QueryFails, Grows
    <3>2. \A a \in Activities :
            HasHappened(a) /\ drive[a] = pass[p].drive
            /\ recorded[a] <= pass[p].from - Overlap => Settles(a)'
      BY <2>1, <2>3, <3>1, BelowG DEF GInv
    <3>3. NoSilentGap'
      BY <2>1, <2>3, <3>1, <3>2, CursorG DEF GInv, Degrade
    <3> QED
      BY <2>1, <3>1, <3>3 DEF Active
  <2> QED
    BY <1>8, <2>2, <2>3 DEF QueryFails
<1>9. ASSUME NEW b \in Activities, Dispatch(p, b) \/ DispatchFails(p, b)
      PROVE  Grows /\ Own /\ NoSilentGap'
  <2>1. /\ Grows /\ cursor' = cursor /\ Active(p) /\ pass[p].at = "dispatch" /\ done' = done
        /\ pass'[p].drive = pass[p].drive /\ pass'[p].start = pass[p].start
        /\ pass'[p].from = pass[p].from /\ pass'[p].found = pass[p].found \ {b}
        /\ b \in attempted' \cup lost' \/ p \in done
    BY <1>9 DEF Dispatch, DispatchFails, Grows, Active
  <2>2. Since(p)' = Since(p) /\ Floor(p)' = Floor(p)
    BY <2>1 DEF Since, Floor
  <2>3. BelowCursor(p)'
    BY <2>1, <2>2, SettlesGrows DEF GInv, WindowsOK, BelowCursor, Grows, HasHappened
  <2>4. p \notin done => InWindow(p)'
    BY <2>1, <2>2 DEF GInv, WindowsOK, InWindow, Grows, HasHappened
  <2> QED
    BY <2>1, <2>3, <2>4, GapGrows DEF GInv
<1>10. CASE DriveOver(p)
  <2>1. ~Active(p)' /\ Active(p) /\ pass[p].at = "dispatch" /\ pass[p].found = {}
    BY <1>10 DEF DriveOver, Continue, Free, Active
  <2>2. Grows
    BY <1>10, <2>1, NoteClampG DEF DriveOver, Grows
  <2>3. CASE p \in done
    <3>1. cursor' = cursor
      BY <1>10, <2>3 DEF DriveOver, AdvanceCursor, Upsert
    <3> QED
      BY <2>1, <2>2, <3>1, GapGrows DEF GInv, Active
  <2>4. CASE p \notin done
    <3>1. ASSUME NEW a \in Activities, HasHappened(a), drive[a] = pass[p].drive,
                 recorded[a] <= pass[p].start - Overlap
          PROVE  Settles(a)'
      <4>1. CASE Since(p) < recorded[a]
        BY <2>1, <2>2, <2>4, <3>1, <4>1, SettlesGrows
           DEF GInv, WindowsOK, InWindow, Settles
      <4>2. CASE recorded[a] <= Since(p)
        BY <1>10, <2>1, <2>2, <3>1, <4>2, BelowG DEF DriveOver, GInv
      <4> QED
        BY <3>1, <4>1, <4>2 DEF Since, Floor, HasHappened
    <3>2. NoSilentGap'
      BY <1>10, <2>1, <2>2, <3>1, CursorG DEF GInv, DriveOver, AdvanceCursor
    <3> QED
      BY <2>1, <2>2, <3>2 DEF Active
  <2> QED
    BY <2>3, <2>4
<1> QED
    BY <1>5, <1>6, <1>7, <1>8, <1>9, <1>10 DEF Step

LEMMA StutterG == GInv /\ UNCHANGED vars => GInv'
BY DEF GInv, LogOK, WindowsOK, NoSilentGap, BelowCursor, InWindow, Since, Floor, Settles,
       HasHappened, Active, vars

LEMMA StepG == TInv /\ TInv' /\ GInv /\ [Next]_vars => GInv'
BY OutsideG, PassG, StutterG DEF Next

\* What a cursor has moved past was handled, or given up as the code documents
\* (NoSilentGap): for every overlap longer than the lag of the activity log and
\* any number of passes that overlap, fail and are cancelled
\* (reconciler.go:220-247).
THEOREM NoSilentGapAlways == Spec => []NoSilentGap
<1>1. Spec => []TInv
    BY TInvariance
<1>2. Spec => []GInv
    BY <1>1, InitG, StepG, PTL DEF Spec
<1> QED
    BY <1>2, PTL DEF GInv
-----------------------------------------------------------------------------
(* What is dispatched twice.                                               *)

\* A drive two passes are at is known as one.
Alone ==
    \A p, q \in Passes :
        Active(p) /\ Active(q) /\ p # q /\ pass[p].drive = pass[q].drive
        => pass[p].drive \in overlapped

\* What a pass found and handled happened in its drive after the query's floor.
FoundOK ==
    \A p \in Passes : Active(p) =>
        /\ \A a \in pass[p].found \cup pass[p].handled :
              HasHappened(a) /\ drive[a] = pass[p].drive
        /\ \A a \in pass[p].found : Since(p) < recorded[a]

\* What is settled on any other drive lies below its cursor ...
SettledOK ==
    \A a \in settled :
        /\ HasHappened(a)
        /\ drive[a] \notin overlapped =>
              /\ cursor[drive[a]] # None
              /\ recorded[a] <= cursor[drive[a]].last - Overlap

\* ... and below the cursor that the one pass there read.
SettledBelow ==
    \A p \in Passes, a \in settled :
        Active(p) /\ drive[a] = pass[p].drive /\ drive[a] \notin overlapped
        => recorded[a] <= pass[p].from - Overlap

DInv ==
    /\ \A a \in visible : HasHappened(a)
    /\ Alone /\ FoundOK /\ SettledOK /\ SettledBelow /\ DuplicatesNeedOverlap

LEMMA InitD == Init => DInv
BY DEF Init, DInv, Alone, FoundOK, SettledOK, SettledBelow, DuplicatesNeedOverlap, Active, Free

LEMMA OutsideD ==
    ASSUME TInv, TInv', DInv, Outside
    PROVE  DInv'
<1> USE NullAssumption DEF TInv, TypeOK, Times, DInv, logVars, ghostVars, HasHappened
<1>1. ASSUME NEW b \in Activities, Happen(b)
      PROVE  DInv'
  <2>1. /\ UNCHANGED <<drive, visible, cursor, pass, done, ghostVars>>
        /\ recorded[b] = None /\ recorded'[b] # None
        /\ \A a \in Activities : a # b => recorded'[a] = recorded[a]
    BY <1>1 DEF Happen
  <2>2. \A a \in Activities : recorded[a] # None => recorded'[a] = recorded[a]
    BY <2>1
  <2>3. (\A a \in visible : HasHappened(a))' /\ Alone' /\ DuplicatesNeedOverlap'
    BY <2>1, <2>2 DEF Alone, DuplicatesNeedOverlap, Active
  <2>4. FoundOK'
    BY <2>1, <2>2 DEF FoundOK, Active, Since, Floor
  <2>5. SettledOK' /\ SettledBelow'
    BY <2>1, <2>2 DEF SettledOK, SettledBelow, Active
  <2> QED
    BY <2>3, <2>4, <2>5
<1>2. CASE DeleteEventCursors
    BY <1>2 DEF DeleteEventCursors, Alone, FoundOK, SettledOK, SettledBelow,
                DuplicatesNeedOverlap, Active, Since, Floor
<1>3. CASE ~DeleteEventCursors /\ ~\E b \in Activities : Happen(b)
  <2>1. /\ UNCHANGED <<drive, recorded, cursor, settled, overlapped, refired>>
        /\ \/ pass' = pass
           \/ pass' = [p \in Passes |-> Free]
        /\ \A a \in visible' : HasHappened(a)
    BY <1>3 DEF Outside, Advance, Restart, OtherAcquires, OtherReleases, Appear, Cancel
  <2>2. Alone' /\ DuplicatesNeedOverlap' /\ SettledOK' /\ SettledBelow'
    BY <2>1 DEF Alone, DuplicatesNeedOverlap, SettledOK, SettledBelow, Active, Free
  <2>3. FoundOK'
    BY <2>1 DEF FoundOK, Active, Free, Since, Floor
  <2> QED
    BY <2>1, <2>2, <2>3
<1> QED
    BY <1>1, <1>2, <1>3

\* A pass that is not in the middle of a drive after its step leaves what the
\* others know alone, unless it wrote a cursor.
LEMMA LeavesD ==
    ASSUME TInv, TInv', DInv, NEW p \in Passes, ~Active(p)',
           \A q \in Passes \ {p} : pass'[q] = pass[q],
           UNCHANGED <<drive, recorded, visible, overlapped, refired, settled, cursor>>
    PROVE  DInv'
<1>1. Alone' /\ SettledBelow'
    BY DEF DInv, Alone, SettledBelow, Active
<1>2. FoundOK'
    BY DEF DInv, FoundOK, Active, Since, Floor, HasHappened
<1> QED
    BY <1>1, <1>2 DEF DInv, SettledOK, DuplicatesNeedOverlap, HasHappened

\* A pass that writes the cursor of its drive: nothing there moves back over
\* what is settled, unless another pass is at the drive.
LEMMA WritesD ==
    ASSUME TInv, TInv', DInv, NEW p \in Passes, ~Active(p)', Active(p),
           \A q \in Passes \ {p} : pass'[q] = pass[q],
           UNCHANGED <<drive, recorded, visible, overlapped, refired>>,
           NEW t \in -Lookback .. MaxTime, NEW status \in {"full", "sse-only"},
           pass[p].from <= t,
           cursor' = [cursor EXCEPT ![pass[p].drive] = Row(t, status)],
           settled \subseteq settled',
           \A a \in settled' \ settled :
               /\ a \in pass[p].handled
               /\ recorded[a] <= t - Overlap
    PROVE  DInv'
<1> USE TimeAssumption, NullAssumption DEF TInv, TypeOK, Times, HasHappened
<1>1. pass[p].drive \in Drives /\ pass[p].from \in Int /\ cursor'[pass[p].drive] # None
    BY DEF ActiveOK, Row, Rows
<1>2. Alone'
    BY DEF DInv, Alone, Active
<1>3. FoundOK'
    BY DEF DInv, FoundOK, Active, Since, Floor
<1>4. SettledOK'
  <2> SUFFICES ASSUME NEW a \in settled'
               PROVE  /\ recorded[a] # None
                      /\ drive[a] \notin overlapped =>
                            /\ cursor'[drive[a]] # None
                            /\ recorded[a] <= cursor'[drive[a]].last - Overlap
    BY DEF SettledOK
  <2>1. CASE a \notin settled
    BY <1>1, <2>1 DEF DInv, FoundOK, Row
  <2>2. CASE a \in settled /\ drive[a] = pass[p].drive
    BY <1>1, <2>2 DEF DInv, SettledOK, SettledBelow, Row
  <2>3. CASE a \in settled /\ drive[a] # pass[p].drive
    BY <2>3 DEF DInv, SettledOK
  <2> QED
    BY <2>1, <2>2, <2>3
<1>5. SettledBelow'
  <2> SUFFICES ASSUME NEW q \in Passes, q # p, Active(q), NEW a \in settled',
                      drive[a] = pass[q].drive, drive[a] \notin overlapped
               PROVE  recorded[a] <= pass[q].from - Overlap
    BY DEF SettledBelow, Active
  <2>1. pass[q].drive # pass[p].drive
    BY DEF DInv, Alone
  <2>2. a \in settled
    BY <2>1 DEF DInv, FoundOK
  <2> QED
    BY <2>2 DEF DInv, SettledBelow
<1> QED
    BY <1>2, <1>3, <1>4, <1>5 DEF DInv, DuplicatesNeedOverlap

LEMMA ReadCursorD ==
    ASSUME TInv, TInv', DInv, NEW p \in Passes, NEW d \in Drives, ReadCursor(p, d)
    PROVE  DInv'
<1> USE TimeAssumption, NullAssumption DEF TInv, TypeOK, Times, HasHappened
<1>1. /\ UNCHANGED <<drive, recorded, visible, cursor, settled, refired>>
      /\ overlapped' = IF \E q \in Passes : At(q, d) THEN overlapped \cup {d}
                       ELSE overlapped
      /\ \A q \in Passes \ {p} : pass'[q] = pass[q]
    BY DEF ReadCursor, logVars
<1>2. /\ ~Active(p) /\ pass'[p].drive = d /\ pass'[p].found = {} /\ pass'[p].handled = {}
      /\ pass'[p].from = IF cursor[d] = None THEN now - Lookback ELSE cursor[d].last
    BY DEF ReadCursor, Active
<1>3. Alone'
    BY <1>1, <1>2 DEF DInv, Alone, Active, At
<1>4. FoundOK'
    BY <1>1, <1>2 DEF DInv, FoundOK, Active, Since, Floor
<1>5. SettledOK' /\ SettledBelow'
    BY <1>1, <1>2 DEF DInv, SettledOK, SettledBelow, Active
<1> QED
    BY <1>1, <1>3, <1>4, <1>5 DEF DInv, DuplicatesNeedOverlap

LEMMA WorkD ==
    ASSUME TInv, TInv', DInv, NEW p \in Passes,
           Query(p) \/ \E a \in Activities : Dispatch(p, a) \/ DispatchFails(p, a)
    PROVE  DInv'
<1> USE TimeAssumption, NullAssumption DEF TInv, TypeOK, Times, HasHappened
<1>1. UNCHANGED <<drive, recorded, visible, cursor, settled, overlapped>>
    BY DEF Query, Dispatch, DispatchFails, logVars, ghostVars
<1> DEFINE Working == /\ Active(p) /\ \A q \in Passes \ {p} : pass'[q] = pass[q]
                      /\ pass'[p].drive = pass[p].drive
                      /\ pass'[p].from = pass[p].from
                      /\ pass'[p].start = pass[p].start
<1>2. Working
  <2>1. CASE Query(p)
    BY <2>1 DEF Query, Active
  <2>2. ASSUME NEW a \in Activities, Dispatch(p, a) PROVE Working
    <3>1. pass' = [pass EXCEPT ![p] = [pass[p] EXCEPT !.found = pass[p].found \ {a},
                                                     !.handled = pass[p].handled \cup {a}]]
      BY <2>2 DEF Dispatch
    <3>2. Active(p)
      BY <2>2 DEF Dispatch, Active
    <3> QED
      BY <3>1, <3>2
  <2>3. ASSUME NEW a \in Activities, DispatchFails(p, a) PROVE Working
    BY <2>3 DEF DispatchFails, Active
  <2> QED
    BY <2>1, <2>2, <2>3
<1>3. \A q \in Passes : Since(q)' = Since(q)
    BY <1>2 DEF Since, Floor
<1>4. Alone' /\ SettledOK' /\ SettledBelow'
    BY <1>1, <1>2 DEF DInv, Alone, SettledOK, SettledBelow, Active
<1>5. CASE Query(p)
  <2>1. Since(p) \in Int
    BY DEF Since, Floor
  <2>2. \A a \in Answer(p) : HasHappened(a) /\ drive[a] = pass[p].drive /\ Since(p) < recorded[a]
    BY <2>1 DEF DInv, Answer
  <2>3. pass'[p].found = Answer(p) /\ pass'[p].handled = pass[p].handled
    BY <1>5 DEF Query
  <2>4. FoundOK'
    BY <1>1, <1>2, <1>3, <2>2, <2>3 DEF DInv, FoundOK, Active
  <2>5. refired' = refired
    BY <1>5 DEF Query, ghostVars
  <2> QED
    BY <1>1, <1>4, <2>4, <2>5 DEF DInv, DuplicatesNeedOverlap
<1>6. ASSUME NEW b \in Activities, Dispatch(p, b) \/ DispatchFails(p, b)
      PROVE  DInv'
  <2>1. /\ b \in pass[p].found /\ pass'[p].found = pass[p].found \ {b}
        /\ pass'[p].handled \subseteq pass[p].handled \cup {b}
        /\ refired' \subseteq refired \cup ({b} \cap settled)
    BY <1>6 DEF Dispatch, DispatchFails
  <2>2. FoundOK'
    BY <1>1, <1>2, <1>3, <2>1 DEF DInv, FoundOK, Active
  <2>3. b \in settled => drive[b] \in overlapped
    <3>1. Floor(p) \in Int /\ pass[p].from - Overlap <= Since(p) /\ Since(p) \in Int
      BY DEF Since, Floor
    <3> QED
      BY <1>2, <2>1, <3>1 DEF DInv, FoundOK, SettledBelow
  <2>4. DuplicatesNeedOverlap'
    BY <1>1, <2>1, <2>3 DEF DInv, DuplicatesNeedOverlap
  <2> QED
    BY <1>1, <1>4, <2>2, <2>4 DEF DInv
<1> QED
    BY <1>5, <1>6

LEMMA PassD ==
    ASSUME TInv, TInv', DInv, NEW p \in Passes, Start(p) \/ Step(p)
    PROVE  DInv'
<1> USE TimeAssumption, NullAssumption DEF TInv, TypeOK, Times
<1>1. CASE \/ Start(p) \/ Acquire(p) \/ Bail(p) \/ ScopeFails(p) \/ PassOver(p)
  <2>1. ~Active(p)' /\ \A q \in Passes \ {p} : pass'[q] = pass[q]
    BY <1>1 DEF Start, Acquire, Bail, ScopeFails, PassOver, Goto, Finish, Free, Active
  <2>2. UNCHANGED <<drive, recorded, visible, overlapped, refired, settled, cursor>>
    BY <1>1 DEF Start, Acquire, Bail, ScopeFails, PassOver, logVars, ghostVars
  <2> QED
    BY <2>1, <2>2, LeavesD
<1>2. CASE Scope(p) \/ \E d \in Drives : Debounce(p, d) \/ ReadCursorFails(p, d)
  <2>1. PICK left \in SUBSET Drives : Continue(p, left)
    BY <1>2 DEF Scope, Debounce, ReadCursorFails
  <2>2. ~Active(p)' /\ \A q \in Passes \ {p} : pass'[q] = pass[q]
    BY <2>1 DEF Continue, Free, Active
  <2>3. UNCHANGED <<drive, recorded, visible, overlapped, refired, settled, cursor>>
    BY <1>2 DEF Scope, Debounce, ReadCursorFails, logVars, ghostVars
  <2> QED
    BY <2>2, <2>3, LeavesD
<1>3. ASSUME NEW d \in Drives, ReadCursor(p, d)
      PROVE  DInv'
    BY <1>3, ReadCursorD
<1>4. CASE Query(p) \/ \E a \in Activities : Dispatch(p, a) \/ DispatchFails(p, a)
    BY <1>4, WorkD
<1>5. CASE QueryFails(p)
  <2>1. /\ ~Active(p)' /\ Active(p) /\ \A q \in Passes \ {p} : pass'[q] = pass[q]
        /\ UNCHANGED <<drive, recorded, visible, overlapped, refired, settled>>
    BY <1>5 DEF QueryFails, Continue, Free, Active, logVars
  <2>2. CASE cursor' = cursor
    BY <2>1, <2>2, LeavesD
  <2>3. CASE cursor' = [cursor EXCEPT ![pass[p].drive] = Row(pass[p].from, "sse-only")]
    <3>1. pass[p].from \in -Lookback .. MaxTime /\ pass[p].from <= pass[p].from
      OBVIOUS
    <3>2. settled' = settled
      BY <2>1
    <3> QED
      BY <2>1, <2>3, <3>1, <3>2, WritesD
  <2> QED
    BY <1>5, <2>2, <2>3 DEF QueryFails, Degrade, Upsert
<1>6. CASE DriveOver(p)
  <2>1. /\ ~Active(p)' /\ Active(p) /\ \A q \in Passes \ {p} : pass'[q] = pass[q]
        /\ UNCHANGED <<drive, recorded, visible, overlapped, refired>>
    BY <1>6 DEF DriveOver, Continue, Free, Active, logVars
  <2>2. CASE cursor' = cursor
    BY <1>6, <2>1, <2>2, LeavesD DEF DriveOver
  <2>3. CASE /\ cursor' = [cursor EXCEPT ![pass[p].drive] = Row(pass[p].start, "full")]
             /\ cursor' # cursor
    <3>1. settled' = settled \cup
            {a \in pass[p].handled : recorded[a] <= pass[p].start - Overlap}
      BY <1>6, <2>3 DEF DriveOver
    <3>2. pass[p].start \in -Lookback .. MaxTime /\ pass[p].from <= pass[p].start
      BY <2>1 DEF ActiveOK
    <3>3. /\ settled \subseteq settled'
          /\ \A a \in settled' \ settled :
               a \in pass[p].handled /\ recorded[a] <= pass[p].start - Overlap
      BY <3>1
    <3> QED
      BY <2>1, <2>3, <3>2, <3>3, WritesD
  <2> QED
    BY <1>6, <2>2, <2>3 DEF DriveOver, AdvanceCursor, Upsert
<1> QED
    BY <1>1, <1>2, <1>3, <1>4, <1>5, <1>6 DEF Step

LEMMA StutterD == DInv /\ UNCHANGED vars => DInv'
BY DEF DInv, Alone, FoundOK, SettledOK, SettledBelow, DuplicatesNeedOverlap, Active, Since,
       Floor, HasHappened, vars

LEMMA StepD == TInv /\ TInv' /\ DInv /\ [Next]_vars => DInv'
BY OutsideD, PassD, StutterD DEF Next

\* An activity runs again after its drive's cursor has moved past it only where
\* two passes of the user overlapped on the drive (DuplicatesNeedOverlap): this
\* is how far "the durable per-drive cursor prevents duplicate dispatch"
\* (reconciler.go:116-118) goes, for every overlap, lookback and grace period.
THEOREM DuplicatesNeedOverlapAlways == Spec => []DuplicatesNeedOverlap
<1>1. Spec => []TInv
    BY TInvariance
<1>2. Spec => []DInv
    BY <1>1, InitD, StepD, PTL DEF Spec
<1> QED
    BY <1>2, PTL DEF DInv
-----------------------------------------------------------------------------
(* Which way cursors move.                                                 *)

\* A drive's cursor moves back only if two passes were at the drive together.
OnlyForward ==
    \A d \in Drives :
        /\ cursor[d] # None /\ cursor'[d] # None
        /\ cursor'[d].last < cursor[d].last
        => d \in overlapped

\* A pass that is alone at a drive finds the cursor where it read it, or gone.
ReadStill ==
    \A p \in Passes :
        /\ Active(p) /\ pass[p].drive \notin overlapped
        /\ cursor[pass[p].drive] # None
        => cursor[pass[p].drive].last <= pass[p].from

\* What a pass may do to the passes and the cursors.
LEMMA PassMoves ==
    ASSUME TInv, NEW p \in Passes, Start(p) \/ Step(p)
    PROVE  /\ \A q \in Passes \ {p} : pass'[q] = pass[q]
           /\ \/ cursor' = cursor /\ ~Active(p)'
              \/ /\ cursor' = cursor /\ Active(p)
                 /\ pass'[p].drive = pass[p].drive /\ pass'[p].from = pass[p].from
              \/ cursor' = cursor /\ \E d \in Drives : ReadCursor(p, d)
              \/ /\ Active(p) /\ ~Active(p)'
                 /\ \E t \in pass[p].from .. MaxTime, status \in {"full", "sse-only"} :
                        cursor' = [cursor EXCEPT ![pass[p].drive] = Row(t, status)]
           /\ overlapped \subseteq overlapped'
<1> USE TimeAssumption DEF TInv, TypeOK, Times, ghostVars
<1>1. CASE Start(p) \/ Acquire(p) \/ Bail(p) \/ ScopeFails(p) \/ PassOver(p)
    BY <1>1 DEF Start, Acquire, Bail, ScopeFails, PassOver, Goto, Finish, Free, Active
<1>2. CASE Scope(p) \/ \E d \in Drives : Debounce(p, d) \/ ReadCursorFails(p, d)
    BY <1>2 DEF Scope, Debounce, ReadCursorFails, Continue, Free, Active
<1>3. ASSUME NEW d \in Drives, ReadCursor(p, d) PROVE
        /\ \A q \in Passes \ {p} : pass'[q] = pass[q]
        /\ cursor' = cursor
        /\ overlapped \subseteq overlapped'
    BY <1>3 DEF ReadCursor
<1>4. CASE Query(p) \/ \E a \in Activities : Dispatch(p, a) \/ DispatchFails(p, a)
  <2>1. Active(p) /\ UNCHANGED <<cursor, overlapped>>
    BY <1>4 DEF Query, Dispatch, DispatchFails, Active
  <2>2. CASE Query(p)
    BY <2>1, <2>2 DEF Query
  <2>3. ASSUME NEW a \in Activities, Dispatch(p, a) \/ DispatchFails(p, a)
        PROVE  /\ \A q \in Passes \ {p} : pass'[q] = pass[q]
               /\ pass'[p].drive = pass[p].drive /\ pass'[p].from = pass[p].from
    BY <2>3 DEF Dispatch, DispatchFails
  <2> QED
    BY <1>4, <2>1, <2>2, <2>3
<1>5. CASE QueryFails(p)
  <2>1. /\ Active(p) /\ ~Active(p)' /\ overlapped' = overlapped
        /\ \A q \in Passes \ {p} : pass'[q] = pass[q]
    BY <1>5 DEF QueryFails, Continue, Free, Active
  <2>2. \/ cursor' = cursor
        \/ cursor' = [cursor EXCEPT ![pass[p].drive] = Row(pass[p].from, "sse-only")]
    BY <1>5 DEF QueryFails, Degrade, Upsert
  <2>3. pass[p].from \in pass[p].from .. MaxTime
    OBVIOUS
  <2> QED
    BY <2>1, <2>2, <2>3
<1>6. CASE DriveOver(p)
  <2>1. /\ Active(p) /\ ~Active(p)' /\ overlapped' = overlapped
        /\ \A q \in Passes \ {p} : pass'[q] = pass[q]
    BY <1>6 DEF DriveOver, Continue, Free, Active
  <2>2. \/ cursor' = cursor
        \/ cursor' = [cursor EXCEPT ![pass[p].drive] = Row(pass[p].start, "full")]
    BY <1>6 DEF DriveOver, AdvanceCursor, Upsert
  <2>3. pass[p].start \in pass[p].from .. MaxTime
    BY <2>1 DEF ActiveOK
  <2> QED
    BY <2>1, <2>2, <2>3
<1> QED
    BY <1>1, <1>2, <1>3, <1>4, <1>5, <1>6 DEF Step

LEMMA SameCursors ==
    ASSUME TInv, \A d \in Drives : cursor'[d] \in {cursor[d], None}
    PROVE  OnlyForward
<1>1. \A d \in Drives : cursor[d] # None => cursor[d].last \in Int
    BY DEF TInv, TypeOK, Rows
<1> QED
    BY <1>1 DEF OnlyForward

LEMMA PassStill ==
    ASSUME TInv, TInv', DInv, ReadStill, NEW p \in Passes, Start(p) \/ Step(p)
    PROVE  ReadStill' /\ OnlyForward
<1> USE TimeAssumption, NullAssumption DEF TInv, TypeOK, Times
<1>1. /\ \A q \in Passes \ {p} : pass'[q] = pass[q]
      /\ overlapped \subseteq overlapped'
    BY PassMoves
<1>2. CASE cursor' = cursor /\ ~Active(p)'
    BY <1>1, <1>2, SameCursors DEF ReadStill, Active
<1>3. CASE /\ cursor' = cursor /\ Active(p)
           /\ pass'[p].drive = pass[p].drive /\ pass'[p].from = pass[p].from
  <2>1. \A q \in Passes : Active(q)' =>
          Active(q) /\ pass'[q].drive = pass[q].drive /\ pass'[q].from = pass[q].from
    BY <1>1, <1>3 DEF Active
  <2> QED
    BY <1>1, <1>3, <2>1, SameCursors DEF ReadStill
<1>4. ASSUME NEW d \in Drives, ReadCursor(p, d), cursor' = cursor
      PROVE  ReadStill' /\ OnlyForward
  <2>1. /\ pass'[p].drive = d
        /\ pass'[p].from = IF cursor[d] = None THEN now - Lookback ELSE cursor[d].last
    BY <1>4 DEF ReadCursor
  <2> QED
    BY <1>1, <1>4, <2>1, SameCursors DEF ReadStill, Active, Rows
<1>5. ASSUME Active(p), ~Active(p)', NEW t \in pass[p].from .. MaxTime,
             NEW status \in {"full", "sse-only"},
             cursor' = [cursor EXCEPT ![pass[p].drive] = Row(t, status)]
      PROVE  ReadStill' /\ OnlyForward
  <2>1. pass[p].drive \in Drives
    BY <1>5 DEF ActiveOK
  <2>2. OnlyForward
    <3>1. \A d \in Drives : cursor[d] # None => cursor[d].last \in Int
      BY DEF Rows
    <3>2. pass[p].from \in Int /\ t \in Int /\ pass[p].from <= t
      OBVIOUS
    <3>3. /\ \A d \in Drives : d # pass[p].drive => cursor'[d] = cursor[d]
          /\ cursor'[pass[p].drive].last = t
      BY <1>5, <2>1 DEF Row
    <3>4. /\ cursor[pass[p].drive] # None /\ pass[p].drive \notin overlapped
          => cursor[pass[p].drive].last <= pass[p].from
      BY <1>5 DEF ReadStill
    <3> QED
      BY <2>1, <3>1, <3>2, <3>3, <3>4 DEF OnlyForward
  <2>3. ASSUME NEW q \in Passes, Active(q)', pass'[q].drive \notin overlapped'
        PROVE  cursor'[pass'[q].drive] = cursor[pass'[q].drive]
    <3>1. q # p /\ Active(q) /\ pass'[q] = pass[q]
      BY <1>1, <1>5, <2>3 DEF Active
    <3>2. pass[q].drive # pass[p].drive
      BY <1>1, <1>5, <2>3, <3>1 DEF DInv, Alone
    <3> QED
      BY <1>5, <3>1, <3>2 DEF ActiveOK
  <2>4. ReadStill'
    BY <1>1, <1>5, <2>3 DEF ReadStill, Active
  <2> QED
    BY <2>2, <2>4
<1> QED
  BY <1>2, <1>3, <1>4, <1>5, PassMoves

LEMMA OutsideStill ==
    ASSUME TInv, ReadStill, Outside
    PROVE  ReadStill' /\ OnlyForward
<1>1. CASE DeleteEventCursors \/ Restart
  <2>1. \A d \in Drives : cursor'[d] \in {cursor[d], None}
    BY <1>1 DEF DeleteEventCursors, Restart
  <2>2. ASSUME NEW p \in Passes, Active(p)'
        PROVE  Active(p) /\ pass'[p] = pass[p] /\ cursor' = [d \in Drives |-> None]
    BY <1>1, <2>2 DEF DeleteEventCursors, Restart, Free, Active
  <2>3. ReadStill'
    BY <2>2 DEF ReadStill, TInv, ActiveOK
  <2> QED
    BY <2>1, <2>3, SameCursors
<1>2. CASE ~DeleteEventCursors /\ ~Restart
  <2>1. UNCHANGED <<cursor, pass, overlapped>>
    BY <1>2 DEF Outside, Advance, OtherAcquires, OtherReleases, Happen, Appear, Cancel,
                logVars, ghostVars
  <2> QED
    BY <2>1, SameCursors DEF ReadStill, Active
<1> QED
    BY <1>1, <1>2

\* reconciler.go:284 and 299 write the cursor without looking at it again.  Even
\* so it moves back only on a drive two passes of the user were at together:
\* failures, cancellations, deletions and restarts never take it back.
THEOREM OnlyForwardAlways == Spec => [][OnlyForward]_vars
<1>1. Init => ReadStill
    BY DEF Init, ReadStill, Active, Free
<1>2. TInv /\ TInv' /\ DInv /\ ReadStill /\ [Next]_vars
          => ReadStill' /\ [OnlyForward]_vars
  <2>1. UNCHANGED vars /\ ReadStill => ReadStill'
    BY DEF vars, ReadStill, Active
  <2> QED
    BY <2>1, OutsideStill, PassStill DEF Next
<1>3. Spec => []TInv
    BY TInvariance
<1>4. Spec => []DInv
    BY <1>3, InitD, StepD, PTL DEF Spec
<1> QED
    BY <1>1, <1>2, <1>3, <1>4, PTL DEF Spec
=============================================================================
