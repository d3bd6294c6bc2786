-------------------------- MODULE SchedulerProofs --------------------------
(***************************************************************************)
(* Proofs about Scheduler for every set of workflows and every schedule:   *)
(* no instant is fired for twice, and none from before the process was up. *)
(***************************************************************************)
EXTENDS Scheduler, TLAPS

\* A workflow's last run lies in the life of this process.
LastRunInLife ==
    /\ boot <= now
    /\ \A w \in Workflows :
           lastRun[w] # None => boot <= lastRun[w] /\ lastRun[w] <= now

\* The stretch of time a run stands for is over by the last run of its workflow.
FiredBehindLastRun ==
    \A f \in fired :
        /\ f.from < f.to /\ f.to <= now
        /\ lastRun[f.wf] # None => f.to <= lastRun[f.wf]

IInv == TypeOK /\ LastRunInLife /\ FiredBehindLastRun
            /\ NoDoubleFire /\ NothingFromBeforeBoot

\* The baseline of a workflow that is looked at is a time.
LEMMA BaselineType ==
    ASSUME TypeOK, NEW w \in Workflows
    PROVE  Baseline(w) \in Times
BY TimeAssumption DEF TypeOK, Baseline, Times

\* What is due has run before in this process: a first sight is never due.
LEMMA DueHasLastRun ==
    ASSUME TypeOK, NEW w \in Seen, Due(w)
    PROVE  /\ lastRun[w] # None
           /\ Baseline(w) = lastRun[w]
           /\ lastRun[w] < now
           /\ \E t \in Occurs[index[w]] : lastRun[w] < t /\ t <= now
<1>1. PICK t \in Occurs[index[w]] : Baseline(w) < t /\ t <= now
    BY DEF Due
<1>2. t \in Nat
    BY ScheduleAssumption DEF Seen, Parses
<1>3. now \in Nat /\ Baseline(w) \in Nat
    BY BaselineType, TimeAssumption DEF TypeOK, Times, Seen
<1>4. lastRun[w] # None
    BY <1>1, <1>2, <1>3 DEF Baseline
<1> QED BY <1>1, <1>2, <1>3, <1>4 DEF Baseline

LEMMA InitInv == Init => IInv
<1> SUFFICES ASSUME Init PROVE IInv
    OBVIOUS
<1> QED
    BY TimeAssumption
    DEF Init, IInv, TypeOK, LastRunInLife, FiredBehindLastRun, NoDoubleFire,
        NothingFromBeforeBoot, Times

\* A tick keeps the types.
LEMMA TickType ==
    ASSUME TypeOK, Tick
    PROVE  TypeOK'
<1> DEFINE due == {w \in Seen : Due(w)}
<1>1. \A w \in Workflows : Baseline(w) \in Times
    BY BaselineType
<1>2. lastRun' \in [Workflows -> Times \cup {None}]
    BY <1>1 DEF Tick, NextLastRun, TypeOK
<1>3. runs' \subseteq Run
    BY DEF Tick, TypeOK, Run, Seen
<1>4. ASSUME NEW w \in due
      PROVE  Window(w) \in [wf : Workflows, schedule : Schedules, from : Times,
                            to : Times, since : Times]
    BY <1>1, <1>4 DEF Window, Seen, TypeOK
<1>5. fired' \subseteq [wf : Workflows, schedule : Schedules, from : Times,
                        to : Times, since : Times]
    BY <1>4 DEF Tick, TypeOK
<1> QED BY <1>2, <1>3, <1>5 DEF Tick, TypeOK, worldVars

\* A run keeps the types.
LEMMA RunType ==
    ASSUME TypeOK, NEW run \in runs,
           GetAutomation(run) \/ Load(run) \/ Execute(run)
    PROVE  TypeOK'
<1>1. run \in Run
    BY DEF TypeOK
<1>2. \A stage \in {"load", "execute"} : [run EXCEPT !.at = stage] \in Run
    BY <1>1 DEF Run
<1>3. runs' \subseteq Run
    BY <1>2 DEF TypeOK, GetAutomation, Load, Execute, Move, End
<1> QED BY <1>3 DEF TypeOK, GetAutomation, Load, Execute, worldVars

LEMMA TypeStep ==
    ASSUME TypeOK, Next
    PROVE  TypeOK'
<1>1. CASE Advance
    BY <1>1, TimeAssumption DEF Advance, TypeOK, worldVars, Times, Run
<1>2. CASE Connection
    BY <1>2 DEF Connection, TypeOK
<1>3. CASE Restart
    BY <1>3 DEF Restart, TypeOK, worldVars
<1>4. CASE Tick
    BY <1>4, TickType
<1>5. CASE TickFails
    BY <1>5 DEF TickFails, TypeOK, vars
<1>6. ASSUME NEW w \in Workflows, Edit(w) PROVE TypeOK'
    BY <1>6 DEF Edit, TypeOK
<1>7. ASSUME NEW w \in Workflows, Reindex(w) PROVE TypeOK'
    BY <1>7 DEF Reindex, TypeOK
<1> QED BY <1>1, <1>2, <1>3, <1>4, <1>5, <1>6, <1>7, RunType DEF Next

\* Steps that leave the last runs, the process and the fired runs alone, while
\* time does not run backwards.
LEMMA QuietStep ==
    ASSUME IInv, TypeOK', now <= now', UNCHANGED <<lastRun, boot, fired>>
    PROVE  LastRunInLife' /\ FiredBehindLastRun' /\ NoDoubleFire'
             /\ NothingFromBeforeBoot'
<1> USE TimeAssumption DEF IInv, TypeOK, Times
<1>1. LastRunInLife'
    BY ScheduleAssumption DEF LastRunInLife
<1>2. FiredBehindLastRun'
    BY DEF FiredBehindLastRun
<1> QED BY <1>1, <1>2 DEF NoDoubleFire, NothingFromBeforeBoot

LEMMA RestartStep ==
    ASSUME IInv, TypeOK', Restart
    PROVE  LastRunInLife' /\ FiredBehindLastRun' /\ NoDoubleFire'
             /\ NothingFromBeforeBoot'
<1> USE TimeAssumption DEF IInv, TypeOK, Times, Restart
<1>1. LastRunInLife'
    BY DEF LastRunInLife
<1>2. FiredBehindLastRun'
    BY DEF FiredBehindLastRun
<1>3. NoDoubleFire'
    BY DEF NoDoubleFire
<1>4. NothingFromBeforeBoot'
    BY DEF FiredBehindLastRun, NothingFromBeforeBoot
<1> QED BY <1>1, <1>2, <1>3, <1>4

\* The step that fires.  A new run's stretch begins at the last run of its
\* workflow, where every earlier one has ended.
LEMMA TickStep ==
    ASSUME IInv, TypeOK', Tick
    PROVE  LastRunInLife' /\ FiredBehindLastRun' /\ NoDoubleFire'
             /\ NothingFromBeforeBoot'
<1> DEFINE due == {w \in Seen : Due(w)}
<1>0. TypeOK /\ now \in Nat /\ boot \in Nat /\ now' = now /\ boot' = boot
    BY TimeAssumption DEF IInv, TypeOK, Times, Tick
<1>1. \A w \in Workflows : lastRun'[w] \in {lastRun[w], now}
    BY DEF Tick, NextLastRun, Baseline
<1>2. \A w \in Workflows : lastRun[w] # None => lastRun[w] \in Nat
    BY <1>0, TimeAssumption DEF TypeOK, Times
<1>3. \A w \in due :
        /\ Window(w).wf = w /\ Window(w).schedule = index[w]
        /\ Window(w).from = lastRun[w] /\ Window(w).to = now
        /\ lastRun[w] # None /\ lastRun[w] < now /\ lastRun'[w] = now
        /\ \E t \in Occurs[index[w]] : lastRun[w] < t /\ t <= now
    BY <1>0, DueHasLastRun DEF Window, Tick, NextLastRun, Seen
<1>4. fired' = fired \cup {Window(w) : w \in due}
    BY DEF Tick
<1>5. \A f \in fired : f.wf \in Workflows /\ f.from \in Nat /\ f.to \in Nat
    BY <1>0, TimeAssumption DEF TypeOK, Times
<1>6. LastRunInLife'
    BY <1>0, <1>1, <1>2 DEF IInv, LastRunInLife
<1>7. FiredBehindLastRun'
    <2>1. ASSUME NEW f \in fired
          PROVE  /\ f.from < f.to /\ f.to <= now'
                 /\ lastRun'[f.wf] # None => f.to <= lastRun'[f.wf]
        BY <1>0, <1>1, <1>2, <1>5 DEF IInv, FiredBehindLastRun
    <2>2. ASSUME NEW w \in due
          PROVE  /\ Window(w).from < Window(w).to /\ Window(w).to <= now'
                 /\ Window(w).to <= lastRun'[Window(w).wf]
        BY <1>0, <1>3
    <2> QED BY <1>4, <2>1, <2>2 DEF FiredBehindLastRun
<1>8. NoDoubleFire'
    <2>1. ASSUME NEW w \in due, NEW g \in fired, g.wf = w
          PROVE  g.to <= Window(w).from
        BY <1>3, <2>1 DEF IInv, FiredBehindLastRun
    <2>2. \A v, w \in due : Window(v).wf = Window(w).wf => v = w
        BY <1>3
    <2> SUFFICES ASSUME NEW f \in fired', NEW g \in fired', f # g, f.wf = g.wf
                 PROVE  f.to <= g.from \/ g.to <= f.from
        BY DEF NoDoubleFire
    <2>3. CASE f \in fired /\ g \in fired
        BY <2>3 DEF IInv, NoDoubleFire
    <2>4. CASE f \in fired /\ g \notin fired
        BY <1>3, <1>4, <2>1, <2>4
    <2>5. CASE f \notin fired /\ g \in fired
        BY <1>3, <1>4, <2>1, <2>5
    <2>6. CASE f \notin fired /\ g \notin fired
        BY <1>4, <2>2, <2>6
    <2> QED BY <2>3, <2>4, <2>5, <2>6
<1>9. NothingFromBeforeBoot'
    <2>1. ASSUME NEW w \in due
          PROVE  /\ \E t \in Occurs[Window(w).schedule] :
                        Window(w).from < t /\ t <= Window(w).to
                 /\ Window(w).from >= boot
        BY <1>0, <1>2, <1>3 DEF IInv, LastRunInLife, Seen
    <2> QED BY <1>0, <1>4, <2>1 DEF IInv, NothingFromBeforeBoot
<1> QED BY <1>6, <1>7, <1>8, <1>9

LEMMA Inductive == IInv /\ [Next]_vars => IInv'
<1> SUFFICES ASSUME IInv, [Next]_vars PROVE IInv'
    OBVIOUS
<1>1. TypeOK'
    BY TypeStep DEF IInv, TypeOK, vars, Run
<1>2. CASE Tick
    BY <1>1, <1>2, TickStep DEF IInv
<1>3. CASE Restart
    BY <1>1, <1>3, RestartStep DEF IInv
<1>4. CASE ~Tick /\ ~Restart
    <2>1. now \in Nat
        BY TimeAssumption DEF IInv, TypeOK, Times
    <2>2. now <= now' /\ UNCHANGED <<lastRun, boot, fired>>
        BY <1>4, <2>1
        DEF Next, Advance, Connection, TickFails, Edit, Reindex, GetAutomation,
            Load, Execute, vars
    <2> QED BY <1>1, <2>2, QuietStep DEF IInv
<1> QED BY <1>2, <1>3, <1>4

THEOREM Invariance == Spec => []IInv
BY InitInv, Inductive, PTL DEF Spec

\* The state of the scheduler always has its types (scheduler.go:55-151).
THEOREM TypeCorrect == Spec => []TypeOK
<1>1. IInv => TypeOK
    BY DEF IInv
<1> QED BY Invariance, <1>1, PTL

\* No instant of a schedule is fired for twice (scheduler.go:96-103), whatever
\* the schedules, the pace of the ticks, the edits and the restarts.
THEOREM NoDoubleFireAlways == Spec => []NoDoubleFire
<1>1. IInv => NoDoubleFire
    BY DEF IInv
<1> QED BY Invariance, <1>1, PTL

\* Nothing is fired for that came due before the process started
\* (scheduler.go:107-116).
THEOREM NothingFromBeforeBootAlways == Spec => []NothingFromBeforeBoot
<1>1. IInv => NothingFromBeforeBoot
    BY DEF IInv
<1> QED BY Invariance, <1>1, PTL

-----------------------------------------------------------------------------
(* How often a schedule can fire retroactively.                            *)

\* A run that NoRetroactiveFire is about: whatever it stands for came due before
\* its row got its schedule.
Retroactive(f) ==
    ~\E t \in Occurs[f.schedule] : f.from < t /\ t <= f.to /\ t >= f.since

\* No two retroactive runs of a workflow go back to the same change of its row.
OneRetroactiveRun ==
    \A f, g \in fired :
        /\ f.wf = g.wf /\ f.since = g.since
        /\ Retroactive(f) /\ Retroactive(g)
        => f = g

\* No row, and no row that a run stands for, is from the future.
SinceInPast ==
    /\ \A w \in Workflows : since[w] <= now
    /\ \A f \in fired :
           f.schedule \in DOMAIN Occurs /\ f.since <= f.to /\ f.to <= now

LEMMA SinceStep ==
    ASSUME IInv, SinceInPast, [Next]_vars, TypeOK'
    PROVE  SinceInPast'
<1> USE TimeAssumption DEF IInv, TypeOK, Times, SinceInPast
<1>1. CASE Tick
  <2>1. \A w \in Seen : /\ Window(w).schedule \in DOMAIN Occurs
                        /\ Window(w).since = since[w] /\ Window(w).to = now
    BY DEF Seen, Parses, Window
  <2>2. fired' = fired \cup {Window(w) : w \in {v \in Seen : Due(v)}}
    BY <1>1 DEF Tick
  <2> QED BY <1>1, <2>1, <2>2 DEF Tick, worldVars, Seen
<1>2. ASSUME NEW w \in Workflows, Reindex(w) PROVE SinceInPast'
    BY <1>2 DEF Reindex
<1>3. CASE Advance
    BY <1>3 DEF Advance, worldVars
<1>4. CASE UNCHANGED <<now, since, fired>>
    BY <1>4
<1>5. CASE ~Tick /\ ~Advance /\ ~(\E w \in Workflows : Reindex(w))
  <2>1. UNCHANGED <<now, since, fired>>
    BY <1>5 DEF Next, Connection, Restart, TickFails, Edit, GetAutomation, Load,
                Execute, vars, worldVars
  <2> QED BY <1>4, <2>1
<1> QED BY <1>1, <1>2, <1>3, <1>5

\* What a retroactive run stands for begins before its row's change.
LEMMA RetroactiveIsLate ==
    ASSUME IInv, SinceInPast, NEW f \in fired, Retroactive(f)
    PROVE  f.from < f.since
<1>1. PICK t \in Occurs[f.schedule] : f.from < t /\ t <= f.to
    BY DEF IInv, NothingFromBeforeBoot
<1>2. t \in Int /\ f.from \in Int /\ f.since \in Int
    BY TimeAssumption, ScheduleAssumption DEF SinceInPast, IInv, TypeOK, Times
<1>3. ~(t >= f.since)
    BY <1>1 DEF Retroactive
<1> QED BY <1>1, <1>2, <1>3

\* scheduler.go:107-116: a workflow that is enabled again, or whose schedule was
\* changed, fires retroactively once per change at most.  Stretches do not overlap,
\* and the one that reaches back over the change ends behind it.
THEOREM OneRetroactiveRunAlways == Spec => []OneRetroactiveRun
<1>1. Init => SinceInPast
    BY TimeAssumption DEF Init, SinceInPast
<1>2. IInv /\ SinceInPast /\ [Next]_vars => SinceInPast'
    BY SinceStep, Inductive DEF IInv
<1>3. IInv /\ SinceInPast => OneRetroactiveRun
  <2> SUFFICES ASSUME IInv, SinceInPast, NEW f \in fired, NEW g \in fired,
                      f.wf = g.wf, f.since = g.since, Retroactive(f), Retroactive(g)
               PROVE  f = g
    BY DEF OneRetroactiveRun
  <2>1. f.from < f.since /\ g.from < g.since
    BY RetroactiveIsLate
  <2>2. f.since <= f.to /\ g.since <= g.to
    BY DEF SinceInPast
  <2>3. /\ f.from \in Int /\ f.to \in Int /\ f.since \in Int
        /\ g.from \in Int /\ g.to \in Int
    BY TimeAssumption DEF IInv, TypeOK, Times
  <2>4. ~(f.to <= g.from) /\ ~(g.to <= f.from)
    BY <2>1, <2>2, <2>3
  <2> QED BY <2>4 DEF IInv, NoDoubleFire
<1> QED BY <1>1, <1>2, <1>3, Invariance, PTL DEF Spec
=============================================================================
