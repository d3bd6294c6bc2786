----------------------------- MODULE Scheduler -----------------------------
(***************************************************************************)
(* The schedule trigger loop (src/backend/pkg/scheduler/scheduler.go): a   *)
(* ticker looks at every indexed schedule, compares its next occurrence    *)
(* after the workflow's last run with the clock, and starts a goroutine    *)
(* for each that is due.  The last runs are kept in memory only; the index *)
(* and the definitions change underneath (module TriggerIndex has how).    *)
(***************************************************************************)
EXTENDS Integers

CONSTANTS
    Workflows,
    Schedules,      \* the cron expressions, valid or not
    Occurs,         \* the instants at which each valid one is due
    MaxTime,        \* bound: the length of a behaviour
    Faults,         \* the calls that may fail: "list", "automation", "load"
    None

Times == 0 .. MaxTime

ASSUME TimeAssumption == MaxTime \in Nat
ASSUME ScheduleAssumption ==
    /\ \E Valid \in SUBSET Schedules : Occurs \in [Valid -> SUBSET Nat]
    /\ None \notin Schedules \cup Nat

VARIABLES
    now,        \* the wall clock
    index,      \* the schedule rows of the trigger index
    file,       \* the definitions: "absent", "disabled" or "enabled"
    connected,  \* the owner has an automation credential
    lastRun,    \* lastRun of the running process
    runs,       \* the runOne goroutines
    boot,       \* ghost: when the process started
    since,      \* ghost: when each row got its present schedule
    fired       \* ghost: what each run started so far stands for

worldVars == <<index, file, connected, since>>
vars == <<now, index, file, connected, lastRun, runs, boot, since, fired>>

States == {"absent", "disabled", "enabled"}

Init ==
    /\ now = 0
    /\ index \in [Workflows -> Schedules \cup {None}]
    /\ file \in [Workflows -> States]
    /\ connected \in BOOLEAN
    /\ lastRun = [w \in Workflows |-> None]
    /\ runs = {}
    /\ boot = 0
    /\ since = [w \in Workflows |-> 0]
    /\ fired = {}

-----------------------------------------------------------------------------
(* Outside: time, the workflow API, connecting, the process. *)

Advance ==
    /\ now < MaxTime
    /\ now' = now + 1
    /\ UNCHANGED <<worldVars, lastRun, runs, boot, fired>>

Edit(w) ==
    /\ \E f \in States : file' = [file EXCEPT ![w] = f]
    /\ UNCHANGED <<now, index, connected, lastRun, runs, boot, since, fired>>

Reindex(w) ==
    /\ \E s \in (Schedules \cup {None}) \ {index[w]} : index' = [index EXCEPT ![w] = s]
    /\ since' = [since EXCEPT ![w] = now]
    /\ UNCHANGED <<now, file, connected, lastRun, runs, boot, fired>>

Connection ==
    /\ connected' = ~connected
    /\ UNCHANGED <<now, index, file, lastRun, runs, boot, since, fired>>

Restart ==
    /\ lastRun' = [w \in Workflows |-> None]
    /\ runs' = {}
    /\ boot' = now
    /\ UNCHANGED <<now, worldVars, fired>>

-----------------------------------------------------------------------------
(* tick. *)

Parses(s) == s \in DOMAIN Occurs

\* Mutant: what the schedule missed is caught up with.
BaselineZero(w) == IF lastRun[w] = None THEN 0 ELSE lastRun[w]
\* Mutant: and so does a first sight with the interval before it.
BaselineBehind(w) == IF lastRun[w] = None THEN now - 1 ELSE lastRun[w]
\* lastRunFor: a workflow seen for the first time counts as run now.
Baseline(w) == IF lastRun[w] = None THEN now ELSE lastRun[w]

\* Mutant: asks for the next occurrence after now.
DueFromNow(w) == \E t \in Occurs[index[w]] : now < t /\ t <= now
\* cron's Next(last) is not after now: some occurrence lies between.
Due(w) == \E t \in Occurs[index[w]] : Baseline(w) < t /\ t <= now

Seen == {w \in Workflows : index[w] # None /\ Parses(index[w])}

\* Mutant: a run that is due leaves the last run where it was.
NextLastRunKept == [w \in Workflows |-> IF w \in Seen THEN Baseline(w) ELSE lastRun[w]]
\* A run moves the last run to now; a first sight stays at its baseline.
NextLastRun == [w \in Workflows |->
    IF w \notin Seen THEN lastRun[w]
    ELSE IF Due(w) THEN now ELSE Baseline(w)]

Window(w) == [wf |-> w, schedule |-> index[w], from |-> Baseline(w), to |-> now,
              since |-> since[w]]

\* One tick over all entries: nothing else touches lastRun.
Tick ==
    LET due == {w \in Seen : Due(w)} IN
    /\ lastRun' = NextLastRun
    /\ runs' = runs \cup {[wf |-> w, at |-> "start", tick |-> now] : w \in due}
    /\ fired' = fired \cup {Window(w) : w \in due}
    /\ UNCHANGED <<now, worldVars, boot>>

\* The triggers cannot be listed: nothing happens until the next tick.
TickFails == "list" \in Faults /\ UNCHANGED vars

-----------------------------------------------------------------------------
(* runOne. *)

Move(run, stage) == runs' = (runs \ {run}) \cup {[run EXCEPT !.at = stage]}
End(run) == runs' = runs \ {run}

\* No automation, no run.
GetAutomation(run) ==
    /\ run.at = "start"
    /\ \/ connected /\ Move(run, "load")
       \/ (~connected \/ "automation" \in Faults) /\ End(run)
    /\ UNCHANGED <<now, worldVars, lastRun, boot, fired>>

\* The definition as it is by now; its trigger is not looked at again.
Load(run) ==
    /\ run.at = "load"
    /\ \/ file[run.wf] = "enabled" /\ Move(run, "execute")
       \/ (file[run.wf] # "enabled" \/ "load" \in Faults) /\ End(run)
    /\ UNCHANGED <<now, worldVars, lastRun, boot, fired>>

\* The executor runs the graph and the record is stored, or lost.
Execute(run) ==
    /\ run.at = "execute"
    /\ End(run)
    /\ UNCHANGED <<now, worldVars, lastRun, boot, fired>>

-----------------------------------------------------------------------------
Next ==
    \/ Advance \/ Connection \/ Restart \/ Tick \/ TickFails
    \/ \E w \in Workflows : Edit(w) \/ Reindex(w)
    \/ \E run \in runs : GetAutomation(run) \/ Load(run) \/ Execute(run)

Spec == Init /\ [][Next]_vars

\* time.Ticker keeps firing and the database answers again in the end.
FairSpec == Spec /\ WF_vars(Tick)

-----------------------------------------------------------------------------
(* Properties. *)

Run == [wf : Workflows, at : {"start", "load", "execute"}, tick : Times]

\* The type invariant of the clock, the index, the last runs and the runs.
TypeOK ==
    /\ now \in Times
    /\ index \in [Workflows -> Schedules \cup {None}]
    /\ file \in [Workflows -> States]
    /\ connected \in BOOLEAN
    /\ lastRun \in [Workflows -> Times \cup {None}]
    /\ runs \subseteq Run
    /\ boot \in Times
    /\ since \in [Workflows -> Times]
    /\ fired \subseteq [wf : Workflows, schedule : Schedules, from : Times, to : Times,
                        since : Times]

\* No instant of a schedule is fired for twice, across ticks, edits of the
\* schedule and restarts (scheduler.go:96-103): the stretches of time that the
\* runs of a workflow stand for do not overlap.
NoDoubleFire ==
    \A f, g \in fired :
        f # g /\ f.wf = g.wf => f.to <= g.from \/ g.to <= f.from

\* A run stands for an instant of its schedule that this process was there for:
\* a restart never catches up with what came due while it was down
\* (scheduler.go:107-116).
NothingFromBeforeBoot ==
    \A f \in fired :
        /\ \E t \in Occurs[f.schedule] : f.from < t /\ t <= f.to
        /\ f.to > boot => f.from >= boot

\* What comes due while its row stays and the process runs is fired for
\* (scheduler.go:81-105), unless the row changes or the process restarts first.
OccurrenceFires ==
    \A w \in Workflows, s \in DOMAIN Occurs, t \in Times :
        (/\ index[w] = s /\ lastRun[w] # None
         /\ t \in Occurs[s] /\ lastRun[w] < t /\ t <= now)
        ~> (\/ \E f \in fired : f.wf = w /\ f.schedule = s /\ f.from < t /\ t <= f.to
            \/ index[w] # s \/ lastRun[w] = None)

\* "so we compute the *next* future occurrence, rather than retroactively firing
\* for whatever the schedule missed while we weren't watching" (scheduler.go:112-115,
\* "just started, or just enabled"): a run stands for an instant that its row
\* was there for.
NoRetroactiveFire ==
    \A f \in fired :
        \E t \in Occurs[f.schedule] : f.from < t /\ t <= f.to /\ t >= f.since
=============================================================================
