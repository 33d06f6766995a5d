----------------------------- MODULE Scheduler -----------------------------
(***************************************************************************)
(* `etl schedule run`: crates/scheduler, run.rs, every.rs and watch.rs.    *)
(* One loop looks for what is due, runs it one pipeline at a time, and     *)
(* sleeps until something needs attention.                                 *)
(*                                                                         *)
(* The clock moves while a run is going, while the loop sleeps and while   *)
(* nobody schedules; the loop's own steps take no time.  A watched path is *)
(* abstracted to the second of its last write, and a copy into it writes   *)
(* in every second that it takes.                                          *)
(***************************************************************************)
EXTENDS Integers, FiniteSets, FiniteSetsExt

CONSTANTS
    K,           \* schedules, numbered in file order
    Trigger,     \* Trigger[e]: "every", "cron" or "watch"
    Period,      \* Period[e]: the interval of an "every", the poll of a "watch"
    Matches,     \* the instants that cron expressions match
    MaxSleep,    \* MAX_SLEEP_SECONDS
    MaxTime,     \* bound: the last second
    MaxRunTime,  \* bound: seconds that one run takes
    MaxTrouble   \* bound: starts of the scheduler and changes of the clock

Entries == 1 .. K
On(kind) == {e \in Entries : Trigger[e] = kind}
Never == -1
Time == 0 .. MaxTime

ASSUME SizeAssumption ==
    /\ {K, MaxSleep, MaxTime, MaxRunTime, MaxTrouble} \subseteq Nat
    /\ MaxSleep > 0
ASSUME TriggerAssumption ==
    /\ Trigger \in [Entries -> {"every", "cron", "watch"}]
    /\ Period \in [Entries -> Nat \ {0}]
    /\ Matches \subseteq Nat

VARIABLES
    now,        \* the wall clock
    jumps,      \* how often it has been set back
    starts,     \* times that the scheduler was started
    phase,      \* "down", "top", "pass", "running", "asleep" or "ended"
    due,        \* what is left of this pass
    current,    \* the schedule that runs, or 0
    started,    \* when it started
    wasDue,     \* when it was due
    until,      \* when the sleep ends
    next,       \* Entry::next
    poll,       \* Entry::next_poll
    seen,       \* WatchState::seen
    baseline,   \* WatchState::started
    unsettled,  \* WatchState::unsettled
    written,    \* the second of the last write to the watched path
    copying,    \* whether a copy into it is going on
    landed,     \* when a copy ended that no run has started after, or Never
    history,    \* the start of the last recorded run, .etl/runs
    lastDue,    \* the instant that the last finished run was due at
    lastEnd,    \* when that run ended
    missed,     \* Tick::missed of that run
    idleSince,  \* when a run, or the scheduler's start, last ended
    grid        \* what was first due after the start, modulo the interval

loopVars == <<starts, due, until, next>>
runVars == <<current, started, wasDue>>
watchVars == <<poll, seen, baseline, unsettled>>
worldVars == <<written, copying, landed>>
recordVars == <<history, lastDue, lastEnd, missed, idleSince, grid>>
vars == <<now, jumps, phase, loopVars, runVars, watchVars, worldVars, recordVars>>

All(x) == [e \in Entries |-> x]

Init ==
    /\ now = 0
    /\ jumps = 0
    /\ starts = 0
    /\ phase = "down"
    /\ due = {}
    /\ current = 0
    /\ started = 0
    /\ wasDue = 0
    /\ until = 0
    /\ next = All(Never)
    /\ poll = All(0)
    /\ seen = All(0)
    /\ baseline = All(FALSE)
    /\ unsettled = All(FALSE)
    /\ written = All(0)
    /\ copying = All(FALSE)
    /\ landed = All(Never)
    /\ history = All(Never)
    /\ lastDue = All(Never)
    /\ lastEnd = All(0)
    /\ missed = All(0)
    /\ idleSince = 0
    /\ grid = All(0)

-----------------------------------------------------------------------------
(* every.rs and cron.rs.                                                   *)

(* Interval::next_after: the first tick strictly after `after`, on the     *)
(* grid of `anchor`.                                                       *)
\* Mutant: the grid is counted from the run's end.
DriftingNextAfter(step, anchor, after) == after + step

NextAfter(step, anchor, after) ==
    IF anchor > after THEN anchor
    ELSE anchor + ((after - anchor) \div step + 1) * step

(* Interval::missed_between.                                               *)
\* Mutant: a clock that was set back is not expected.
MissedBackwards(step, scheduled, t) == (t - scheduled) \div step

MissedBetween(step, scheduled, t) ==
    IF t <= scheduled THEN 0 ELSE (t - scheduled) \div step

(* Cron::next_after.                                                       *)
\* Mutant: not strictly after.
CronAtOrAfter(after) ==
    LET later == {t \in Matches : t >= after}
    IN  IF later = {} THEN Never ELSE Min(later)

CronNextAfter(after) ==
    LET later == {t \in Matches : t > after}
    IN  IF later = {} THEN Never ELSE Min(later)

-----------------------------------------------------------------------------
(* Scheduler::new.                                                         *)

\* Mutant: an interval is counted from the scheduler's start.
FirstFromNow(e) ==
    IF Trigger[e] = "every" THEN now + Period[e]
    ELSE IF Trigger[e] = "cron" THEN CronNextAfter(now)
    ELSE Never

First(e) ==
    IF Trigger[e] = "every"
    THEN (IF history[e] = Never THEN now ELSE history[e]) + Period[e]
    ELSE IF Trigger[e] = "cron" THEN CronNextAfter(now)
    ELSE Never

(* A scheduler knows of no change, and takes a baseline first.             *)
Fresh(firstPoll) ==
    /\ due' = {}
    /\ poll' = firstPoll
    /\ seen' = All(0)
    /\ baseline' = All(FALSE)
    /\ unsettled' = All(FALSE)
    /\ landed' = All(Never)

Start ==
    /\ phase = "down"
    /\ starts + jumps < MaxTrouble
    /\ starts' = starts + 1
    /\ phase' = "top"
    /\ next' = [e \in Entries |-> First(e)]
    /\ Fresh(All(now))
    /\ idleSince' = now
    /\ grid' = [e \in Entries |-> First(e) % Period[e]]
    /\ UNCHANGED <<now, jumps, until, runVars, written, copying, history, lastDue,
                   lastEnd, missed>>

-----------------------------------------------------------------------------
(* Scheduler::pass.                                                        *)

(* WatchState::poll, for the watches whose time has come.                  *)
Polled == {e \in On("watch") : now >= poll[e]}
Moved == {e \in Polled : baseline[e] /\ written[e] # seen[e]}

\* Mutant: a change fires on the poll that notices it.
SettledAtOnce == Moved

Settled == {e \in Polled : baseline[e] /\ written[e] = seen[e] /\ unsettled[e]}

(* A change is noted, and one that has settled is done with.               *)
\* Mutant: a change noticed while an earlier one settles is forgotten.
ForgetfulUnsettled ==
    unsettled' = [e \in Entries |-> IF e \in Moved THEN ~unsettled[e]
                                    ELSE e \notin Settled /\ unsettled[e]]

NoteUnsettled ==
    unsettled' = [e \in Entries |-> e \in Moved \/ (e \notin Settled /\ unsettled[e])]

(* due_now, at the top of the loop.                                        *)
Look ==
    /\ phase = "top"
    /\ phase' = "pass"
    /\ due' = Settled \cup {e \in Entries : next[e] # Never /\ next[e] <= now}
    /\ poll' = [e \in Entries |-> IF e \in Polled THEN now + Period[e] ELSE poll[e]]
    /\ seen' = [e \in Entries |-> IF e \in Polled THEN written[e] ELSE seen[e]]
    /\ baseline' = [e \in Entries |-> baseline[e] \/ e \in Polled]
    /\ NoteUnsettled
    /\ UNCHANGED <<now, jumps, starts, until, next, runVars, worldVars, recordVars>>

(* The first of what is due is run; the others wait for it.                *)
RunNext ==
    /\ phase = "pass"
    /\ due # {}
    /\ phase' = "running"
    /\ current' = Min(due)
    /\ due' = due \ {Min(due)}
    /\ started' = now
    /\ wasDue' = IF next[Min(due)] = Never THEN now ELSE next[Min(due)]
    /\ landed' = [landed EXCEPT ![Min(due)] = Never]
    /\ UNCHANGED <<now, jumps, starts, until, next, watchVars, written, copying,
                   recordVars>>

(* advance, after the run.                                                 *)
Advance(e) ==
    IF Trigger[e] = "every" THEN NextAfter(Period[e], wasDue, now)
    ELSE IF Trigger[e] = "cron" THEN CronNextAfter(now)
    ELSE Never

Missed(e) ==
    IF Trigger[e] = "every" THEN MissedBetween(Period[e], started, now) ELSE 0

NotRunning == current' = 0 /\ started' = 0 /\ wasDue' = 0

(* The run ends, recorded by the runner.                                   *)
Finish ==
    /\ phase = "running"
    /\ phase' = "pass"
    /\ next' = [next EXCEPT ![current] = Advance(current)]
    /\ history' = [history EXCEPT ![current] = started]
    /\ lastDue' = [lastDue EXCEPT ![current] = wasDue]
    /\ lastEnd' = [lastEnd EXCEPT ![current] = now]
    /\ missed' = [missed EXCEPT ![current] = Missed(current)]
    /\ idleSince' = now
    /\ NotRunning
    /\ UNCHANGED <<now, jumps, starts, due, until, watchVars, worldVars, grid>>

-----------------------------------------------------------------------------
(* Scheduler::run, between passes.                                         *)

(* wake_at.                                                                *)
\* Mutant: the earliest of the times, with the watches forgotten.
WakeAtWithoutWatches == {next[e] : e \in Entries} \ {Never}

WakeAts == ({next[e] : e \in Entries} \ {Never}) \cup {poll[e] : e \in On("watch")}

EndPass ==
    /\ phase = "pass"
    /\ due = {}
    /\ IF WakeAts = {} THEN phase' = "ended" /\ UNCHANGED until
       ELSE IF Min(WakeAts) <= now THEN phase' = "top" /\ UNCHANGED until
       ELSE /\ phase' = "asleep"
            /\ until' = Min({Min(WakeAts), now + MaxSleep})
    /\ UNCHANGED <<now, jumps, starts, due, next, runVars, watchVars, worldVars,
                   recordVars>>

(* A sleep may return early, and is trusted no further than that.          *)
Wake ==
    /\ phase = "asleep"
    /\ phase' = "top"
    /\ until' = 0
    /\ UNCHANGED <<now, jumps, starts, due, next, runVars, watchVars, worldVars,
                   recordVars>>

(* The scheduler is stopped, or killed in the middle of a run.             *)
Stop ==
    /\ phase # "down"
    /\ phase' = "down"
    /\ NotRunning
    /\ Fresh(All(0))
    /\ next' = All(Never)
    /\ until' = 0
    /\ UNCHANGED <<now, jumps, starts, written, copying, recordVars>>

-----------------------------------------------------------------------------
(* The clock, and the copies that go on as it moves.                       *)

Elapses ==
    \/ phase \in {"down", "ended"}
    \/ phase = "asleep" /\ now < until
    \/ phase = "running" /\ now - started < MaxRunTime

Tick(writes, ends) ==
    /\ now < MaxTime
    /\ Elapses
    /\ now' = now + 1
    /\ {e \in Entries : copying[e]} \subseteq writes
    /\ written' = [e \in Entries |-> IF e \in writes THEN now + 1 ELSE written[e]]
    /\ copying' = [e \in Entries |-> e \in writes \ ends]
    /\ landed' = [e \in Entries |->
                    IF e \in ends /\ baseline[e] /\ phase # "down" THEN now + 1
                    ELSE IF e \in writes THEN Never ELSE landed[e]]
    /\ UNCHANGED <<jumps, phase, loopVars, runVars, watchVars, recordVars>>

(* Somebody, or the time service, sets the clock back.                     *)
SetBack(t) ==
    /\ starts + jumps < MaxTrouble
    /\ phase \in {"asleep", "running"}
    /\ t < now
    /\ now' = t
    /\ jumps' = jumps + 1
    /\ UNCHANGED <<phase, loopVars, runVars, watchVars, worldVars, recordVars>>

World == \/ \E t \in Time : SetBack(t)
         \/ \E writes \in SUBSET On("watch") : \E ends \in SUBSET writes : Tick(writes, ends)

Loop == Start \/ Look \/ RunNext \/ Finish \/ EndPass \/ Wake \/ Stop

(* The bounds end a behaviour.                                             *)
Over == now = MaxTime /\ starts + jumps = MaxTrouble /\ UNCHANGED vars

Next == World \/ Loop \/ Over

Spec == Init /\ [][Next]_vars

-----------------------------------------------------------------------------
(* Types.                                                                  *)
TypeOK ==
    /\ now \in Time
    /\ {jumps, starts} \subseteq 0 .. MaxTrouble
    /\ phase \in {"down", "top", "pass", "running", "asleep", "ended"}
    /\ due \in SUBSET Entries
    /\ current \in 0 .. K
    /\ {started, until, idleSince} \subseteq Nat
    /\ wasDue \in Nat
    /\ next \in [Entries -> Nat \cup {Never}]
    /\ poll \in [Entries -> Nat]
    /\ seen \in [Entries -> Time]
    /\ baseline \in [Entries -> BOOLEAN]
    /\ unsettled \in [Entries -> BOOLEAN]
    /\ written \in [Entries -> Time]
    /\ copying \in [Entries -> BOOLEAN]
    /\ landed \in [Entries -> Time \cup {Never}]
    /\ history \in [Entries -> Time \cup {Never}]
    /\ lastDue \in [Entries -> Nat \cup {Never}]
    /\ lastEnd \in [Entries -> Time]
    /\ missed \in [Entries -> Nat]
    /\ grid \in [Entries -> Nat]
    /\ phase = "running" <=> current # 0

Later(a, b) == IF a > b THEN a ELSE b

(* While the scheduler stays up, an interval keeps to its grid: every due  *)
(* time is a whole number of intervals after the first one, however late   *)
(* the runs began and however long they took (run.rs, advance).            *)
OnGrid ==
    \A e \in On("every") :
        phase # "down" => next[e] % Period[e] = grid[e]

(* Nobody has set the clock back.                                          *)
Steady == jumps = 0

(* An hourly pipeline stays hourly: while the loop sleeps, no interval is  *)
(* due later than one interval after the end of its last run, whatever was *)
(* restarted in between (run.rs, Scheduler::new).                          *)
KeepsPace ==
    Steady /\ phase = "asleep" =>
        \A e \in On("every") : history[e] # Never =>
            next[e] <= lastEnd[e] + Period[e]

(* A schedule fires once for an instant, over restarts too (every.rs and   *)
(* cron.rs, next_after: strictly after).                                   *)
FiresOnce ==
    Steady /\ phase = "running" /\ Trigger[current] # "watch" =>
        wasDue # lastDue[current]

(* The loop never sleeps past something that is due, though the clock may  *)
(* be set back in its sleep.                                               *)
NoOversleep ==
    phase = "asleep" =>
        /\ \A e \in Entries : next[e] # Never => now <= next[e]
        /\ \A e \in On("watch") : now <= poll[e]

(* A copy that ended is run for within two polls of its end, or of the run *)
(* that the loop was busy with then (watch.rs: stable across two polls).   *)
WatchLatency ==
    Steady /\ phase = "asleep" =>
        \A e \in On("watch") : landed[e] # Never =>
            now <= Later(landed[e], idleSince) + 2 * Period[e]

(* A watch's run that begins in the second of the poll that settled never  *)
(* begins in the middle of a copy.  One that had to wait for another run   *)
(* may: the path is not looked at again.                                   *)
NeverPartial ==
    Steady /\ phase = "running" /\ started = now =>
        (poll[current] = now + Period[current] => ~copying[current])

(* The loop is punctual: a schedule fires once for an instant, over        *)
(* restarts too; an interval keeps its grid and its pace however long a    *)
(* run took; and the loop never sleeps past something that is due.         *)
Punctual ==
    /\ TypeOK
    /\ FiresOnce
    /\ KeepsPace
    /\ OnGrid
    /\ NoOversleep

(* A watch: a copy that ended is run for within two polls, and a run that  *)
(* begins with the poll that settled never begins in the middle of a copy. *)
Watched ==
    /\ WatchLatency
    /\ NeverPartial
=============================================================================
