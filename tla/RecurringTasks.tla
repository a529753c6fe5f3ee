--------------------------- MODULE RecurringTasks ---------------------------
(***************************************************************************)
(* A recurring task of app.go under recurringTaskManager                   *)
(* (app/live_settings.go): its loop, the one run a start of the process    *)
(* may add, the cursor its last run left in maintenance_cursors, the gate  *)
(* that makes it wait for a search backlog to shrink, and the change of    *)
(* its interval by a save of the settings.  The process may be stopped at  *)
(* any time, and its timers go with it.                                    *)
(*                                                                         *)
(* The tasks do not meet here, so a behaviour is that of one of them.      *)
(* Times are ticks of some five minutes; intervals of hours and days are   *)
(* shortened, and keep their order with the delays and deadlines.          *)
(***************************************************************************)
EXTENDS Integers

CONSTANT Horizon \* bound on ages: what is older is as old

VARIABLES
  task,
  interval, \* of managedRecurringTask; after a restart it is that of the settings
  up,       \* how long the process has been, up to the delay of a first run, or Down
  blind,    \* it could not read the cursor when it started
  timer,    \* of the loop, Off during a run
  delayed,  \* timer of the delayed run
  runs,     \* calls of fn under way; since is the age of the cursor when they began
  cursor,   \* the age of the one in maintenance_cursors
  busy,     \* whether the backlog is over its threshold
  waiting   \* since when the task has not set to work, with its interval and chance to

taskVars == <<task, interval, up, blind, timer, delayed, runs, cursor, busy, waiting>>

Off == -1
Down == -1
Never == Horizon
Older(t) == IF t = Horizon THEN Horizon ELSE t + 1

-----------------------------------------------------------------------------
\* The tasks.  startup: a first run always, if the cursor is old, or the same after a
\* delay; gate: first thing, after some cheap work, or none; budget: the time its
\* context leaves it; longest: when it is over.

QueueHousekeeping ==
  [intervals |-> {2}, ttl |-> 0, startup |-> "always", delay |-> 0, gate |-> "none", budget |-> 2, longest |-> 2]

\* Each item has ten minutes of its own, so that the last may outlast the pass.
RecentPass(intervals) ==
  [intervals |-> intervals, ttl |-> 4, startup |-> "due", delay |-> 0, gate |-> "none", budget |-> 2, longest |-> 4]

MetadataBackfill ==
  [intervals |-> {8}, ttl |-> 0, startup |-> "due", delay |-> 0, gate |-> "none", budget |-> 2, longest |-> 2]

SyncPlexDetected ==
  [intervals |-> {5}, ttl |-> 0, startup |-> "later", delay |-> 1, gate |-> "none", budget |-> 2, longest |-> 2]

PublishingMaintenance ==
  [intervals |-> {5}, ttl |-> 0, startup |-> "later", delay |-> 1, gate |-> "first", budget |-> 2, longest |-> 2]

HealthCheck ==
  [intervals |-> {3}, ttl |-> 0, startup |-> "later", delay |-> 1, gate |-> "none", budget |-> 3, longest |-> 3]

\* What only deletes rows is done before the gate.
StorageMaintenance ==
  [intervals |-> {7}, ttl |-> 0, startup |-> "later", delay |-> 2, gate |-> "second", budget |-> 4, longest |-> 4]

ContentMaintenance ==
  [intervals |-> {8}, ttl |-> 0, startup |-> "later", delay |-> 3, gate |-> "first", budget |-> 3, longest |-> 3]

\* The feeds of shows and movies, with their floors.
Tasks == {QueueHousekeeping, RecentPass({3, 6}), RecentPass({6, 8}), MetadataBackfill,
          SyncPlexDetected, PublishingMaintenance, HealthCheck, StorageMaintenance, ContentMaintenance}

Run == [who : {"loop", "startup", "stale"}, pc : {"gate", "work"}, age : 0 .. Horizon, since : 0 .. Horizon]

TypeOK ==
  /\ task \in Tasks /\ interval \in task.intervals
  /\ up \in Down .. task.delay + 1 /\ {cursor, waiting} \subseteq 0 .. Horizon
  /\ timer \in Off .. interval /\ delayed \in Off .. task.delay
  /\ runs \subseteq Run
  /\ \A r \in runs : r.age <= task.longest
  /\ up = Down => timer = Off /\ delayed = Off /\ runs = {}

-----------------------------------------------------------------------------
\* A call of fn.
Called(who) ==
  [who |-> who, pc |-> IF task.gate = "none" THEN "work" ELSE "gate", age |-> 0, since |-> cursor]

Begin(who) ==
  /\ runs' = runs \cup {Called(who)}
  /\ waiting' = IF task.gate = "first" THEN waiting ELSE 0

\* It is over; the loop arms its timer again.
End(r) ==
  /\ runs' = runs \ {r}
  /\ timer' = IF r.who = "loop" THEN interval ELSE timer

window == IF task.ttl > interval THEN task.ttl ELSE interval

shouldRunRecentOnStartup(unread) == unread \/ cursor >= window

Init ==
  /\ task \in Tasks /\ interval \in task.intervals
  /\ up = Down /\ blind = FALSE
  /\ timer = Off /\ delayed = Off /\ runs = {}
  /\ cursor = Never
  /\ busy = FALSE
  /\ waiting = 0

\* A long interval takes that much of an uptime.
M_Start ==
  /\ up = Down
  /\ up' = 0 /\ blind' = FALSE /\ delayed' = Off
  /\ IF task.startup = "always" THEN Begin("loop") /\ timer' = Off
     ELSE timer' = interval /\ UNCHANGED <<runs, waiting>>
  /\ UNCHANGED <<task, interval, cursor, busy>>

\* The process starts the task; the cursor it may fail to read.
Start ==
  /\ up = Down
  /\ up' = 0
  /\ blind' \in BOOLEAN
  /\ LET due == shouldRunRecentOnStartup(blind')
     IN /\ IF task.startup = "always" \/ (task.startup = "due" /\ due)
             THEN Begin("loop") /\ timer' = Off
             ELSE timer' = interval /\ UNCHANGED <<runs, waiting>>
        /\ delayed' = IF task.startup = "later" /\ due THEN task.delay ELSE Off
  /\ UNCHANGED <<task, interval, cursor, busy>>

\* The root context ends with the process, and every run with it.
Stop ==
  /\ up # Down
  /\ up' = Down
  /\ timer' = Off /\ delayed' = Off /\ runs' = {}
  /\ UNCHANGED <<task, interval, blind, cursor, busy, waiting>>

Fire ==
  /\ timer = 0
  /\ timer' = Off
  /\ Begin("loop")
  /\ UNCHANGED <<task, interval, up, blind, delayed, cursor, busy>>

FireDelayed ==
  /\ delayed = 0
  /\ delayed' = Off
  /\ Begin("startup")
  /\ UNCHANGED <<task, interval, up, blind, timer, cursor, busy>>

\* The old loop ends with the run it is in; one whose timer has fired as well may yet
\* take that for its turn.
Reschedule(new) ==
  /\ up # Down /\ new # interval
  /\ interval' = new
  /\ timer' = new
  /\ waiting' = 0
  /\ LET old == {IF r.who = "loop" THEN [r EXCEPT !.who = "stale"] ELSE r : r \in runs}
     IN runs' = old \/ (timer = 0 /\ runs' = old \cup {Called("stale")})
  /\ UNCHANGED <<task, up, blind, delayed, cursor, busy>>

\* A count that fails counts as no backlog.
shouldSkipNonCriticalMaintenance(r) ==
  /\ r.pc = "gate"
  /\ \/ busy /\ End(r) /\ UNCHANGED waiting
     \/ /\ runs' = (runs \ {r}) \cup {[r EXCEPT !.pc = "work"]}
        /\ waiting' = IF task.gate = "first" THEN 0 ELSE waiting
        /\ UNCHANGED timer
  /\ UNCHANGED <<task, interval, up, blind, delayed, cursor, busy>>

TouchMaintenanceCursor(r) ==
  /\ r.pc = "work" /\ r.age < task.budget
  /\ cursor' = 0
  /\ End(r)
  /\ UNCHANGED <<task, interval, up, blind, delayed, busy, waiting>>

\* A run gives up for an error, panics and is recovered, or has used up its time and
\* none is left to write the cursor.
runProtected(r) ==
  /\ r.pc = "gate" => task.gate = "second"
  /\ End(r)
  /\ UNCHANGED <<task, interval, up, blind, delayed, cursor, busy, waiting>>

Backlog ==
  /\ task.gate # "none"
  /\ busy' = ~busy
  /\ waiting' = IF task.gate = "first" THEN 0 ELSE waiting
  /\ UNCHANGED <<task, interval, up, blind, timer, delayed, runs, cursor>>

\* A timer that has fired is served, and a first look at the backlog made, within a tick.
Tick ==
  /\ timer # 0 /\ delayed # 0
  /\ \A r \in runs : r.age < task.longest /\ (r.pc = "gate" => task.gate = "second")
  /\ up' = IF up \in 0 .. task.delay THEN up + 1 ELSE up
  /\ timer' = IF timer = Off THEN Off ELSE timer - 1
  /\ delayed' = IF delayed = Off THEN Off ELSE delayed - 1
  /\ runs' = {[r EXCEPT !.age = @ + 1] : r \in runs}
  /\ cursor' = Older(cursor) /\ waiting' = Older(waiting)
  /\ UNCHANGED <<task, interval, blind, busy>>

Next ==
  \/ Start \/ Stop \/ Fire \/ FireDelayed \/ Backlog \/ Tick
  \/ \E new \in task.intervals : Reschedule(new)
  \/ \E r \in runs :
       shouldSkipNonCriticalMaintenance(r) \/ TouchMaintenanceCursor(r) \/ runProtected(r)

Spec == Init /\ [][Next]_taskVars

-----------------------------------------------------------------------------
\* However often the process is restarted, a task sets to work within two intervals, once
\* the process has been up for the delay of its first run; one with a gate, within two
\* intervals of a small backlog.  (A weekly task once never ran, says
\* scheduler_startup_test.go.)
NotStarved ==
  up > task.delay /\ ~(busy /\ task.gate = "first") => waiting <= window + interval + task.longest

\* Restarts do not repeat a task that has just been done.
NotRepeated ==
  \A r \in runs : r.who # "stale" /\ task.startup # "always" /\ ~blind
                    => r.since >= interval - task.delay - task.longest

\* A task runs once at a time where a run of it fits between the delayed one and the
\* loop's first: not so the health check, whose deadline is its interval, and the feed
\* of shows, when its interval is changed.
OneRunAtATime == (\A i \in task.intervals : task.longest < i - task.delay) => \A r, q \in runs : r = q

-----------------------------------------------------------------------------
Shapes ==
  /\ task \in Tasks /\ interval \in task.intervals
  /\ up \in Int /\ Down <= up
  /\ cursor \in 0 .. Horizon /\ waiting \in 0 .. Horizon
  /\ timer \in Off .. interval /\ delayed \in Off .. task.delay
  /\ blind \in BOOLEAN /\ busy \in BOOLEAN
  /\ runs \subseteq Run
  /\ \A r \in runs : r.age <= task.longest
  /\ up = Down => timer = Off /\ delayed = Off /\ runs = {}

AtGate(r) == r.pc = "gate" /\ task.gate = "first"
Bound == window + interval + task.longest

\* The loop waits for its timer or is in its one run.
LoopWaitsOrRuns ==
  /\ up # Down => (timer = Off <=> \E r \in runs : r.who = "loop")
  /\ \A r, q \in runs : r.who = "loop" /\ q.who = "loop" => r = q

\* Until the delayed run begins, nothing has run, and the cursor is as old as it was.
DelayedIsFirst ==
  /\ delayed # Off => /\ task.startup = "later" /\ runs = {}
                      /\ up + delayed = task.delay /\ timer = interval - up
                      /\ ~ blind => cursor >= window
  /\ task.startup # "later" => \A r \in runs : r.who # "startup"

\* A run set to work when it began, and no run that was noted began before one did.
WorkIsNoted ==
  /\ \A r \in runs : ~ AtGate(r) => waiting <= r.age
  /\ waiting <= cursor + task.longest

\* Turns come in time: the timer is due before a task has waited too long.
TurnIsDue ==
  up # Down /\ delayed = Off /\ ~ (busy /\ task.gate = "first") =>
    IF \E r \in runs : AtGate(r) THEN up <= task.delay \/ waiting <= Bound
    ELSE timer # Off => waiting + timer <= Bound

\* A run that goes on while the timer runs is older than the timer, but for the delay, and
\* so the cursor is nearly an interval old when the timer fires.
CursorIsOld ==
  /\ timer # Off => \A r \in runs : interval - timer <= task.delay + r.age
  /\ timer # Off => interval - task.delay - task.longest <= cursor + timer

ScheduleInv ==
  /\ Shapes /\ LoopWaitsOrRuns /\ DelayedIsFirst /\ WorkIsNoted /\ TurnIsDue /\ CursorIsOld
  /\ NotRepeated /\ OneRunAtATime
=============================================================================
