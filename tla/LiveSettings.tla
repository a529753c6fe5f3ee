---------------------------- MODULE LiveSettings ----------------------------
(***************************************************************************)
(* A change of the settings while the program runs: UpdateSettings of      *)
(* internal/app/app.go with its rollback, ApplySettings of                 *)
(* internal/app/live_settings.go, the swap of the privacy route            *)
(* (internal/privacy/manager.go) and of the fetch pipeline                 *)
(* (internal/app/article_source.go), under readers that go on fetching.    *)
(*                                                                         *)
(* Of the settings there are the route, the providers with a password, the *)
(* number of workers and an interval; what every other client is told is   *)
(* an assignment.  A route in use has a generation, which its tunnel and   *)
(* the sessions dialled over it carry.                                     *)
(***************************************************************************)
EXTENDS Integers, FiniteSets

CONSTANTS
  First,     \* the settings of a first start
  Submitted, \* what a user may submit: settings, with a blank password for one he left alone
  Tunnelled, \* the routes that are a tunnel
  Readers,
  MaxRoutes, \* bound: generations of routes and of pipelines
  Faults     \* bound: failures

VARIABLES
  file,    \* the settings file
  update,  \* UpdateSettings: what it applies, and whether that is its rollback
  route,   \* the state of the privacy manager
  tunnels, \* generations of the tunnels that are up
  chain,   \* the fetch pipeline in use: number, providers and route it was built for
  closing, \* pipelines that were replaced and are not closed yet
  idle,    \* idle sessions, each of a pipeline and a generation
  reader,  \* what each reader holds
  workers, interval, \* the work queue's pool, the recurring task
  clean,   \* the last update, or start, left nothing half done
  faults

vars == <<file, update, route, tunnels, chain, closing, idle, reader, workers, interval, clean, faults>>

NoRoute == "as at start" \* the zero value: direct, though nothing says so
Providers == {[name |-> s.name, password |-> p] : s \in Submitted \cup {First}, p \in {"", "secret"}}
Applied(s) == [name |-> s.name, password |-> s.password]

TypeOK ==
  /\ update.at \in {"idle", "reload", "drain", "untunnel", "rebuild", "resize", "reschedule", "rename"}
  /\ route.cfg \in {NoRoute} \cup {s.route : s \in Submitted \cup {First}} /\ route.gen \in 0 .. MaxRoutes
  /\ tunnels \subseteq 0 .. MaxRoutes
  /\ chain.usenet \in Providers /\ chain.id \in 0 .. MaxRoutes
  /\ closing \subseteq 0 .. MaxRoutes
  /\ idle \subseteq [chain : 0 .. MaxRoutes, gen : 0 .. MaxRoutes]
  /\ reader \in [Readers -> [at : {"idle", "has pipeline", "has session"}, chain : 0 .. MaxRoutes, gen : 0 .. MaxRoutes]]
  /\ clean \in BOOLEAN /\ faults \in 0 .. Faults

NoReader == [at |-> "idle", chain |-> 0, gen |-> 0]
NoUpdate == [at |-> "idle", want |-> First, undo |-> FALSE, old |-> 0]

\* The program starts on what is saved; a route that does not come up is given up
\* for the direct one.
Start(saved, up) ==
  /\ route' = [cfg |-> IF up THEN saved.route ELSE NoRoute, gen |-> 0]
  /\ tunnels' = IF up /\ saved.route \in Tunnelled THEN {0} ELSE {}
  /\ chain' = [id |-> 0, usenet |-> Applied(saved), route |-> route'.cfg]
  /\ closing' = {} /\ idle' = {}
  /\ reader' = [r \in Readers |-> NoReader]
  /\ workers' = saved.workers /\ interval' = saved.interval
  /\ update' = NoUpdate
  /\ clean' = up

Init ==
  /\ file = First
  /\ route = [cfg |-> First.route, gen |-> 0]
  /\ tunnels = IF First.route \in Tunnelled THEN {0} ELSE {}
  /\ chain = [id |-> 0, usenet |-> Applied(First), route |-> First.route]
  /\ closing = {} /\ idle = {}
  /\ reader = [r \in Readers |-> NoReader]
  /\ workers = First.workers /\ interval = First.interval
  /\ update = NoUpdate /\ clean = TRUE /\ faults = 0

Fault == faults < Faults /\ faults' = faults + 1

-----------------------------------------------------------------------------
(* UpdateSettings, one at a time. *)

\* A blank password stands for the one of the provider of that name, if there is one.
MergeSecrets(current, incoming) ==
  [incoming EXCEPT !.password = IF @ = "" /\ incoming.name = current.name THEN current.password ELSE @]

UpdateSettings ==
  /\ update.at = "idle"
  /\ \E s \in Submitted :
       update' = [at |-> "reload", want |-> MergeSecrets(file, s), undo |-> FALSE, old |-> 0]
  /\ UNCHANGED <<file, route, tunnels, chain, closing, idle, reader, workers, interval, clean, faults>>

\* What fails is followed by a rollback, and a rollback that fails by nothing.
ApplyFails ==
  IF update.undo THEN update' = NoUpdate /\ clean' = FALSE
  ELSE update' = [at |-> "reload", want |-> file, undo |-> TRUE, old |-> 0] /\ clean' = clean

To(step) == update' = [update EXCEPT !.at = step] /\ clean' = clean

\* Reload: a new route comes up before the old one goes; the one in use is left alone.
Reload ==
  /\ update.at = "reload"
  /\ IF route.cfg = update.want.route
     THEN To("rebuild") /\ UNCHANGED <<route, tunnels, faults>>
     ELSE \/ /\ route.gen < MaxRoutes
             /\ route' = [cfg |-> update.want.route, gen |-> route.gen + 1]
             /\ tunnels' = IF update.want.route \in Tunnelled THEN tunnels \cup {route.gen + 1} ELSE tunnels
             /\ update' = [update EXCEPT !.at = "drain", !.old = route.gen]
             /\ UNCHANGED <<clean, faults>>
          \/ Fault /\ ApplyFails /\ UNCHANGED <<route, tunnels>>
  /\ UNCHANGED <<file, chain, closing, idle, reader, workers, interval>>

Drain ==
  /\ update.at = "drain"
  /\ idle' = {s \in idle : s.chain # chain.id}
  /\ To("untunnel")
  /\ UNCHANGED <<file, route, tunnels, chain, closing, reader, workers, interval, faults>>

Untunnel ==
  /\ update.at = "untunnel"
  /\ tunnels' = tunnels \ {update.old}
  /\ To("rebuild")
  /\ UNCHANGED <<file, route, chain, closing, idle, reader, workers, interval, faults>>

\* The mutant looks at the providers only, as the code once did.
M_Unchanged(s) == chain.usenet = Applied(s)

Unchanged(s) == chain.usenet = Applied(s) /\ chain.route = route.cfg

Rebuild ==
  /\ update.at = "rebuild"
  /\ IF Unchanged(update.want) THEN UNCHANGED <<chain, closing>>
     ELSE /\ chain.id < MaxRoutes
          /\ chain' = [id |-> chain.id + 1, usenet |-> Applied(update.want), route |-> route.cfg]
          /\ closing' = closing \cup {chain.id}
  /\ To("resize")
  /\ UNCHANGED <<file, route, tunnels, idle, reader, workers, interval, faults>>

Close ==
  /\ \E c \in closing : closing' = closing \ {c} /\ idle' = {s \in idle : s.chain # c}
  /\ UNCHANGED <<file, update, route, tunnels, chain, reader, workers, interval, clean, faults>>

Resize ==
  /\ update.at = "resize"
  /\ \/ workers' = update.want.workers /\ To("reschedule") /\ faults' = faults
     \/ workers # update.want.workers /\ Fault /\ ApplyFails /\ workers' = workers
  /\ UNCHANGED <<file, route, tunnels, chain, closing, idle, reader, interval>>

Reschedule ==
  /\ update.at = "reschedule"
  /\ interval' = update.want.interval
  /\ IF update.undo THEN update' = NoUpdate /\ clean' = TRUE ELSE To("rename")
  /\ UNCHANGED <<file, route, tunnels, chain, closing, idle, reader, workers, faults>>

\* The staged file takes the place of the other one.
Rename ==
  /\ update.at = "rename"
  /\ \/ file' = update.want /\ update' = NoUpdate /\ clean' = TRUE /\ faults' = faults
     \/ Fault /\ ApplyFails /\ file' = file
  /\ UNCHANGED <<route, tunnels, chain, closing, idle, reader, workers, interval>>

-----------------------------------------------------------------------------
(* Readers, each with the pipeline it found. *)

Get(r) ==
  /\ reader[r].at = "idle"
  /\ reader' = [reader EXCEPT ![r] = [at |-> "has pipeline", chain |-> chain.id, gen |-> 0]]
  /\ idle' = idle

\* An idle session of the pipeline, or a new one over the route of this moment; a
\* pipeline that was closed has nothing any more.
Acquire(r) ==
  /\ reader[r].at = "has pipeline"
  /\ LET mine == {s \in idle : s.chain = reader[r].chain}
     IN IF reader[r].chain # chain.id /\ reader[r].chain \notin closing
        THEN reader' = [reader EXCEPT ![r] = NoReader] /\ idle' = idle
        ELSE IF mine # {}
        THEN \E s \in mine : /\ reader' = [reader EXCEPT ![r].at = "has session", ![r].gen = s.gen]
                             /\ idle' = idle \ {s}
        ELSE reader' = [reader EXCEPT ![r].at = "has session", ![r].gen = route.gen] /\ idle' = idle

\* What was read over a tunnel that is down fails, and its session goes with it.
Release(r) ==
  /\ reader[r].at = "has session"
  /\ reader' = [reader EXCEPT ![r] = NoReader]
  /\ \/ idle' = idle \cup {[chain |-> reader[r].chain, gen |-> reader[r].gen]}
     \/ idle' = idle

Read ==
  /\ \E r \in Readers : Get(r) \/ Acquire(r) \/ Release(r)
  /\ UNCHANGED <<file, update, route, tunnels, chain, closing, workers, interval, clean, faults>>

Restart ==
  /\ \/ Start(file, TRUE) /\ faults' = faults
     \/ file.route \in Tunnelled /\ Start(file, FALSE) /\ Fault
  /\ file' = file

Next ==
  \/ UpdateSettings \/ Reload \/ Drain \/ Untunnel \/ Rebuild \/ Close
  \/ Resize \/ Reschedule \/ Rename \/ Read \/ Restart

Spec == Init /\ [][Next]_vars

-----------------------------------------------------------------------------
\* Between updates the program runs on what is saved: the route, the providers, the
\* workers and the interval are those of the settings file, and no tunnel but the
\* route's is up.  Left out is what follows a rollback, or a start, that failed.
SavedIsRunning ==
  update.at = "idle" /\ clean =>
    /\ route.cfg = file.route
    /\ chain.usenet = Applied(file)
    /\ workers = file.workers /\ interval = file.interval
    /\ tunnels = IF route.cfg \in Tunnelled THEN {route.gen} ELSE {}

\* Between updates every session of the pipeline in use, idle or not, was dialled over
\* the route in use, whatever failed before.
NoOldRoute ==
  update.at = "idle" =>
    /\ \A s \in idle : s.chain = chain.id => s.gen = route.gen
    /\ \A r \in Readers : reader[r].at = "has session" /\ reader[r].chain = chain.id => reader[r].gen = route.gen

\* Why: step by step an update makes the program run on what it wants, which in a
\* rollback is what is saved, and a pipeline that was built for another route is
\* replaced before the update ends.
TunnelOf(r) == IF r.cfg \in Tunnelled THEN {r.gen} ELSE {}
Shapes ==
  /\ update = [at |-> update.at, want |-> update.want, undo |-> update.undo, old |-> update.old]
  /\ update.at \in {"idle", "reload", "drain", "untunnel", "rebuild", "resize", "reschedule", "rename"}
  /\ update.undo \in BOOLEAN
  /\ route.gen \in Nat /\ chain.id \in Nat
  /\ idle \subseteq [chain : 0 .. chain.id, gen : Nat]
  /\ reader \in [Readers -> [at : {"idle", "has pipeline", "has session"}, chain : 0 .. chain.id, gen : Nat]]
WantIsDone ==
  /\ update.at # "idle" /\ update.undo => update.want = file
  /\ update.at = "rename" => ~ update.undo
  /\ update.at \notin {"idle", "reload"} => route.cfg = update.want.route
  /\ update.at \in {"resize", "reschedule", "rename"} => chain.usenet = Applied(update.want)
  /\ update.at \in {"reschedule", "rename"} => workers = update.want.workers
  /\ update.at = "rename" => interval = update.want.interval
OneTunnel ==
  /\ update.at \in {"drain", "untunnel"} =>
       update.old # route.gen /\ tunnels \ {update.old} = TunnelOf(route) /\ chain.route # route.cfg
  /\ update.at \notin {"drain", "untunnel"} => tunnels = TunnelOf(route)
  /\ update.at \notin {"drain", "untunnel", "rebuild"} => chain.route = route.cfg
OverTheRoute ==
  chain.route = route.cfg =>
    /\ \A s \in idle : s.chain = chain.id => s.gen = route.gen
    /\ \A r \in Readers : reader[r].at = "has session" /\ reader[r].chain = chain.id => reader[r].gen = route.gen
SettingsInv == Shapes /\ WantIsDone /\ OneTunnel /\ OverTheRoute /\ SavedIsRunning
=============================================================================
