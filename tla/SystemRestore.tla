--------------------------- MODULE SystemRestore ---------------------------
(***************************************************************************)
(* Backups of the database and the settings, and the restore that runs    *)
(* before the service starts (internal/systembackup, cmd/drakkar-restore). *)
(* Each command of a restore may fail, a process may die between any two, *)
(* and the container then starts again: the restore first, the service    *)
(* after it.  A content of the database or of the settings is a version   *)
(* number; archives and checksums are left out, and a bundle that does    *)
(* not validate is a failing command.                                     *)
(***************************************************************************)
EXTENDS Integers, FiniteSets

CONSTANTS
  Names,    \* names of backups
  Changes,  \* bound on what the service writes
  Faults,   \* bound on commands that fail
  Crashes   \* bound on the restores that die midway

VARIABLES
  db,         \* the content of the database
  settings,   \* the content of the settings file
  links,      \* whether every published link is in the library
  bundles,    \* the backups on disk
  marker,     \* restore/: pending.json, rebuild-publications.json, fatal
  operation,  \* the backup or restore the service is running
  proc,       \* what runs, how far it is, and the rollback copies it made
  before,     \* history: the contents when the service last stopped
  left        \* what is left of the bounds

restoreVars == <<db, settings, links, bundles, marker, operation, proc, before, left>>

None == "none"
Missing == -1    \* no database of that name
Partial == -2    \* created, and perhaps partly filled
Versions == 0 .. Changes
Content == [db : Versions, settings : Versions]
Operations == {"idle", "creating", "validating_restore", "scheduled"}
Forward == {"start", "validate", "stage", "dump", "list", "unlink", "drop", "create", "fill",
            "invalidate", "save", "mark", "finish"}
Back == {"rdrop", "rcreate", "rfill", "rsettings", "rinvalidate", "rmark", "rfinish"}
Service == {"started", "restored", "handled"}   \* how the restore before it ended

TypeOK ==
  /\ db \in Versions \cup {Missing, Partial}
  /\ settings \in Versions
  /\ links \in BOOLEAN
  /\ DOMAIN bundles \subseteq Names /\ \A n \in DOMAIN bundles : bundles[n] \in Content
  /\ marker \in [pending : Names \cup {None}, rebuild : BOOLEAN, fatal : BOOLEAN]
  /\ operation \in [state : Operations, name : Names \cup {None}, copied : Versions]
  /\ proc.at \in Service \cup Forward \cup Back \cup {"stopped"}
  /\ before \in [db : Versions \cup {Missing, Partial}, settings : Versions]

Idle == [state |-> "idle", name |-> None, copied |-> 0]
Process(at) == [at |-> at, copy |-> [db |-> Missing, settings |-> 0]]

Init ==
  /\ db = 0 /\ settings = 0 /\ links = TRUE
  /\ bundles = <<>>
  /\ marker = [pending |-> None, rebuild |-> FALSE, fatal |-> FALSE]
  /\ operation = Idle
  /\ proc = Process("started")
  /\ before = [db |-> 0, settings |-> 0]
  /\ left = [changes |-> Changes, faults |-> Faults, crashes |-> Crashes]

-----------------------------------------------------------------------------
(* The service *)

Serving == proc.at \in Service

\* The library, or an operator in the settings, changes what a backup would hold.
Change ==
  /\ Serving /\ left.changes > 0
  /\ \/ db' = Changes - left.changes + 1 /\ db \in Versions /\ UNCHANGED settings
     \/ settings' = Changes - left.changes + 1 /\ UNCHANGED db
  /\ left' = [left EXCEPT !.changes = @ - 1]
  /\ proc' = Process("started")
  /\ UNCHANGED <<links, bundles, marker, operation, before>>

\* StartCreate, and the copy of the settings: the first thing Create does.
StartCreate(n) ==
  /\ Serving /\ operation.state = "idle" /\ n \notin DOMAIN bundles
  /\ operation' = [state |-> "creating", name |-> n, copied |-> settings]
  /\ UNCHANGED <<db, settings, links, bundles, marker, proc, before, left>>

\* pg_dump, the manifest, the rename: a bundle appears whole or not at all.
Create ==
  /\ Serving /\ operation.state = "creating"
  /\ operation' = Idle
  /\ bundles' = IF db \in Versions
                THEN [n \in DOMAIN bundles \cup {operation.name} |->
                       IF n = operation.name THEN [db |-> db, settings |-> operation.copied] ELSE bundles[n]]
                ELSE bundles
  /\ UNCHANGED <<db, settings, links, marker, proc, before, left>>

\* Delete and Create exclude each other, and a staged backup stays.
Delete(n) ==
  /\ Serving /\ operation.state # "creating"
  /\ n \in DOMAIN bundles /\ marker.pending # n
  /\ bundles' = [m \in DOMAIN bundles \ {n} |-> bundles[m]]
  /\ UNCHANGED <<db, settings, links, marker, operation, proc, before, left>>

StartRestore(n) ==
  /\ Serving /\ operation.state = "idle"
  /\ operation' = [Idle EXCEPT !.state = "validating_restore", !.name = n]
  /\ UNCHANGED <<db, settings, links, bundles, marker, proc, before, left>>

\* The operation stays "scheduled", so nothing else starts before the restart.
StageRestore ==
  /\ Serving /\ operation.state = "validating_restore"
  /\ IF operation.name \in DOMAIN bundles /\ marker.pending = None
     THEN /\ marker' = [marker EXCEPT !.pending = operation.name]
          /\ operation' = [operation EXCEPT !.state = "scheduled"]
     ELSE operation' = Idle /\ UNCHANGED marker
  /\ UNCHANGED <<db, settings, links, bundles, proc, before, left>>

\* RebuildPublications has put every link back, and CompletePublicationRebuild follows;
\* from a database that was lost there is nothing to put back.
Rebuilt ==
  /\ Serving /\ marker.rebuild /\ db \in Versions
  /\ links' = TRUE
  /\ marker' = [marker EXCEPT !.rebuild = FALSE]
  /\ UNCHANGED <<db, settings, bundles, operation, proc, before, left>>

\* The restart after staging, or a stop at any time.
Stop ==
  /\ Serving
  /\ operation' = Idle
  /\ proc' = Process("start")
  /\ before' = [db |-> db, settings |-> settings]
  /\ UNCHANGED <<db, settings, links, bundles, marker, left>>

-----------------------------------------------------------------------------
(* drakkar-restore *)

At(step) == proc.at = step
Goes(step) == proc' = [proc EXCEPT !.at = step]
Fault == left.faults > 0 /\ left' = [left EXCEPT !.faults = @ - 1]

Apply ==
  /\ At("start")
  /\ IF marker.fatal THEN Goes("stopped")
     ELSE IF marker.pending = None THEN Goes("started") ELSE Goes("validate")
  /\ UNCHANGED <<db, settings, links, bundles, marker, operation, before, left>>

\* The steps that write nothing: the bundle and both settings are read, the rollback
\* copies are made, the links are listed and looked at.
Prepare ==
  \/ /\ At("validate") /\ marker.pending \in DOMAIN bundles
     /\ Goes("stage")
  \/ /\ At("stage")
     /\ proc' = [at |-> "dump", copy |-> [proc.copy EXCEPT !.settings = settings]]
  \/ /\ At("dump") /\ db # Missing
     /\ proc' = [at |-> "list", copy |-> [proc.copy EXCEPT !.db = db]]
  \/ /\ At("list") /\ db # Missing
     /\ Goes("unlink")

Prepared ==
  /\ Prepare
  /\ UNCHANGED <<db, settings, links, bundles, marker, operation, before, left>>

\* What such a step reads is not there.  A database that was created and not filled
\* has no table of links, or an empty one.
Absent ==
  \/ At("validate") /\ marker.pending \notin DOMAIN bundles
  \/ At("dump") /\ db = Missing
  \/ At("list") /\ db \in {Missing, Partial}

\* handlePreRestoreFailure: the request is dropped and the service may start; when
\* even that fails the marker "fatal" stops every later start.
NotPrepared ==
  /\ proc.at \in {"validate", "stage", "dump", "list"}
  /\ \E cleared \in BOOLEAN :
       LET faults == (IF Absent THEN 0 ELSE 1) + (IF cleared THEN 0 ELSE 1)
       IN /\ left.faults >= faults
          /\ left' = [left EXCEPT !.faults = @ - faults]
          /\ marker' = IF cleared THEN [marker EXCEPT !.pending = None] ELSE [marker EXCEPT !.fatal = TRUE]
          /\ Goes(IF cleared THEN "handled" ELSE "stopped")
  /\ UNCHANGED <<db, settings, links, bundles, operation, before>>

Staged == bundles[marker.pending]

\* One command of the restore: what it does when it succeeds.
Command ==
  \/ /\ At("unlink") /\ links' = FALSE /\ Goes("drop")
     /\ UNCHANGED <<db, settings, marker>>
  \/ /\ At("drop") /\ db' = Missing /\ Goes("create")
     /\ UNCHANGED <<settings, links, marker>>
  \/ /\ At("create") /\ db' = Partial /\ Goes("fill")
     /\ UNCHANGED <<settings, links, marker>>
  \/ /\ At("fill") /\ db' = Staged.db /\ Goes("invalidate")
     /\ UNCHANGED <<settings, links, marker>>
  \/ /\ At("invalidate") /\ Goes("save")
     /\ UNCHANGED <<db, settings, links, marker>>
  \/ /\ At("save") /\ settings' = Staged.settings /\ Goes("mark")
     /\ UNCHANGED <<db, links, marker>>
  \/ /\ At("mark") /\ marker' = [marker EXCEPT !.rebuild = TRUE] /\ Goes("finish")
     /\ UNCHANGED <<db, settings, links>>
  \/ /\ At("finish") /\ marker' = [marker EXCEPT !.pending = None] /\ Goes("restored")
     /\ UNCHANGED <<db, settings, links>>

Restoring ==
  /\ Command
  /\ UNCHANGED <<bundles, operation, before, left>>

\* A command fails: some of the links may be gone, the database may be partly filled.
CommandFails ==
  /\ proc.at \in {"unlink", "drop", "create", "fill", "invalidate", "save", "mark", "finish"}
  /\ Fault
  /\ links' \in IF At("unlink") THEN BOOLEAN ELSE {links}
  /\ Goes("rdrop")
  /\ UNCHANGED <<db, settings, bundles, marker, operation, before>>

\* rollbackRestore, one command: the database from the copy, then the settings, then
\* the marker that has the links rebuilt, then the request is dropped.
M_RollbackCommand ==
  \/ /\ At("rdrop") /\ db' = Missing /\ Goes("rcreate")
     /\ UNCHANGED <<settings, marker>>
  \/ /\ At("rcreate") /\ db' = Partial /\ Goes("rfill")
     /\ UNCHANGED <<settings, marker>>
  \/ /\ At("rfill") /\ db' = proc.copy.db /\ Goes("rinvalidate")
     /\ UNCHANGED <<settings, marker>>
  \/ /\ At("rinvalidate") /\ Goes("rmark")
     /\ UNCHANGED <<db, settings, marker>>
  \/ /\ At("rmark") /\ marker' = [marker EXCEPT !.rebuild = TRUE] /\ Goes("rfinish")
     /\ UNCHANGED <<db, settings>>
  \/ /\ At("rfinish") /\ marker' = [marker EXCEPT !.pending = None] /\ Goes("handled")
     /\ UNCHANGED <<db, settings>>

RollbackCommand ==
  \/ /\ At("rdrop") /\ db' = Missing /\ Goes("rcreate")
     /\ UNCHANGED <<settings, marker>>
  \/ /\ At("rcreate") /\ db' = Partial /\ Goes("rfill")
     /\ UNCHANGED <<settings, marker>>
  \/ /\ At("rfill") /\ db' = proc.copy.db /\ Goes("rsettings")
     /\ UNCHANGED <<settings, marker>>
  \/ /\ At("rsettings") /\ settings' = proc.copy.settings /\ Goes("rinvalidate")
     /\ UNCHANGED <<db, marker>>
  \/ /\ At("rinvalidate") /\ Goes("rmark")
     /\ UNCHANGED <<db, settings, marker>>
  \/ /\ At("rmark") /\ marker' = [marker EXCEPT !.rebuild = TRUE] /\ Goes("rfinish")
     /\ UNCHANGED <<db, settings>>
  \/ /\ At("rfinish") /\ marker' = [marker EXCEPT !.pending = None] /\ Goes("handled")
     /\ UNCHANGED <<db, settings>>

RollingBack ==
  /\ RollbackCommand
  /\ UNCHANGED <<links, bundles, operation, before, left>>

RollbackFails ==
  /\ proc.at \in Back
  /\ Fault
  /\ marker' = [marker EXCEPT !.fatal = TRUE]
  /\ Goes("stopped")
  /\ UNCHANGED <<db, settings, links, bundles, operation, before>>

\* The restore dies: its rollback copies are never looked at again.
Crash ==
  /\ proc.at \in Forward \cup Back /\ left.crashes > 0
  /\ left' = [left EXCEPT !.crashes = @ - 1]
  /\ proc' = Process("start")
  /\ UNCHANGED <<db, settings, links, bundles, marker, operation, before>>

Next ==
  \/ Change \/ Create \/ StageRestore \/ Rebuilt \/ Stop
  \/ \E n \in Names : StartCreate(n) \/ Delete(n) \/ StartRestore(n)
  \/ Apply \/ Prepared \/ NotPrepared
  \/ Restoring \/ CommandFails \/ RollingBack \/ RollbackFails \/ Crash

Spec == Init /\ [][Next]_restoreVars

-----------------------------------------------------------------------------
\* When a failed restore lets the service start, the database and the settings are
\* those it stopped with: "left intact or successfully rolled back"
\* (restore.go:17-20, docker-entrypoint.sh:4).
HandledIsIntact ==
  At("handled") => [db |-> db, settings |-> settings] = before

\* The same for the failures of single commands, the ones restore.go undoes.
FailureIsUndone == left.crashes = Crashes => HandledIsIntact

\* A service that runs with links taken away from its library has the marker that
\* makes it put them back (restore.go:94-128, 193-198).
LinksComeBack == Serving /\ ~links /\ left.crashes = Crashes => marker.rebuild
-----------------------------------------------------------------------------
(***************************************************************************)
(* What the two rest on, as long as no restore has died: up to the first   *)
(* command that writes, the contents are those of the stop; from where the *)
(* rollback copies are made they are of those contents; the commands of    *)
(* the rollback put the contents back one after the other; and whoever is  *)
(* about to drop the request has set the marker for the links.             *)
(***************************************************************************)
Untouched == {"start", "validate", "stage", "dump", "list", "unlink"}
Writing == {"unlink", "drop", "create", "fill", "invalidate", "save", "mark", "finish"}

Shapes ==
  /\ proc = [at |-> proc.at, copy |-> [db |-> proc.copy.db, settings |-> proc.copy.settings]]
  /\ marker = [pending |-> marker.pending, rebuild |-> marker.rebuild, fatal |-> marker.fatal]
  /\ before = [db |-> before.db, settings |-> before.settings]
  /\ left = [changes |-> left.changes, faults |-> left.faults, crashes |-> left.crashes]
  /\ left.crashes \in 0 .. Crashes

DbIsKept ==
  /\ proc.at \in Untouched \cup {"rsettings", "rinvalidate", "rmark", "rfinish", "handled"} => db = before.db
  /\ proc.at \in {"list"} \cup Writing \cup Back => proc.copy.db = before.db

SettingsAreKept ==
  /\ proc.at \in Untouched \cup {"rinvalidate", "rmark", "rfinish", "handled"} => settings = before.settings
  /\ proc.at \in {"dump", "list"} \cup Writing \cup Back => proc.copy.settings = before.settings

LinksAreMarked ==
  /\ proc.at \in Service \cup Untouched /\ ~links => marker.rebuild
  /\ proc.at \in {"finish", "rfinish"} => marker.rebuild

RestoreInv ==
  /\ Shapes
  /\ left.crashes = Crashes => DbIsKept /\ SettingsAreKept /\ LinksAreMarked
=============================================================================
