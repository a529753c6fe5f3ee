---------------------------- MODULE HealthSweep ----------------------------
(***************************************************************************)
(* The two sweeps that walk the library a page at a time and keep their   *)
(* place in a cursor: the deep health check (app/nzb_health_check.go) and *)
(* the archive range repair (app/archive_range_repair.go).  A step of a   *)
(* sweep stops at its work budget, is cancelled, or dies with its process, *)
(* and the next one goes on from the cursor.  Rows come and go meanwhile. *)
(* What a check finds is left to chance; ids are never used twice.        *)
(***************************************************************************)
EXTENDS Integers, Sequences

CONSTANTS
  Ids,       \* bound on the ids of library items and of archives: 1 .. Ids
  PageSize,  \* backgroundDeepHealthBatchSize, archiveRangeRepairBatchSize
  Stops      \* bound on cancellations and crashes

VARIABLES
  kind,      \* which of the two sweeps: they share nothing
  rows,      \* the last id given, and the ids that are candidates
  cursor,    \* the saved progress, and whether completion is recorded
  step,      \* the step under way
  examined,  \* history: the ids the sweep has looked at
  steady,    \* history: the candidates that were there ever since the sweep began
  stops      \* cancellations and crashes so far

sweepVars == <<kind, rows, cursor, step, examined, steady, stops>>

NoProgress == [after |-> -1, through |-> -1]
Idle == [pc |-> "idle", place |-> NoProgress, page |-> <<>>, processed |-> 0]

TypeOK ==
  /\ rows.last \in 0 .. Ids /\ rows.live \subseteq 1 .. rows.last
  /\ cursor.completed \in BOOLEAN
  /\ cursor.progress = NoProgress \/ cursor.progress.after \in 0 .. cursor.progress.through
  /\ step.pc \in {"idle", "list", "check", "touch", "clear"}
  /\ step.processed \in 0 .. Len(step.page)
  /\ stops \in 0 .. Stops

Init ==
  /\ kind \in {"health", "repair"}
  /\ rows = [last |-> 2, live |-> {1, 2}]
  /\ cursor = [progress |-> NoProgress, completed |-> FALSE]
  /\ step = Idle
  /\ examined = {}
  /\ steady = {}
  /\ stops = 0

-----------------------------------------------------------------------------
\* ListDeepHealthCandidatesPage: the first candidates after the place, by id.
CandidatesPage(place) ==
  LET ids == {i \in rows.live : place.after < i /\ i <= place.through}
  IN {page \in UNION {[1 .. n -> ids] : n \in 0 .. PageSize} :
        /\ \A j, k \in DOMAIN page : j < k => page[j] < page[k]
        /\ \A i \in ids :
             \/ \E j \in DOMAIN page : page[j] = i
             \/ Len(page) = PageSize /\ \A j \in DOMAIN page : page[j] < i}

\* A sweep in progress goes on; a new one covers the ids given so far, and its
\* progress is saved before any row is looked at.
LoadOrStart ==
  /\ step.pc = "idle"
  /\ IF cursor.progress # NoProgress
     THEN /\ step' = [Idle EXCEPT !.pc = "list", !.place = cursor.progress]
          /\ UNCHANGED <<cursor, examined, steady>>
     ELSE LET started == [after |-> 0, through |-> rows.last]
          IN /\ cursor' = [cursor EXCEPT !.progress = started]
             /\ step' = [Idle EXCEPT !.pc = "list", !.place = started]
             /\ examined' = {}
             /\ steady' = rows.live
  /\ UNCHANGED <<kind, rows, stops>>

\* The health check is due again every week; progress is not asked for its age.
HealthCoordinator == kind = "health" /\ LoadOrStart

\* The coordinator of the repair stops for good at the first completion.
RepairCoordinator == kind = "repair" /\ ~cursor.completed /\ LoadOrStart

ListPage ==
  /\ step.pc = "list"
  /\ \E page \in CandidatesPage(step.place) :
       step' = [step EXCEPT !.page = page, !.pc = IF page = <<>> THEN "touch" ELSE "check"]
  /\ UNCHANGED <<kind, rows, cursor, examined, steady, stops>>

-----------------------------------------------------------------------------
\* The row of the page that is next.
InPage == step.pc = "check" /\ step.processed < Len(step.page)
Row == step.page[step.processed + 1]

LookAt ==
  /\ InPage
  /\ examined' = examined \cup {Row}
  /\ step' = [step EXCEPT !.processed = @ + 1]

\* runDeepHealthCandidates: a row passes, or is left for the next pass, or it fails:
\* its publications go, its release is failed, and it is no candidate any more.
CheckRow ==
  /\ kind = "health" /\ LookAt
  /\ \/ UNCHANGED <<rows, steady>>
     \/ /\ rows' = [rows EXCEPT !.live = @ \ {Row}]
        /\ steady' = steady \ {Row}
  /\ UNCHANGED <<kind, cursor, stops>>

\* repairArchiveRangeCandidate imports the document again, so the archive gets a new
\* id; one that fails counts as processed.
RepairRow ==
  /\ kind = "repair" /\ LookAt
  /\ \/ UNCHANGED <<rows, steady>>
     \/ /\ rows.last < Ids
        /\ rows' = [last |-> rows.last + 1, live |-> (rows.live \ {Row}) \cup {rows.last + 1}]
        /\ steady' = steady \ {Row}
  /\ UNCHANGED <<kind, cursor, stops>>

\* The whole page is taken for done.
M_Place ==
  IF step.page = <<>> THEN step.place ELSE [step.place EXCEPT !.after = step.page[Len(step.page)]]

\* The page is left, at its end or at the end of the work budget, and the place is the
\* last row processed.
Place ==
  IF step.processed = 0 THEN step.place
  ELSE [step.place EXCEPT !.after = step.page[step.processed]]

\* saveDeepHealthSweepProgress; a save that fails ends the step.
Checkpoint ==
  /\ step.pc = "check" /\ step.processed > 0
  /\ \/ /\ cursor' = [cursor EXCEPT !.progress = Place]
        /\ \/ step' = Idle
           \/ /\ step.processed = Len(step.page)
              /\ step' = [Idle EXCEPT !.pc = "list", !.place = Place]
     \/ /\ step' = Idle
        /\ UNCHANGED cursor
  /\ UNCHANGED <<kind, rows, examined, steady, stops>>

\* No candidate is left: completion is recorded first, the progress deleted after it.
TouchCompletion ==
  /\ step.pc = "touch"
  /\ cursor' = [cursor EXCEPT !.completed = TRUE]
  /\ step' = [step EXCEPT !.pc = "clear"]
  /\ UNCHANGED <<kind, rows, examined, steady, stops>>

ClearProgress ==
  /\ step.pc = "clear"
  /\ cursor' = [cursor EXCEPT !.progress = NoProgress]
  /\ step' = Idle
  /\ UNCHANGED <<kind, rows, examined, steady, stops>>

\* The context ends in a check: the row counts as processed all the same, and its place
\* is saved under a context of its own.
Cancel ==
  /\ InPage /\ stops < Stops
  /\ cursor' = [cursor EXCEPT !.progress = [step.place EXCEPT !.after = Row]]
  /\ examined' = examined \cup {Row}
  /\ step' = Idle
  /\ stops' = stops + 1
  /\ UNCHANGED <<kind, rows, steady>>

\* The process dies: the cursors are what is left.
Crash ==
  /\ stops < Stops /\ step # Idle
  /\ step' = Idle
  /\ stops' = stops + 1
  /\ UNCHANGED <<kind, rows, cursor, examined, steady>>

\* A row is added, or one becomes a candidate, or is none any more.
Added ==
  /\ rows.last < Ids
  /\ rows' = [last |-> rows.last + 1, live |-> rows.live \cup {rows.last + 1}]
  /\ UNCHANGED <<kind, cursor, step, examined, steady, stops>>

Changed(id) ==
  /\ id <= rows.last
  /\ rows' = [rows EXCEPT !.live = IF id \in @ THEN @ \ {id} ELSE @ \cup {id}]
  /\ steady' = steady \ {id}
  /\ UNCHANGED <<kind, cursor, step, examined, stops>>

Next ==
  \/ HealthCoordinator \/ RepairCoordinator \/ ListPage \/ CheckRow \/ RepairRow
  \/ Checkpoint \/ TouchCompletion \/ ClearProgress \/ Cancel \/ Crash \/ Added
  \/ \E id \in 1 .. Ids : Changed(id)

Spec == Init /\ [][Next]_sweepVars

-----------------------------------------------------------------------------
\* A sweep that is complete has looked at every row that was a candidate from its
\* beginning to its end, over all the steps, cancellations and restarts it took
\* (nzb_health_check.go:570-573, archive_range_repair.go:211-215).
SweepLeavesNoneOut == step.pc = "clear" => steady \subseteq examined

-----------------------------------------------------------------------------
Shapes ==
  /\ rows \in [last : Nat, live : SUBSET Nat] /\ rows.live \subseteq 1 .. rows.last
  /\ cursor \in [progress : [after : Int, through : Int], completed : BOOLEAN]
  /\ step \in [pc : {"idle", "list", "check", "touch", "clear"}, place : [after : Int, through : Int],
               page : Seq(Nat), processed : Nat]
  /\ step.processed <= Len(step.page) /\ (step.pc = "list" => step.processed = 0)

\* Of a sweep in progress: whoever was there all along is still there and among those it
\* covers, and was looked at if it is before the place.
PlaceIsReached ==
  cursor.progress # NoProgress =>
    \A i \in steady :
      /\ i \in rows.live /\ i <= cursor.progress.through
      /\ i <= cursor.progress.after => i \in examined

\* A step goes on from the saved place.
StepIsAtPlace == step.pc # "idle" => cursor.progress # NoProgress /\ step.place = cursor.progress

\* A page leaves out nobody between the place and its last row, and what is processed of
\* it was looked at.
PageIsWhole ==
  step.pc = "check" =>
    /\ \A k \in 1 .. Len(step.page) : \A i \in steady :
         step.place.after < i /\ i <= step.page[k] => \E j \in 1 .. k : step.page[j] = i
    /\ \A k \in 1 .. step.processed : step.page[k] \in examined

NobodyIsLeft == step.pc = "touch" => \A i \in steady : i <= step.place.after

SweepInv ==
  Shapes /\ PlaceIsReached /\ StepIsAtPlace /\ PageIsWhole /\ NobodyIsLeft /\ SweepLeavesNoneOut
=============================================================================
