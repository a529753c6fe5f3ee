----------------------------- MODULE LibraryLinks -----------------------------
(***************************************************************************)
(* The links of one item in the library: a symlink that leads to a file of *)
(* the item's release under the mount, and the symlink_publications row    *)
(* that records it.  No transaction holds both.  A publication writes the  *)
(* link, then the row (library/publisher.go, symlink/publisher.go); resets *)
(* and failed health checks delete rows, then links (workflow/service.go,  *)
(* app/nzb_health_check.go); the storage maintenance compares the disk     *)
(* with the rows it read at its start (maintenance/service.go), and the    *)
(* repair republishes what it finds amiss.  The rows of a release go with  *)
(* its file.                                                               *)
(*                                                                         *)
(* A release has one file; how it gets it is ReleaseLifecycle's affair.    *)
(* The mount shows what the database holds, but may be down, when it shows *)
(* nothing; any look at the disk may fail.                                 *)
(***************************************************************************)
EXTENDS Integers, FiniteSetsExt

CONSTANTS
  Slots,       \* bound: publications at a time
  Paths,       \* library paths the item's files may get, by their extension
  MaxReleases, \* bound on selected_releases rows
  MaxRows,     \* bound on symlink_publications rows
  Grace,       \* orphanedContentGracePeriod
  MaxNow,      \* bound on time
  MaxEvents    \* bound on failures, crashes, resets and hands on the disk

VARIABLES
  now,
  release,   \* the selected_releases that have their file: there or not, and its path
  issued,    \* the last id taken from their sequence
  queue,     \* queue_items.selected_release_id and library_items.available
  row,       \* symlink_publications, as a set
  ids,       \* the last id taken from their sequence
  link,      \* what the disk has at each path
  pub,       \* the publications under way: of a worker, of the repair
  reset,     \* the reset or failed health check under way
  sweep,     \* the storage maintenance, and what it has to answer for
  events

linkVars == <<now, release, issued, queue, row, ids, link, pub, reset, sweep, events>>

Releases == 1 .. MaxReleases
Unknown == [live |-> FALSE, path |-> "none"]
Nothing == [kind |-> "none", to |-> 0, at |-> 0]
Quiet == [pc |-> "idle", at |-> 0, by |-> "nobody"]
NoReset == [pc |-> "idle", paths |-> {}]
NoSweep == [pc |-> "idle", records |-> {}, todo |-> {}, paths |-> {}, drop |-> 0, start |-> 0,
            whole |-> TRUE, due |-> {}, strays |-> {}]

TypeOK ==
  /\ now \in 0 .. MaxNow /\ issued \in 0 .. MaxReleases /\ ids \in 0 .. MaxRows
  /\ events \in 0 .. MaxEvents
  /\ release \in [Releases -> [live : BOOLEAN, path : Paths \cup {"none"}]]
  /\ queue \in [selected : 0 .. MaxReleases, available : BOOLEAN]
  /\ row \subseteq [id : 1 .. MaxRows, path : Paths, to : Releases]
  /\ link \in [Paths -> [kind : {"none", "link", "file"}, to : 0 .. MaxReleases, at : 0 .. MaxNow]]
  /\ \A p \in Slots : pub[p].pc \in {"idle", "link", "row", "mark"} /\ pub[p].at \in 0 .. MaxReleases
  /\ reset.pc \in {"idle", "unlink"}
  /\ sweep.pc \in {"idle", "broken", "completed", "content", "done"}

Init ==
  /\ now = 0 /\ issued = 0 /\ ids = 0 /\ events = 0
  /\ release = [r \in Releases |-> Unknown]
  /\ queue = [selected |-> 0, available |-> FALSE]
  /\ row = {}
  /\ link = [p \in Paths |-> Nothing]
  /\ pub = [p \in Slots |-> Quiet]
  /\ reset = NoReset /\ sweep = NoSweep

Live(r) == r # 0 /\ release[r].live
RowsAt(p) == {w \in row : w.path = p}

\* Releases go, and with them their files and the rows that point at these.
Delete(rs) ==
  /\ release' = [r \in Releases |-> IF r \in rs THEN [release[r] EXCEPT !.live = FALSE] ELSE release[r]]
  /\ row' = {w \in row : w.to \notin rs}

Event == events < MaxEvents /\ events' = events + 1

\* The sweep does not answer for a path at which somebody has written since.
Excused(p) == [sweep EXCEPT !.due = @ \ {w.id : w \in RowsAt(p)}, !.strays = @ \ {p}]

-----------------------------------------------------------------------------
(* Releases come and go; time, and hands on the disk. *)

\* The item's release, or an upgrade staged beside it, gets its file.
Import(p) ==
  /\ issued < MaxReleases
  /\ issued' = issued + 1
  /\ release' = [release EXCEPT ![issued + 1] = [live |-> TRUE, path |-> p]]
  /\ queue' = IF queue.selected = 0 THEN [queue EXCEPT !.selected = issued + 1] ELSE queue
  /\ UNCHANGED <<now, row, ids, link, pub, reset, sweep, events>>

\* A release fails, the active one with the item; the links stay.
FailSelectedReleaseAndPromoteNext(r) ==
  /\ Live(r)
  /\ r = queue.selected => ~ queue.available
  /\ Delete({r})
  /\ queue' = IF r = queue.selected THEN [selected |-> 0, available |-> FALSE] ELSE queue
  /\ UNCHANGED <<now, issued, ids, link, pub, reset, sweep, events>>

\* Releases that the queue does not point at and no publication needs, once they are
\* old enough: a staged upgrade can be.
PruneOrphanedSelectedReleases(r) ==
  /\ Live(r) /\ r # queue.selected
  /\ \A w \in row : w.to # r
  /\ Delete({r})
  /\ UNCHANGED <<now, issued, queue, ids, link, pub, reset, sweep, events>>

Tick ==
  /\ now < MaxNow
  /\ now' = now + 1
  /\ UNCHANGED <<release, issued, queue, row, ids, link, pub, reset, sweep, events>>

Meddle(p, kind) ==
  /\ Event
  /\ link' = [link EXCEPT ![p] = [Nothing EXCEPT !.kind = kind]]
  /\ UNCHANGED <<now, release, issued, queue, row, ids, pub, reset, sweep>>

-----------------------------------------------------------------------------
(* Publications.  Only those of the repair exclude each other. *)

Begin(by, r) ==
  /\ Live(r)
  /\ \E p \in Slots : pub[p] = Quiet /\ pub' = [pub EXCEPT ![p] = [pc |-> "link", at |-> r, by |-> by]]

PublishSelectedRelease(r) ==
  /\ Begin("worker", r)
  /\ UNCHANGED <<now, release, issued, queue, row, ids, link, reset, sweep, events>>

\* Every release with files, the one of the queue last: the first to become available
\* deletes the rest, and their turn ends in an error.
ListSelectedReleasesByLibraryItem ==
  LET files == {r \in Releases : Live(r)}
      others == files \ {queue.selected}
  IN IF others = {} THEN files ELSE {Min(others)}

\* Any link that leads to a release will do.
CheckSymlinkHealth(w) == link[w.path].kind = "link"

\* Listed for publication: not yet available, without a row, or without one of the
\* current release.
ListPendingRepublishTargets ==
  \/ ~ queue.available /\ Live(queue.selected)
  \/ queue.available /\ row = {}
  \/ queue.available /\ Live(queue.selected) /\ \A w \in row : w.to # queue.selected

Republish ==
  /\ \A p \in Slots : pub[p].by # "repair"
  /\ \E r \in ListSelectedReleasesByLibraryItem : Begin("repair", r)
  /\ UNCHANGED <<now, release, issued, queue, row, ids, link, reset, sweep>>

RepublishPendingLibrary == ListPendingRepublishTargets /\ Republish /\ UNCHANGED events

RunHealthCheck == (\E w \in row : ~ CheckSymlinkHealth(w)) /\ Republish /\ UNCHANGED events

\* The user asks for it.
RepublishLibraryItem == Event /\ Republish

At(p) == pub[p].at
PathOf(p) == release[At(p)].path
Goto(p, pc) == pub' = [pub EXCEPT ![p].pc = pc]
GiveUp(p) == pub' = [pub EXCEPT ![p] = Quiet]

\* A link that leads there already is left as it is, with its age.
Publish(p) ==
  /\ pub[p].pc = "link"
  /\ Goto(p, "row")
  /\ link' = IF link[PathOf(p)].kind = "link" /\ link[PathOf(p)].to = At(p) THEN link
             ELSE [link EXCEPT ![PathOf(p)] = [kind |-> "link", to |-> At(p), at |-> now]]
  /\ sweep' = Excused(PathOf(p))
  /\ UNCHANGED <<now, release, issued, queue, row, ids, reset, events>>

\* The row of a path keeps its id; the file must still be there.
UpsertSymlinkPublication(p) ==
  /\ pub[p].pc = "row"
  /\ Live(At(p))
  /\ Goto(p, "mark")
  /\ IF RowsAt(PathOf(p)) # {}
     THEN /\ row' = {IF w.path = PathOf(p) THEN [w EXCEPT !.to = At(p)] ELSE w : w \in row}
          /\ UNCHANGED ids
     ELSE /\ ids < MaxRows
          /\ ids' = ids + 1
          /\ row' = row \cup {[id |-> ids + 1, path |-> PathOf(p), to |-> At(p)]}
  /\ sweep' = Excused(PathOf(p))
  /\ UNCHANGED <<now, release, issued, queue, link, reset, events>>

\* The release becomes the only one.
MarkReleaseAvailable(p) ==
  /\ pub[p].pc = "mark"
  /\ Live(At(p))
  /\ queue' = [selected |-> At(p), available |-> TRUE]
  /\ Delete(Releases \ {At(p)})
  /\ GiveUp(p)
  /\ UNCHANGED <<now, issued, ids, link, reset, sweep, events>>

\* Any step may fail, and those on the database do when the release is gone.
Abandon(p) ==
  /\ pub[p].pc \in {"link", "row", "mark"}
  /\ IF pub[p].pc # "link" /\ ~ Live(At(p)) THEN UNCHANGED events ELSE Event
  /\ GiveUp(p)
  /\ UNCHANGED <<now, release, issued, queue, row, ids, link, reset, sweep>>

-----------------------------------------------------------------------------
(* Resets: the rows, then the links, then the release. *)

DeleteSymlinkPublicationsForLibraryItem ==
  /\ reset = NoReset
  /\ Event
  /\ reset' = [pc |-> "unlink", paths |-> {w.path : w \in row}]
  /\ row' = {}
  /\ UNCHANGED <<now, release, issued, queue, ids, link, pub, sweep>>

Unlink(p) ==
  /\ reset.pc = "unlink"
  /\ p \in reset.paths
  /\ reset' = [reset EXCEPT !.paths = @ \ {p}]
  /\ link' = [link EXCEPT ![p] = Nothing]
  /\ UNCHANGED <<now, release, issued, queue, row, ids, pub, sweep, events>>

ResetLibraryItemState ==
  /\ reset.pc = "unlink" /\ reset.paths = {}
  /\ reset' = NoReset
  /\ \/ /\ Delete({queue.selected})
        /\ queue' = [selected |-> 0, available |-> FALSE]
        /\ UNCHANGED events
     \/ Event /\ UNCHANGED <<release, row, queue>>
  /\ UNCHANGED <<now, issued, ids, link, pub, sweep>>

-----------------------------------------------------------------------------
(* The storage maintenance: three passes over one reading of the rows. *)

\* It has to answer for the rows without a link and for the old links without a row.
RunSymlinkMaintenance ==
  /\ sweep = NoSweep
  /\ sweep' = [pc |-> "broken", records |-> row, todo |-> row, paths |-> {}, drop |-> 0, start |-> 0, whole |-> TRUE,
               due |-> {w.id : w \in {x \in row : link[x.path].kind # "link"}},
               strays |-> {p \in Paths : link[p].kind = "link" /\ RowsAt(p) = {} /\ now - link[p].at >= Grace}]
  /\ UNCHANGED <<now, release, issued, queue, row, ids, link, pub, reset, events>>

Done(w) == [sweep EXCEPT !.todo = @ \ {w}]
Sweeping(pc) == sweep.pc = pc /\ sweep.drop = 0

\* What is missing or no symlink goes with its row, and what leads to nothing that
\* can be seen, by the target read at the start; a link that cannot be removed loses
\* its row all the same.
RemoveBrokenMediaSymlinks(w) ==
  /\ Sweeping("broken")
  /\ w \in sweep.todo
  /\ \/ /\ LET removed == [link EXCEPT ![w.path] = Nothing]
           IN \/ (link[w.path].kind # "link" \/ ~ Live(w.to)) /\ link' = removed /\ UNCHANGED events
              \/ Event /\ link' \in {removed, link}
        /\ sweep' = [Done(w) EXCEPT !.drop = w.id]
     \/ /\ link[w.path].kind = "link" /\ Live(w.to)
        /\ sweep' = Done(w)
        /\ UNCHANGED <<link, events>>
     \/ Event /\ sweep' = [Done(w) EXCEPT !.whole = FALSE] /\ UNCHANGED link
  /\ UNCHANGED <<now, release, issued, queue, row, ids, pub, reset>>

RemoveOrphanedCompletedSymlinks(w) ==
  /\ Sweeping("completed")
  /\ w \in sweep.todo
  /\ \/ sweep' = [Done(w) EXCEPT !.drop = IF link[w.path].kind = "none" THEN w.id ELSE 0] /\ UNCHANGED events
     \/ Event /\ sweep' = [Done(w) EXCEPT !.whole = FALSE]
  /\ UNCHANGED <<now, release, issued, queue, row, ids, link, pub, reset>>

\* A row is deleted by its id; when that fails the pass ends, not the sweep.
DeleteSymlinkPublication ==
  /\ sweep.drop # 0
  /\ \/ /\ row' = {w \in row : w.id # sweep.drop}
        /\ sweep' = [sweep EXCEPT !.drop = 0]
        /\ UNCHANGED events
     \/ /\ Event
        /\ sweep' = [sweep EXCEPT !.drop = 0, !.todo = {}, !.whole = FALSE]
        /\ UNCHANGED row
  /\ UNCHANGED <<now, release, issued, queue, ids, link, pub, reset>>

EndOfPass ==
  /\ sweep.todo = {} /\ sweep.drop = 0 /\ sweep.paths = {}
  /\ sweep' = CASE sweep.pc = "broken" -> [sweep EXCEPT !.pc = "completed", !.todo = sweep.records]
                [] sweep.pc = "completed" -> [sweep EXCEPT !.pc = "content", !.paths = Paths, !.start = now]
                [] sweep.pc = "content" -> [sweep EXCEPT !.pc = "done"]
                [] OTHER -> NoSweep
  /\ sweep.pc # "idle"
  /\ UNCHANGED <<now, release, issued, queue, row, ids, link, pub, reset, events>>

\* Symlinks without a row go, unless they are too young.
M_Orphan(p) ==
  /\ link[p].kind = "link"
  /\ \A w \in sweep.records : w.path # p
  /\ sweep.start - link[p].at > Grace

Orphan(p) ==
  /\ link[p].kind = "link"
  /\ \A w \in sweep.records : w.path # p
  /\ sweep.start - link[p].at >= Grace

RemoveOrphanedContent(p) ==
  /\ Sweeping("content")
  /\ p \in sweep.paths
  /\ \/ /\ link' = IF Orphan(p) THEN [link EXCEPT ![p] = Nothing] ELSE link
        /\ sweep' = [sweep EXCEPT !.paths = @ \ {p}]
        /\ UNCHANGED events
     \/ Event /\ sweep' = [sweep EXCEPT !.paths = @ \ {p}, !.whole = FALSE] /\ UNCHANGED link
  /\ UNCHANGED <<now, release, issued, queue, row, ids, pub, reset>>

\* The process ends, and its start publishes what has no row.
RebuildPublications ==
  /\ Event
  /\ LET none == [p \in Slots |-> Quiet]
     IN IF Live(queue.selected) /\ (queue.available => row = {})
        THEN \E p \in Slots : pub' = [none EXCEPT ![p] = [pc |-> "link", at |-> queue.selected, by |-> "start"]]
        ELSE pub' = none
  /\ reset' = NoReset /\ sweep' = NoSweep
  /\ UNCHANGED <<now, release, issued, queue, row, ids, link>>

Next ==
  \/ \E p \in Paths : \/ Import(p) \/ Unlink(p) \/ RemoveOrphanedContent(p)
                      \/ \E kind \in {"none", "file"} : Meddle(p, kind)
  \/ \E r \in Releases : \/ FailSelectedReleaseAndPromoteNext(r) \/ PruneOrphanedSelectedReleases(r)
                         \/ PublishSelectedRelease(r)
  \/ Tick \/ RepublishPendingLibrary \/ RunHealthCheck \/ RepublishLibraryItem
  \/ \E p \in Slots : \/ Publish(p) \/ UpsertSymlinkPublication(p)
                           \/ MarkReleaseAvailable(p) \/ Abandon(p)
  \/ DeleteSymlinkPublicationsForLibraryItem \/ ResetLibraryItemState
  \/ RunSymlinkMaintenance \/ DeleteSymlinkPublication \/ EndOfPass
  \/ \E w \in sweep.todo : RemoveBrokenMediaSymlinks(w) \/ RemoveOrphanedCompletedSymlinks(w)
  \/ RebuildPublications

Spec == Init /\ [][Next]_linkVars

-----------------------------------------------------------------------------
\* A sweep that nothing stopped leaves none of the rows that had lost their link when
\* it began, and none of the old links without a row, but for those that a publication
\* has written since: whatever resets, upgrades, a lost mount and hands on the disk did
\* between its passes, which all go by the rows it read first.
SweepIsThorough ==
  sweep.pc = "done" /\ sweep.whole =>
    /\ \A w \in row : w.id \notin sweep.due
    /\ \A p \in sweep.strays : link[p].kind # "link"

\* Why: a publication's release has a path; the rows that had lost their link are ahead
\* of the first pass until it has dropped them, and the old links without a row are
\* ahead of the third.
Published ==
  /\ now \in Int /\ issued \in Nat
  /\ release \in [Releases -> [live : BOOLEAN, path : Paths \cup {"none"}]]
  /\ \A r \in Releases : release[r].live => release[r].path \in Paths
  /\ queue \in [selected : {0} \cup Releases, available : BOOLEAN]
  /\ pub \in [Slots -> [pc : {"idle", "link", "row", "mark"}, at : {0} \cup Releases,
                        by : {"nobody", "worker", "repair", "start"}]]
  /\ \A p \in Slots : pub[p].pc # "idle" => At(p) # 0 /\ PathOf(p) \in Paths
Recorded ==
  /\ ids \in Nat
  /\ row \subseteq [id : Nat \ {0}, path : Paths, to : Releases]
  /\ \A w \in row : w.id <= ids /\ \A x \in row : x.id = w.id => x = w
  /\ link \in [Paths -> [kind : {"none", "link", "file"}, to : {0} \cup Releases, at : Int]]
SweepType ==
  /\ sweep = [pc |-> sweep.pc, records |-> sweep.records, todo |-> sweep.todo, paths |-> sweep.paths,
              drop |-> sweep.drop, start |-> sweep.start, whole |-> sweep.whole, due |-> sweep.due,
              strays |-> sweep.strays]
  /\ sweep.due \subseteq 1 .. ids /\ sweep.strays \subseteq Paths /\ sweep.start \in Int
DueIsAhead ==
  sweep.pc # "idle" /\ sweep.whole => \A w \in row : w.id \in sweep.due =>
    sweep.pc = "broken" /\ link[w.path].kind # "link" /\ (w \in sweep.todo \/ w.id = sweep.drop)
StraysAreAhead ==
  sweep.pc # "idle" /\ sweep.whole => \A p \in sweep.strays : link[p].kind = "link" =>
    /\ \A w \in sweep.records : w.path # p
    /\ \/ sweep.pc \in {"broken", "completed"} /\ now - link[p].at >= Grace
       \/ sweep.pc = "content" /\ p \in sweep.paths /\ sweep.start - link[p].at >= Grace
LinksInv == Published /\ Recorded /\ SweepType /\ DueIsAhead /\ StraysAreAhead
=============================================================================
