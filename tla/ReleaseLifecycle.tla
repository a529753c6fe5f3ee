-------------------------- MODULE ReleaseLifecycle --------------------------
(***************************************************************************)
(* How one library item gets, replaces and loses its release.  The rows    *)
(* are in PostgreSQL: internal/database/workflow_repository.go,            *)
(* queue_repository.go and publication_repository.go.  The actors are the  *)
(* search and the download workers of internal/workflow/service.go, the    *)
(* publisher, the user, the housekeeping passes and the restart.           *)
(*                                                                         *)
(* queue_items.selected_release_id says which selected_releases row is     *)
(* active.  A search for an upgrade stages a second row beside it, which   *)
(* only publication makes active.                                          *)
(*                                                                         *)
(* A transaction that takes lockLibraryItemQueueRow and decides under it   *)
(* is one action; what the code reads before it, or writes without it, is  *)
(* an action of its own.  selected_release_id is ON DELETE SET NULL and    *)
(* everything a release owns is ON DELETE CASCADE.                         *)
(*                                                                         *)
(* A candidate is the posting it stands for, with a score; two rows for    *)
(* one posting are never both eligible, so they are one here.  The         *)
(* blocklist may catch any candidate that a search finds or a promotion    *)
(* comes across, a cooldown may refuse any fetch, and any threshold in     *)
(* minutes may have passed.  Requests of one search after the first that   *)
(* found something repeat the same transaction and are left out, and so is *)
(* a database that fails FailSelectedReleaseAndPromoteNext four times      *)
(* running.                                                                *)
(***************************************************************************)
EXTENDS Integers

CONSTANTS
  Candidates,  \* postings, named by their score: a greater one is better
  MaxReleases, \* bound: how many selected_releases rows are ever inserted
  Workers      \* download workers

ASSUME LifecycleAssumption ==
  /\ Candidates \subseteq Nat \ {0}
  /\ MaxReleases \in Nat

VARIABLES
  queue,     \* the queue_items row
  available, \* library_items.available
  cand,      \* the release_candidates rows
  failed,    \* the candidates whose failure_count has reached the limit of one
  rows,      \* the selected_releases rows, by id
  issued,    \* the last id taken from their sequence
  jobs,      \* the releases the download dispatcher holds, queued or in flight
  worker,    \* where each worker is, and on which release
  search     \* the search of this item (searchInflight admits one)

vars == <<queue, available, cand, failed, rows, issued, jobs, worker, search>>

Releases == 1 .. MaxReleases
None == 0
NoRow == [cand |-> None, doc |-> "none", published |-> FALSE]

\* Transitional states; "searching" is only seen inside a transaction.
Working == {"selected", "fetching_nzb", "indexing", "preflight", "publishing"}
States == Working \cup {"requested", "available", "failed"}

Idle == [pc |-> "idle", rel |-> None, staged |-> FALSE]
WorkerPC == {"idle", "claim", "reuse", "fetch", "import", "index", "check", "mark", "publish", "fail"}
NoSearch == [pc |-> "idle", upgrade |-> FALSE, base |-> None]

TypeOK ==
  /\ queue \in [state : States, sel : Releases \cup {None}, held : BOOLEAN]
  /\ available \in BOOLEAN
  /\ cand \in [Candidates -> {"absent", "free", "selected", "rejected"}]
  /\ failed \subseteq Candidates
  /\ rows \in [Releases -> [cand : Candidates \cup {None}, doc : {"none", "stored", "full"}, published : BOOLEAN]]
  /\ issued \in 0 .. MaxReleases
  /\ jobs \subseteq Releases
  /\ worker \in [Workers -> [pc : WorkerPC, rel : Releases \cup {None}, staged : BOOLEAN]]
  /\ search \in [pc : {"idle", "asking", "failing"}, upgrade : BOOLEAN, base : Candidates \cup {None}]

Init ==
  /\ queue = [state |-> "requested", sel |-> None, held |-> FALSE]
  /\ available = FALSE
  /\ cand = [c \in Candidates |-> "absent"]
  /\ failed = {}
  /\ rows = [r \in Releases |-> NoRow]
  /\ issued = 0
  /\ jobs = {}
  /\ worker = [w \in Workers |-> Idle]
  /\ search = NoSearch

-----------------------------------------------------------------------------
(* The rows of selected_releases. *)

Exists(r) == r \in Releases /\ rows[r].cand # None
Live == {r \in Releases : rows[r].cand # None}
HasRow(c) == \E r \in Live : rows[r].cand = c

\* Each definition named M_D is a mutant of D, a mistake its properties must notice.
M_Eligible(c) == cand[c] = "free"

\* What every query for the next candidate asks of it.
Eligible(c) == cand[c] = "free" /\ ~ HasRow(c)

NextCandidates == {c \in Candidates : Eligible(c)}

\* The next id, and the rows once it is inserted for c and the rows of gone deleted.
New == issued + 1
Insert(c, gone) ==
  /\ issued < MaxReleases
  /\ issued' = New
  /\ rows' = [r \in Releases |-> IF r = New THEN [NoRow EXCEPT !.cand = c]
                                 ELSE IF r \in gone THEN NoRow ELSE rows[r]]

Delete(gone) ==
  /\ rows' = [r \in Releases |-> IF r \in gone THEN NoRow ELSE rows[r]]
  /\ issued' = issued

\* The flags once the candidate of the release is deselected.
Deselected(flags) == [c \in Candidates |-> IF flags[c] = "selected" THEN "free" ELSE flags[c]]

\* The flags once the candidates the blocklist has caught since are rejected too.
Blocked(flags, caught) == [c \in Candidates |-> IF c \in caught THEN "rejected" ELSE flags[c]]

\* The dispatcher takes a job for a release it does not hold.
Submit(r) == jobs' = jobs \cup {r}

-----------------------------------------------------------------------------
(* Searching: SearchLibrary and SearchUpgrades. *)

\* What is read before the network: whether there is a release to protect, and
\* which.  SearchUpgrades may have listed the item before it lost its selection.
\* A movie in conflict with another, or an item without title, fails at once.
SearchStart ==
  /\ search = NoSearch
  /\ \E upgrade \in {available /\ queue.sel # None, available /\ queue.state = "available" /\ ~ queue.held} :
     \E pc \in {"asking", "failing"} :
       search' = [pc |-> pc, upgrade |-> upgrade,
                  base |-> IF upgrade /\ queue.sel # None THEN rows[queue.sel].cand ELSE None]
  /\ UNCHANGED <<queue, available, cand, failed, rows, issued, jobs, worker>>

\* The queue is left as the transaction set it when it began.
M_StageOrSelect(existing, r) ==
  IF existing
  THEN /\ queue' = [queue EXCEPT !.state = "searching"]
       /\ UNCHANGED available
  ELSE /\ queue' = [queue EXCEPT !.state = "selected", !.sel = r]
       /\ available' = FALSE

\* The end of ReplaceSearchCandidates when it selected row r: the queue keeps its
\* pointer and state if there is a release to protect.
StageOrSelect(existing, r) ==
  IF existing
  THEN UNCHANGED <<queue, available>>
  ELSE /\ queue' = [queue EXCEPT !.state = "selected", !.sel = r]
       /\ available' = FALSE

\* ReplaceSearchCandidates: a request answered with the candidates found, of
\* which those in bad are rejected by ranking or by the blocklist.
ReplaceSearchCandidates(found, bad) ==
  LET existing == search.upgrade /\ queue.sel # None
      kept == IF existing THEN {rows[queue.sel].cand} ELSE {}
      gone == {r \in Live : rows[r].cand \notin kept}
      rejected == bad \cup {c \in found : search.upgrade /\ search.base # None /\ c <= search.base}
      usable == {c \in found \ (kept \cup rejected) : \A k \in kept : c > k}
      Flag(c, picked) ==
        IF c \in kept THEN (IF picked = {} THEN cand[c] ELSE "free")
        ELSE IF c \in picked THEN "selected"
        ELSE IF c \in found \cap rejected THEN "rejected"
        ELSE IF c \in found THEN "free" ELSE "absent"
  IN /\ search.pc = "asking"
     /\ failed' = failed \cap (found \cup kept)
     /\ \/ \E c \in usable :
             /\ Insert(c, gone)
             /\ StageOrSelect(existing, New)
             /\ Submit(New)
             /\ cand' = [k \in Candidates |-> Flag(k, {c})]
        \/ /\ usable = {}
           /\ Delete(gone)
           /\ queue' = IF existing THEN [queue EXCEPT !.state = "available"]
                       ELSE [queue EXCEPT !.state = "failed", !.sel = None]
           /\ cand' = [k \in Candidates |-> Flag(k, {})]
           /\ UNCHANGED <<available, jobs>>
     /\ search' = IF found = {} THEN search ELSE NoSearch
     /\ UNCHANGED worker

\* No request was answered, or only with nothing: an old candidate is promoted.
PromoteExistingCandidate ==
  /\ search.pc = "asking"
  /\ \/ \E c \in NextCandidates : \E caught \in SUBSET (NextCandidates \ {c}) :
          /\ Insert(c, Live)
          /\ cand' = [Blocked(cand, caught) EXCEPT ![c] = "selected"]
          /\ queue' = [queue EXCEPT !.state = "selected", !.sel = New]
          /\ Submit(New)
          /\ search' = NoSearch
     \/ /\ cand' = Blocked(cand, NextCandidates)
        /\ \E failing \in BOOLEAN : search' = IF failing THEN [search EXCEPT !.pc = "failing"] ELSE NoSearch
        /\ UNCHANGED <<queue, rows, issued, jobs>>
  /\ UNCHANGED <<available, failed, worker>>

\* The indexer was unreachable, or the item could not be searched for.
MarkLibrarySearchFailed ==
  /\ search.pc = "failing"
  /\ Delete(Live)
  /\ queue' = [queue EXCEPT !.state = "failed", !.sel = None]
  /\ search' = NoSearch
  /\ UNCHANGED <<available, cand, failed, jobs, worker>>

-----------------------------------------------------------------------------
(* The user. *)

\* What was selected before stays selected.
M_Activate(c, flags) ==
  /\ Insert(c, {})
  /\ cand' = [Deselected(flags) EXCEPT ![c] = "selected"]
  /\ queue' = [queue EXCEPT !.state = "selected", !.sel = New]
  /\ Submit(New)

\* activateReleaseCandidate: c becomes the only selection.
Activate(c, flags) ==
  /\ Insert(c, Live)
  /\ cand' = [Deselected(flags) EXCEPT ![c] = "selected"]
  /\ queue' = [queue EXCEPT !.state = "selected", !.sel = New]
  /\ Submit(New)

SelectReleaseCandidate(c) ==
  /\ cand[c] # "absent"
  /\ Activate(c, cand)
  /\ UNCHANGED <<available, failed, worker, search>>

\* The release whose candidate the queue takes next is any of the eligible ones:
\* their order depends on quality, age and failures, and those in the blocklist
\* are rejected on the way (scanNextViableCandidate).  With none the item fails.
PromoteNext(c, gone, flags) ==
  LET next == NextCandidates \ {c}
  IN \/ \E n \in next : \E caught \in SUBSET (next \ {n}) :
          /\ Insert(n, gone)
          /\ cand' = [Blocked(flags, caught) EXCEPT ![n] = "selected"]
          /\ queue' = [queue EXCEPT !.state = "selected", !.sel = New]
     \/ /\ Delete(gone)
        /\ cand' = Blocked(flags, next)
        /\ queue' = [queue EXCEPT !.state = "failed", !.sel = None]

\* The row of a rejected candidate stays.
M_RejectReleaseCandidate(c) ==
  /\ cand[c] # "absent"
  /\ cand' = [cand EXCEPT ![c] = "rejected"]
  /\ UNCHANGED <<queue, available, failed, rows, issued, jobs, worker, search>>

RejectReleaseCandidate(c) ==
  LET gone == {r \in Live : rows[r].cand = c}
      flags == [cand EXCEPT ![c] = "rejected"]
  IN /\ cand[c] # "absent"
     /\ IF gone = {}
        THEN /\ cand' = flags
             /\ UNCHANGED <<queue, rows, issued, jobs>>
        ELSE /\ PromoteNext(c, gone, flags)
             /\ IF issued' # issued THEN Submit(New) ELSE jobs' = jobs
     /\ UNCHANGED <<available, failed, worker, search>>

RestoreReleaseCandidate(c) ==
  /\ cand[c] = "rejected"
  /\ cand' = [cand EXCEPT ![c] = "free"]
  /\ UNCHANGED <<queue, available, failed, rows, issued, jobs, worker, search>>

\* The dispatcher's cancel of the paused release is one of the failures of a fetch.
PauseQueueItem ==
  /\ Delete({queue.sel})
  /\ queue' = [state |-> "requested", sel |-> None, held |-> TRUE]
  /\ UNCHANGED <<available, cand, failed, jobs, worker, search>>

ResumeQueueItem ==
  /\ queue.held
  /\ queue' = [queue EXCEPT !.held = FALSE]
  /\ UNCHANGED <<available, cand, failed, rows, issued, jobs, worker, search>>

\* The action "remove" of the queue page, and of the retry policy.
ClearQueueSelectedRelease ==
  /\ Delete({queue.sel})
  /\ queue' = IF queue.sel # None THEN [queue EXCEPT !.sel = None] ELSE [queue EXCEPT !.state = "requested"]
  /\ UNCHANGED <<available, cand, failed, jobs, worker, search>>

\* ResetLibraryItem, after it removed the symlinks and their publications.
ResetLibraryItem ==
  /\ rows' = [r \in Releases |-> IF r = queue.sel THEN NoRow ELSE [rows[r] EXCEPT !.published = FALSE]]
  /\ cand' = Deselected(cand)
  /\ queue' = [queue EXCEPT !.state = "requested", !.sel = None]
  /\ available' = FALSE
  /\ UNCHANGED <<failed, issued, jobs, worker, search>>

\* RetryQueueItem, of the user and of RetryFailedQueue: the selected release again
\* or, if there was none or it had failed, the best of the others.  The item is
\* read before the lock of promoteRetryCandidate: it may be available by then.
RetryQueueItem ==
  /\ \/ /\ queue.state # "available"
        /\ queue.sel # None
        /\ Submit(queue.sel)
        /\ UNCHANGED <<queue, cand, rows, issued>>
     \/ \E c \in NextCandidates : \E caught \in SUBSET (NextCandidates \ {c}) :
          Activate(c, Blocked(cand, caught))
     \/ cand' = Blocked(cand, NextCandidates) /\ UNCHANGED <<queue, rows, issued, jobs>>
  /\ UNCHANGED <<available, failed, worker, search>>

-----------------------------------------------------------------------------
(* Failure and publication, the two ends of a release. *)

\* A staged release is failed as if it were the active one.
M_FailSelectedReleaseAndPromoteNext(r, hard) ==
  LET c == rows[r].cand
      flags == [cand EXCEPT ![c] = IF hard THEN "rejected" ELSE "free"]
  IN /\ failed' = failed \cup {c}
     /\ PromoteNext(c, {r}, flags)
     /\ available' = FALSE

\* Under the lock, for a release that still exists.  A staged one just goes.
FailSelectedReleaseAndPromoteNext(r, hard) ==
  LET c == rows[r].cand
      flags == [cand EXCEPT ![c] = IF hard THEN "rejected" ELSE "free"]
  IN /\ failed' = failed \cup {c}
     /\ IF queue.sel = r
        THEN PromoteNext(c, {r}, flags) /\ available' = FALSE
        ELSE Delete({r}) /\ cand' = flags /\ UNCHANGED <<queue, available>>

\* SkipRelease, and a health check that found articles missing.
FailRelease(r) ==
  /\ r \in Live
  /\ \E hard \in BOOLEAN : FailSelectedReleaseAndPromoteNext(r, hard)
  /\ IF issued' # issued THEN Submit(New) ELSE jobs' = jobs
  /\ UNCHANGED <<worker, search>>

\* The other releases of the item stay.
M_MarkReleaseAvailable(r) ==
  /\ rows' = [rows EXCEPT ![r].published = TRUE]
  /\ queue' = [queue EXCEPT !.state = "available", !.sel = r]
  /\ available' = TRUE
  /\ issued' = issued

\* The symlinks of r are written; then r becomes the one selection of the item.
MarkReleaseAvailable(r) ==
  /\ rows' = [q \in Releases |-> IF q = r THEN [rows[r] EXCEPT !.published = TRUE] ELSE NoRow]
  /\ queue' = [queue EXCEPT !.state = "available", !.sel = r]
  /\ available' = TRUE
  /\ issued' = issued

\* RepublishLibraryItem: every release with files, the active one last; once the
\* first is available the others are gone and the repair ends in an error.
RepublishLibraryItem ==
  LET full == {r \in Live : rows[r].doc = "full"}
      others == full \ {queue.sel}
  IN /\ \E r \in full :
          /\ r = queue.sel => others = {}
          /\ \A q \in others : r <= q
          /\ MarkReleaseAvailable(r)
     /\ UNCHANGED <<cand, failed, jobs, worker, search>>

\* RebuildPublications, which a start runs beside the workers.
RebuildPublications ==
  /\ queue.sel # None
  /\ rows[queue.sel].doc = "full"
  /\ \/ queue.state \in {"indexing", "preflight", "publishing"}
     \/ queue.state = "available" /\ ~ rows[queue.sel].published
  /\ MarkReleaseAvailable(queue.sel)
  /\ UNCHANGED <<cand, failed, jobs, worker, search>>

-----------------------------------------------------------------------------
(* Download workers.  What a worker reads in one step it acts on in later ones. *)

Goto(w, pc) == worker' = [worker EXCEPT ![w].pc = pc]

Done(w) ==
  /\ worker' = [worker EXCEPT ![w] = Idle]
  /\ jobs' = jobs \ {worker[w].rel}

\* A release that has failed before is fetched once more.
M_Take(w, r) ==
  /\ worker[w] = Idle
  /\ r \in jobs
  /\ \A v \in Workers : worker[v].rel # r
  /\ IF Exists(r)
     THEN /\ worker' = [worker EXCEPT ![w] = [pc |-> IF rows[r].doc # "none" THEN "reuse" ELSE "claim",
                                             rel |-> r, staged |-> FALSE]]
          /\ jobs' = jobs
     ELSE worker' = worker /\ jobs' = jobs \ {r}
  /\ UNCHANGED <<queue, available, cand, failed, rows, issued, search>>

\* GetSelectedReleaseSummary, and what it leads to.
Take(w, r) ==
  /\ worker[w] = Idle
  /\ r \in jobs
  /\ \A v \in Workers : worker[v].rel # r
  /\ IF Exists(r)
     THEN /\ worker' = [worker EXCEPT ![w] = [pc |-> IF rows[r].cand \in failed THEN "fail"
                                                    ELSE IF rows[r].doc # "none" THEN "reuse" ELSE "claim",
                                             rel |-> r, staged |-> FALSE]]
          /\ jobs' = jobs
     ELSE worker' = worker /\ jobs' = jobs \ {r}
  /\ UNCHANGED <<queue, available, cand, failed, rows, issued, search>>

MarkSelectedReleaseFetching(r) ==
  queue' = IF queue.sel = r THEN [queue EXCEPT !.state = "fetching_nzb"] ELSE queue

\* ClaimURLForFetch: the URL may be in its cooldown, and the item stays as it is.
Claim(w) ==
  /\ worker[w].pc = "claim"
  /\ \/ Done(w) /\ queue' = queue
     \/ Goto(w, "fetch") /\ MarkSelectedReleaseFetching(worker[w].rel) /\ jobs' = jobs
  /\ UNCHANGED <<available, cand, failed, rows, issued, search>>

\* retrySelectedReleaseFromStoredNZB
Reuse(w) ==
  /\ worker[w].pc = "reuse"
  /\ MarkSelectedReleaseFetching(worker[w].rel)
  /\ \E pc \in {"import", "fail"} : Goto(w, pc)
  /\ UNCHANGED <<available, cand, failed, rows, issued, jobs, search>>

\* The fetch fails, or its wait is cancelled, or the NZB arrives and is stored
\* (which may fail too), if the release is still there; then the early check.
Fetch(w) ==
  LET r == worker[w].rel
  IN /\ worker[w].pc = "fetch"
     /\ \/ Goto(w, "fail") /\ UNCHANGED <<rows, jobs>>
        \/ Done(w) /\ rows' = rows
        \/ /\ Exists(r)
           /\ \E doc \in {"none", "stored"}, pc \in {"import", "fail"} :
                /\ rows' = [rows EXCEPT ![r].doc = IF rows[r].doc = "none" THEN doc ELSE rows[r].doc]
                /\ Goto(w, pc)
           /\ jobs' = jobs
     /\ UNCHANGED <<queue, available, cand, failed, issued, search>>

\* ImportSelectedReleaseNZB rebuilds the files of the release, perhaps none, and
\* tells whether it is staged.
Import(w) ==
  LET r == worker[w].rel
  IN /\ worker[w].pc = "import"
     /\ \/ ~ Exists(r) /\ Done(w) /\ UNCHANGED <<queue, rows>>
        \/ Exists(r) /\ Goto(w, "fail") /\ UNCHANGED <<queue, rows, jobs>>
        \/ /\ Exists(r)
           /\ \E doc \in {"stored", "full"} :
                rows' = [rows EXCEPT ![r].doc = doc, ![r].published = FALSE]
           /\ queue' = IF queue.sel = r THEN [queue EXCEPT !.state = "indexing"] ELSE queue
           /\ worker' = [worker EXCEPT ![w].pc = IF queue.sel = r THEN "index" ELSE "check",
                                       ![w].staged = queue.sel # r]
           /\ jobs' = jobs
     /\ UNCHANGED <<available, cand, failed, issued, search>>

\* SetImportedNZBIndexed, by the id of the queue item alone.
Index(w) ==
  /\ worker[w].pc = "index"
  /\ queue' = [queue EXCEPT !.state = "preflight"]
  /\ Goto(w, "check")
  /\ UNCHANGED <<available, cand, failed, rows, issued, jobs, search>>

\* The preflight, then a look whether there is anything to publish.  A release
\* taken on after another's failure is not marked as publishing.
Check(w) ==
  LET r == worker[w].rel
  IN /\ worker[w].pc = "check"
     /\ \/ worker' = [worker EXCEPT ![w].pc = "fail", ![w].staged = FALSE] /\ jobs' = jobs
        \/ ~ Exists(r) /\ Done(w)
        \/ /\ Exists(r)
           /\ rows[r].doc = "full"
           /\ \E pc \in {"publish"} \cup (IF worker[w].staged THEN {} ELSE {"mark"}) :
                worker' = [worker EXCEPT ![w].pc = pc, ![w].staged = FALSE]
           /\ jobs' = jobs
     /\ UNCHANGED <<queue, available, cand, failed, rows, issued, search>>

\* MarkQueueItemPublishing, by the id of the queue item alone.
Mark(w) ==
  /\ worker[w].pc = "mark"
  /\ queue' = [queue EXCEPT !.state = "publishing"]
  /\ Goto(w, "publish")
  /\ UNCHANGED <<available, cand, failed, rows, issued, jobs, search>>

\* The post-import hook: verification, the symlinks, MarkReleaseAvailable.
Publish(w) ==
  LET r == worker[w].rel
  IN /\ worker[w].pc = "publish"
     /\ \/ Goto(w, "fail") /\ UNCHANGED <<queue, available, rows, issued, jobs>>
        \/ Exists(r) /\ rows[r].doc = "full" /\ MarkReleaseAvailable(r) /\ Done(w)
     /\ UNCHANGED <<cand, failed, search>>

\* promoteNextAfterFailureDepth: the release gives way to the next, which this
\* worker goes on with unless it is too deep.  Nothing tells that from taking it.
Fail(w) ==
  LET r == worker[w].rel
  IN /\ worker[w].pc = "fail"
     /\ worker' = [worker EXCEPT ![w] = Idle]
     /\ \/ ~ Exists(r) /\ jobs' = jobs \ {r} /\ UNCHANGED <<queue, available, cand, failed, rows, issued>>
        \/ /\ Exists(r)
           /\ \E hard \in (IF rows[r].cand \in failed THEN {TRUE} ELSE BOOLEAN) :
                FailSelectedReleaseAndPromoteNext(r, hard)
           /\ \/ jobs' = jobs \ {r}
              \/ issued' # issued /\ jobs' = (jobs \ {r}) \cup {New}
     /\ UNCHANGED search

WorkerStep(w) ==
  \/ \E r \in Releases : Take(w, r)
  \/ Claim(w) \/ Reuse(w) \/ Fetch(w) \/ Import(w)
  \/ Index(w) \/ Check(w) \/ Mark(w) \/ Publish(w) \/ Fail(w)

-----------------------------------------------------------------------------
(* Housekeeping and restart. *)

\* ResetStaleQueueItems
ResetStaleQueueItems ==
  /\ queue.state \in Working
  /\ queue' = [queue EXCEPT !.state = "failed"]
  /\ UNCHANGED <<available, cand, failed, rows, issued, jobs, worker, search>>

\* RetryFailedQueue for a download it found interrupted when it listed the failed
\* items.  Of all it read the update asks again only for a selection.
RequeueSelectedRelease ==
  /\ queue.sel # None
  /\ queue' = [queue EXCEPT !.state = "requested"]
  /\ UNCHANGED <<available, cand, failed, rows, issued, jobs, worker, search>>

DispatchAutomaticPending ==
  /\ queue.sel # None
  /\ ~ queue.held
  /\ queue.state = "selected" \/ (queue.state = "requested" /\ ~ available)
  /\ Submit(queue.sel)
  /\ UNCHANGED <<queue, available, cand, failed, rows, issued, worker, search>>

\* The process ends anywhere; the next one runs ResetStuckQueueItems and then
\* RecoverInterruptedDownloads before it starts its workers.  An item that has
\* failed and still has a selection is one whose worker was interrupted or stale.
Restart ==
  /\ jobs' = {}
  /\ worker' = [w \in Workers |-> Idle]
  /\ search' = NoSearch
  /\ queue' = IF queue.state \in Working \cup {"failed"}
              THEN [queue EXCEPT !.state = IF queue.sel = None THEN "failed" ELSE "requested"]
              ELSE queue
  /\ UNCHANGED <<available, cand, failed, rows, issued>>

SearchStep ==
  \/ SearchStart
  \/ \E found \in SUBSET Candidates : \E bad \in SUBSET found : ReplaceSearchCandidates(found, bad)
  \/ PromoteExistingCandidate
  \/ MarkLibrarySearchFailed

UserStep ==
  \/ \E c \in Candidates :
       SelectReleaseCandidate(c) \/ RejectReleaseCandidate(c) \/ RestoreReleaseCandidate(c)
  \/ PauseQueueItem \/ ResumeQueueItem \/ ClearQueueSelectedRelease \/ ResetLibraryItem
  \/ RetryQueueItem

Next ==
  \/ SearchStep
  \/ UserStep
  \/ \E r \in Releases : FailRelease(r)
  \/ RepublishLibraryItem
  \/ RebuildPublications
  \/ \E w \in Workers : WorkerStep(w)
  \/ ResetStaleQueueItems \/ RequeueSelectedRelease \/ DispatchAutomaticPending
  \/ Restart

Spec == Init /\ [][Next]_vars

-----------------------------------------------------------------------------
(* Properties. *)

\* Beside the active selection an item has at most one other row, the staged
\* upgrade: selections that lost a race do not pile up (the duplicate rows that
\* lockLibraryItemQueueRow and the re-checks under it are there to prevent).
OneStagedRelease == \A q, r \in Live \ {queue.sel} : q = r

\* No candidate is selected twice at once.
NoCandidateTwice == \A q, r \in Live : rows[q].cand = rows[r].cand => q = r

\* What is selected, active or staged, is a candidate nobody has rejected since.
RejectedIsNotSelected == \A r \in Live : cand[rows[r].cand] \in {"free", "selected"}

\* A candidate gets one real fetch attempt: what is fetched has neither failed nor
\* has its NZB stored (maxCandidateFailuresBeforeGiveUp, StoreRawNZBDocument).
OneFetchAttempt ==
  [][\A w \in Workers :
       worker[w].pc = "fetch" /\ worker'[w].pc # "fetch" /\ Exists(worker[w].rel)
       => /\ rows[worker[w].rel].doc = "none"
          /\ rows[worker[w].rel].cand \notin failed]_vars

\* An upgrade that fails to download leaves the release in use alone: the queue,
\* the item's availability and the active row.
FailedUpgradeIsHarmless ==
  [][\A w \in Workers :
       Fail(w) /\ worker[w].rel # queue.sel
       => UNCHANGED <<queue, available>> /\ (queue.sel # None => rows'[queue.sel] = rows[queue.sel])]_vars

\* The rows of the item, as the selection they stand for.
Selection == INSTANCE ReleaseSelection WITH
  active <- queue.sel, staged <- Live \ {queue.sel},
  served <- {r \in Live : rows[r].published}, offered <- available, last <- issued

\* Whatever the actors do to the rows is a change of the selection that
\* ReleaseSelection allows: a staged upgrade becomes active only by publication,
\* which leaves nothing else served, and a deleted release never comes back.
ImplementsSelection == Selection!Spec

Playable == available /\ queue.sel # None /\ rows[queue.sel].published

\* SearchLibrary: a release that works when the search starts is protected until a
\* replacement is confirmed, not torn down the moment a new search runs.
SearchProtectsTheWorkingRelease ==
  [][search.pc = "asking" /\ search.upgrade /\ search' # search /\ Playable => Playable']_vars

\* RepublishLibraryItem: the release the queue points to always wins over a stray row.
RepublishKeepsTheActiveRelease ==
  [][RepublishLibraryItem /\ Playable => queue'.sel = queue.sel]_vars
=============================================================================
