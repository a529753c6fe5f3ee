---------------------------- MODULE FailedRetries ----------------------------
(***************************************************************************)
(* Who comes back to an item that has no release yet: the pending list     *)
(* with its work queue (internal/workflow/workqueue.go), the list of       *)
(* failed items with the policy's decisions (RetryFailedQueue of           *)
(* internal/workflow/service.go, internal/policy) and the reset of stale   *)
(* ones (internal/database/workflow_repository.go, queue_repository.go).   *)
(*                                                                         *)
(* One item of the lists, which are read once and worked off while the     *)
(* downloads, the user and the other passes go on.  Every interval in      *)
(* minutes, hours or days is over at some point; how long it is, the cap   *)
(* on searches of one pass and a paused work queue only decide when.       *)
(***************************************************************************)
EXTENDS Integers, Sequences

CONSTANTS
  Candidates, \* postings, the best first
  RetryLimit, \* the failures after which a 403 is not waited for any more
  Settings    \* the policies the user has to choose from, as reasons with actions

VARIABLES
  item,    \* the queue_items row, with library_items.available
  cand,    \* release_candidates: whether each is listed, and how often it failed
  blocked, \* the candidates caught by blocklist_items
  timer,   \* the cooldown of searches and that of dispatches: over?
  policy,  \* the user's action for each reason
  jobs,    \* what the download dispatcher holds
  work,    \* the item's job of the work queue
  pass,    \* RetryFailedQueue: what it has to do, and the target as it was listed
  search   \* the search under way, and who waits for it

vars == <<item, cand, blocked, timer, policy, jobs, work, pass, search>>

None == 0
Reasons == {"", "missing", "forbidden", "rejected", "none", "restart", "unknown"}
Actions == {"nothing", "remove", "remove and block", "remove, block and search", "search"}
NoTarget == [reason |-> "", sel |-> FALSE, fails |-> 0]

TypeOK ==
  /\ item \in [state : {"requested", "selected", "working", "failed", "available"}, sel : Candidates \cup {None},
               available : BOOLEAN, held : BOOLEAN, reason : Reasons]
  /\ cand \in [Candidates -> [state : {"absent", "free", "rejected"}, fails : 0 .. RetryLimit]]
  /\ blocked \subseteq Candidates
  /\ timer \in [search : BOOLEAN, dispatch : BOOLEAN]
  /\ policy \in [Reasons -> Actions]
  /\ jobs \subseteq Candidates
  /\ work \in {"none", "queued", "search", "touch"}
  /\ pass \in [todo : Seq({"decide", "block", "clear", "search", "wait", "touch"}),
               target : [reason : Reasons, sel : BOOLEAN, fails : 0 .. RetryLimit]]
  /\ search \in {"none", "work", "pass", "work upgrade", "pass upgrade"}

NoPass == [todo |-> <<>>, target |-> NoTarget]

Init ==
  /\ item = [state |-> "requested", sel |-> None, available |-> FALSE, held |-> FALSE, reason |-> ""]
  /\ cand = [c \in Candidates |-> [state |-> "absent", fails |-> 0]]
  /\ blocked = {}
  /\ timer = [search |-> TRUE, dispatch |-> TRUE]
  /\ policy \in Settings
  /\ jobs = {}
  /\ work = "none"
  /\ pass = NoPass
  /\ search = "none"

-----------------------------------------------------------------------------
(* The lists. *)

\* Each definition named M_D is a mutant of D, a mistake its properties must notice.
M_PendingTarget(t) ==
  /\ ~ item.held
  /\ \/ item.sel = None /\ item.state = "requested" /\ t.search
     \/ item.sel # None /\ item.state = "requested" /\ ~ item.available
     \/ item.state = "selected"

\* ListPendingLibrarySearchTargets, for what the timers t say.
PendingTarget(t) ==
  /\ ~ item.held
  /\ \/ item.sel = None /\ item.state \in {"requested", "failed"} /\ t.search
     \/ item.sel # None /\ item.state = "requested" /\ ~ item.available
     \/ item.state = "selected"

\* ListFailedQueueRetryTargets.
FailedTarget(t) ==
  /\ ~ item.available /\ ~ item.held
  /\ \/ item.state = "failed" /\ (item.reason = "restart" \/ (t.dispatch /\ t.search))
     \/ item.state = "requested" /\ item.sel # None

AsListed == [reason |-> IF item.state = "requested" THEN "restart" ELSE item.reason, sel |-> item.sel # None,
             fails |-> IF item.sel = None THEN 0 ELSE cand[item.sel].fails]

-----------------------------------------------------------------------------
(* The policy. *)

\* Classify and the default matrix; what it cannot read is left alone.
DecideFromReason(reason) ==
  CASE reason = "missing" -> "block and search"
    [] reason = "forbidden" -> "retry later"
    [] reason \in {"rejected", "restart"} -> "search"
    [] OTHER -> "nothing"

\* decideRetryQueueAction: the user's action goes first, but not for a selection
\* that was never tried.
decideRetryQueueAction(t) ==
  LET matrix == DecideFromReason(t.reason)
  IN IF policy[t.reason] # "nothing" /\ ~ (t.sel /\ t.fails = 0) THEN policy[t.reason]
     ELSE IF matrix = "block and search" \/ (matrix = "retry later" /\ t.fails >= RetryLimit) THEN "block and search"
     ELSE IF matrix = "nothing" THEN "nothing"
     ELSE IF t.reason = "restart" /\ t.sel /\ t.fails = 0 THEN "requeue"
     ELSE "retry"

\* Update of the settings.
UpdatePolicy ==
  /\ policy' \in Settings \ {policy}
  /\ UNCHANGED <<item, cand, blocked, timer, jobs, work, pass, search>>

-----------------------------------------------------------------------------
(* Selections. *)

Viable == {c \in Candidates : cand[c].state = "free" /\ c \notin blocked}
NoBackoff == [timer EXCEPT !.dispatch = TRUE]

Take(c) ==
  /\ item' = [item EXCEPT !.state = "selected", !.sel = c, !.reason = ""]
  /\ jobs' = jobs \cup {c}
  /\ timer' = timer

\* The best of what is left, or the item fails for reason.
PromoteOrFail(left, reason) ==
  IF left # {}
  THEN Take(CHOOSE c \in left : \A d \in left : c <= d)
  ELSE /\ item' = [item EXCEPT !.state = "failed", !.sel = None, !.reason = reason]
       /\ timer' = timer
       /\ jobs' = jobs

\* blocklistKeysForRelease of the selection; of every candidate there is without one.
BlocklistQueueSelectedRelease ==
  blocked' = blocked \cup (IF item.sel # None THEN {item.sel} ELSE {c \in Candidates : cand[c].state # "absent"})

ClearQueueSelectedRelease ==
  /\ item' = IF item.sel # None THEN [item EXCEPT !.sel = None] ELSE [item EXCEPT !.state = "requested"]
  /\ timer' = NoBackoff

RequeueSelectedRelease ==
  IF item.sel # None
  THEN item' = [item EXCEPT !.state = "requested", !.reason = ""] /\ timer' = NoBackoff
  ELSE UNCHANGED <<item, timer>>

-----------------------------------------------------------------------------
(* Searches: one of an item at a time, the second caller returns at once. *)

SearchLibrary(who) ==
  IF search # "none" THEN search' = search
  ELSE search' = IF item.available /\ item.sel # None THEN who \o " upgrade" ELSE who

\* ReplaceSearchCandidates: with a release to protect an upgrade is staged, which
\* is not of this module, or none is; without one the best is selected.
SearchEnds ==
  /\ search # "none"
  /\ \E found \in SUBSET Candidates :
       IF search \in {"work upgrade", "pass upgrade"} /\ item.sel # None
       THEN /\ item' = [item EXCEPT !.state = "available"]
            /\ UNCHANGED <<cand, jobs>> /\ timer' = timer
       ELSE /\ cand' = [c \in Candidates |->
                          [state |-> IF c \notin found THEN "absent" ELSE IF c \in blocked THEN "rejected" ELSE "free",
                           fails |-> cand[c].fails]]
            /\ LET usable == {c \in found \ blocked : cand[c].fails = 0}
               IN IF usable # {}
                  THEN /\ item' = [item EXCEPT !.state = "selected", !.available = FALSE, !.reason = "",
                                               !.sel = CHOOSE c \in usable : \A d \in usable : c <= d]
                       /\ jobs' = jobs \cup {item'.sel}
                       /\ timer' = timer
                  ELSE PromoteOrFail({}, IF found = {} THEN "none" ELSE "rejected")
  /\ search' = "none"
  /\ work' = IF work = "search" THEN "touch" ELSE work
  /\ pass' = IF pass.todo # <<>> /\ Head(pass.todo) = "wait" THEN [pass EXCEPT !.todo = Tail(@)] ELSE pass
  /\ UNCHANGED <<blocked, policy>>

\* The search fails: nothing changes but that it is over.
SearchFails ==
  /\ search # "none"
  /\ search' = "none"
  /\ work' = IF work = "search" THEN "touch" ELSE work
  /\ pass' = IF pass.todo # <<>> /\ Head(pass.todo) = "wait" THEN [pass EXCEPT !.todo = Tail(@)] ELSE pass
  /\ UNCHANGED <<item, cand, blocked, timer, policy, jobs>>

TouchQueueItemSearched == timer' = IF item.state # "available" THEN [timer EXCEPT !.search = FALSE] ELSE timer

-----------------------------------------------------------------------------
(* The pending list and the work queue. *)

\* RecordDispatchAttempt
Submit(c) ==
  /\ jobs' = jobs \cup {c}
  /\ timer' = [timer EXCEPT !.dispatch = FALSE]

\* SearchPendingLibrary, and DispatchAutomaticPending for what is selected.  A job
\* of the item that is there already takes the place of a second one.
SearchPendingLibrary ==
  /\ PendingTarget(timer)
  /\ IF item.sel # None
     THEN timer.dispatch /\ Submit(item.sel) /\ work' = work
     ELSE work = "none" /\ work' = "queued" /\ UNCHANGED <<jobs, timer>>
  /\ UNCHANGED <<item, cand, blocked, policy, pass, search>>

\* ProcessLibraryItem
ProcessLibraryItem ==
  /\ work = "queued"
  /\ IF item.sel # None
     THEN jobs' = jobs \cup {item.sel} /\ work' = "none" /\ search' = search
     ELSE SearchLibrary("work") /\ work' = (IF search = "none" THEN "search" ELSE "touch") /\ jobs' = jobs
  /\ UNCHANGED <<item, cand, blocked, timer, policy, pass>>

TouchWork ==
  /\ work = "touch"
  /\ TouchQueueItemSearched
  /\ work' = "none"
  /\ UNCHANGED <<item, cand, blocked, policy, jobs, pass, search>>

-----------------------------------------------------------------------------
(* RetryFailedQueue, one target of it. *)

List ==
  /\ pass = NoPass
  /\ FailedTarget(timer)
  /\ pass' = [todo |-> <<"decide">>, target |-> AsListed]
  /\ UNCHANGED <<item, cand, blocked, timer, policy, jobs, work, search>>

\* The row is read again: the release selected by now, or the best of the others,
\* is downloaded, or the item is searched for.
RetryQueueItem ==
  IF item.state = "available" THEN pass' = NoPass /\ UNCHANGED <<item, timer, jobs>>
  ELSE IF item.sel # None /\ (cand[item.sel].fails = 0 \/ Viable \ {item.sel} = {})
  THEN pass' = NoPass /\ timer' = [timer EXCEPT !.dispatch = TRUE] /\ jobs' = jobs \cup {item.sel} /\ item' = item
  ELSE IF Viable \ {item.sel} # {} THEN pass' = NoPass /\ PromoteOrFail(Viable \ {item.sel}, "")
  ELSE /\ pass' = [pass EXCEPT !.todo = <<"search", "wait">>]
       /\ timer' = [timer EXCEPT !.dispatch = TRUE]
       /\ UNCHANGED <<item, jobs>>

Steps(action) ==
  CASE action = "remove, block and search" -> <<"block", "clear", "search", "wait", "touch">>
    [] action = "remove and block" -> <<"block", "clear">>
    [] action = "block and search" -> <<"block", "search", "wait", "touch">>
    [] action = "search" -> <<"search", "wait", "touch">>
    [] action = "remove" -> <<"clear">>
    [] action = "nothing" -> <<>>

\* What needs a search is left for another pass once the cap is reached.
Decide ==
  /\ pass.todo = <<"decide">>
  /\ LET action == decideRetryQueueAction(pass.target)
     IN \/ /\ action \notin {"requeue", "retry"}
           /\ \/ pass' = IF action = "nothing" THEN NoPass ELSE [pass EXCEPT !.todo = Steps(action)]
              \/ action \notin {"remove", "remove and block"} /\ pass' = NoPass
           /\ UNCHANGED <<item, jobs, timer>>
        \/ action = "requeue" /\ RequeueSelectedRelease /\ pass' = NoPass /\ jobs' = jobs
        \/ action = "retry" /\ RetryQueueItem
  /\ UNCHANGED <<cand, blocked, policy, work, search>>

Does(step) == pass.todo # <<>> /\ Head(pass.todo) = step
Rest(n) == pass' = IF Len(pass.todo) <= n THEN NoPass ELSE [pass EXCEPT !.todo = SubSeq(@, n + 1, Len(@))]

Block ==
  /\ Does("block")
  /\ BlocklistQueueSelectedRelease
  /\ Rest(1)
  /\ UNCHANGED <<item, cand, timer, policy, jobs, work, search>>

Clear ==
  /\ Does("clear")
  /\ \/ ClearQueueSelectedRelease /\ Rest(1)
     \/ UNCHANGED <<item, timer>> /\ pass' = NoPass
  /\ UNCHANGED <<cand, blocked, policy, jobs, work, search>>

SearchAgain ==
  /\ Does("search")
  /\ SearchLibrary("pass")
  /\ Rest(IF search = "none" THEN 1 ELSE 2)
  /\ UNCHANGED <<item, cand, blocked, timer, policy, jobs, work>>

TouchPass ==
  /\ Does("touch")
  /\ TouchQueueItemSearched
  /\ Rest(1)
  /\ UNCHANGED <<item, cand, blocked, policy, jobs, work, search>>

-----------------------------------------------------------------------------
(* Downloads, the user, the clock and the restart. *)

Fails(c, reason) ==
  /\ cand' = [cand EXCEPT ![c].fails = IF @ < RetryLimit THEN @ + 1 ELSE @,
                          ![c].state = IF reason = "missing" THEN "rejected" ELSE @]
  /\ blocked' = IF reason = "missing" THEN blocked \cup {c} ELSE blocked

\* A job of a release that is not selected any more ends, as one does whose URL is
\* in its cooldown; else it is fetched, and published or failed.
JobEnds(c) ==
  /\ c \in jobs
  /\ jobs' = jobs \ {c}
  /\ UNCHANGED <<item, cand, blocked, timer>>

Fetch(c) ==
  /\ c \in jobs /\ item.sel = c
  /\ item' = [item EXCEPT !.state = "working"]
  /\ timer' = timer
  /\ UNCHANGED <<cand, blocked, jobs>>

Published(c) ==
  /\ c \in jobs /\ item.sel = c
  /\ item' = [item EXCEPT !.state = "available", !.available = TRUE, !.reason = ""]
  /\ jobs' = jobs \ {c}
  /\ timer' = timer
  /\ UNCHANGED <<cand, blocked>>

\* FailSelectedReleaseAndPromoteNext, of a download or of a health check.
Failed(c, reason) ==
  /\ item.sel = c
  /\ c \in jobs \/ (item.available /\ reason = "missing")
  /\ Fails(c, reason)
  /\ LET left == {d \in Viable \ {c} : cand[d].fails = 0}
     IN IF left # {}
        THEN /\ item' = [item EXCEPT !.state = "selected", !.available = FALSE, !.reason = "",
                                     !.sel = CHOOSE d \in left : \A e \in left : d <= e]
             /\ jobs' = (jobs \ {c}) \cup {item'.sel}
        ELSE /\ item' = [item EXCEPT !.state = "failed", !.sel = None, !.available = FALSE, !.reason = reason]
             /\ jobs' = jobs \ {c}
  /\ timer' = timer

Download ==
  /\ \E c \in Candidates :
       \/ JobEnds(c) \/ Fetch(c) \/ Published(c)
       \/ \E reason \in {"missing", "forbidden", "unknown"} : Failed(c, reason)
  /\ UNCHANGED <<policy, work, pass, search>>

SelectReleaseCandidate(c) ==
  /\ cand[c].state # "absent"
  /\ item' = [item EXCEPT !.state = "selected", !.sel = c, !.reason = ""]
  /\ cand' = [cand EXCEPT ![c].state = "free"]
  /\ blocked' = blocked \ {c}
  /\ jobs' = jobs \cup {c}
  /\ timer' = timer

\* PauseQueueItem and ResumeQueueItem
Hold ==
  /\ item' = IF item.held THEN [item EXCEPT !.held = FALSE]
             ELSE [item EXCEPT !.held = TRUE, !.state = "requested", !.sel = None]
  /\ timer' = timer
  /\ UNCHANGED <<cand, blocked, jobs>>

ClearFailedQueue ==
  /\ item.state = "failed"
  /\ item' = [item EXCEPT !.state = "requested", !.reason = ""]
  /\ timer' = timer
  /\ UNCHANGED <<cand, blocked, jobs>>

User ==
  /\ (\E c \in Candidates : SelectReleaseCandidate(c)) \/ Hold \/ ClearFailedQueue
  /\ UNCHANGED <<policy, work, pass, search>>

ResetStaleQueueItems ==
  /\ item.state \in {"selected", "working"}
  /\ item' = [item EXCEPT !.state = "failed", !.reason = "restart"]
  /\ timer' = timer
  /\ UNCHANGED <<cand, blocked, policy, jobs, work, pass, search>>

Wait ==
  /\ \/ \E t \in {"search", "dispatch"} : ~ timer[t] /\ timer' = [timer EXCEPT ![t] = TRUE] /\ blocked' = blocked
     \/ \E c \in blocked : blocked' = blocked \ {c} /\ timer' = timer
  /\ UNCHANGED <<item, cand, policy, jobs, work, pass, search>>

\* ResetStuckQueueItems and RecoverInterruptedDownloads.  The work queue is kept in
\* Redis, and what a worker had of it is given out again.
Restart ==
  LET interrupted == item.state \in {"selected", "working"} \/ (item.state = "failed" /\ item.reason = "restart")
  IN /\ item' = IF ~ interrupted THEN item
                ELSE IF item.sel = None THEN [item EXCEPT !.state = "failed", !.reason = "restart"]
                ELSE [item EXCEPT !.state = "requested", !.reason = ""]
     /\ timer' = timer
     /\ jobs' = {}
     /\ pass' = NoPass
     /\ search' = "none"
     /\ work' = IF work = "none" THEN "none" ELSE "queued"
     /\ UNCHANGED <<cand, blocked, policy>>

Next ==
  \/ SearchPendingLibrary \/ ProcessLibraryItem \/ TouchWork
  \/ List \/ Decide \/ Block \/ Clear \/ SearchAgain \/ TouchPass
  \/ SearchEnds \/ SearchFails
  \/ Download \/ User \/ UpdatePolicy
  \/ ResetStaleQueueItems \/ Wait \/ Restart

Spec == Init /\ [][Next]_vars

-----------------------------------------------------------------------------
AllOver == [search |-> TRUE, dispatch |-> TRUE]

\* However the lists, the policy, the downloads and the user interleave, an item
\* that is neither available nor held is one that some pass will take up once its
\* intervals are over.  Left out is what ListPendingLibrarySearchTargets and
\* ListFailedQueueRetryTargets both miss: a row that a search for an upgrade set to
\* available after its release had failed.
NothingForgotten ==
  ~ item.available /\ ~ item.held /\ item.state # "available"
  => \/ PendingTarget(AllOver)
     \/ FailedTarget(AllOver) /\ decideRetryQueueAction(AsListed) # "nothing"
     \/ item.state = "working"

-----------------------------------------------------------------------------
\* A failed row with a release is one that a restart of its work has left so.
Interrupted == item.state = "failed" /\ item.sel # None => item.reason = "restart"

Rows(S) ==
  [state : {"requested", "selected", "working", "failed", "available"}, sel : S,
   available : BOOLEAN, held : BOOLEAN, reason : Reasons]

RetryInv == (\E S : item \in Rows(S)) /\ Interrupted
=============================================================================
