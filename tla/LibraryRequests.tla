--------------------------- MODULE LibraryRequests ---------------------------
(***************************************************************************)
(* From requests in Seerr to library items and back: SyncRequests with its *)
(* single flight, SyncPlexDetectedShows, the enrichment batch that queues  *)
(* what was created, DeleteMedia and the retry of its cleanup              *)
(* (internal/workflow/service.go), the upserts of a request and the        *)
(* deletion's transaction (database/workflow_repository.go,                *)
(* database/media_deletion_repository.go), and what of the Seerr client    *)
(* they rest on (seerr/client.go).                                         *)
(*                                                                         *)
(* A title has parts: a movie one, a show its episodes.  A request of Seerr*)
(* asks for a title, and stands in the database once per part.  Metadata   *)
(* and files are left out.                                                 *)
(***************************************************************************)
EXTENDS Integers, FiniteSets, TLAPS

CONSTANTS
  Syncers,  \* the scheduler, webhooks and API calls that start a sync
  Movies, Shows, Episodes,
  MaxId,    \* bound on the requests made
  Faults,   \* bound on external calls that fail
  Stops     \* bound on restarts of the process

VARIABLES
  seerr,    \* requests Seerr lists
  nextId,
  known,    \* media_requests: <<request, part>>
  items,    \* library items with their queue rows; id and part are the idempotency key
  jobs,     \* media_cleanup_jobs
  mutex,    \* the holder of mediaMutationMu
  flight,   \* the leader of activeRequestSync
  sync,     \* per syncer: where it is, entries left, items made
  cleaner,  \* DeleteMedia or RetryPendingMediaCleanup at work
  batch,    \* items of enrichment batches under way
  queue,    \* the items that went to the search queue
  awaiting, \* items that only the next sweep over pending items will queue
  upTo,     \* per title: the last request made when it was last deleted
  faults, stops

requestVars == <<seerr, nextId, known, items, jobs, mutex, flight, sync, cleaner, batch, queue, awaiting, upTo, faults, stops>>

Media == Movies \cup Shows
Parts(m) == IF m \in Shows THEN Episodes ELSE {1}
NoOne == "none"
Cleaner == "cleaner"
Resting == [pc |-> "idle", left |-> {}, made |-> {}]
Idle == [pc |-> "idle", media |-> "none", ext |-> {}, ok |-> TRUE]
Listed == [id : 1 .. MaxId, media : Media]
Item == [id : 1 .. MaxId, media : Media, part : {1} \cup Episodes]

TypeOK ==
  /\ seerr \subseteq Listed /\ nextId \in 1 .. MaxId + 1
  /\ known \subseteq (1 .. MaxId) \X ({1} \cup Episodes)
  /\ items \cup batch \cup queue \cup awaiting \subseteq Item
  /\ \A x, y \in items : x.media = y.media /\ x.part = y.part => x = y
  /\ \A j \in jobs : j.media \in Media /\ j.pending \in BOOLEAN /\ j.ext \subseteq (1 .. MaxId) \X ({1} \cup Episodes)
  /\ mutex \in Syncers \cup {NoOne, Cleaner} /\ flight \in Syncers \cup {NoOne}
  /\ \A c \in Syncers : /\ sync[c].left \cup sync[c].made \subseteq Item
                        /\ sync[c].pc \in {"idle", "ride", "lock", "detect", "list", "upsert", "close"}
  /\ cleaner.pc \in {"idle", "lock", "next", "remove", "record"}

Init ==
  /\ seerr = {} /\ nextId = 1
  /\ known = {} /\ items = {} /\ jobs = {}
  /\ mutex = NoOne /\ flight = NoOne
  /\ sync = [c \in Syncers |-> Resting]
  /\ cleaner = Idle
  /\ batch = {} /\ queue = {} /\ awaiting = {}
  /\ upTo = [m \in Media |-> 0]
  /\ faults = 0 /\ stops = 0

tables == <<known, items, jobs>>
work == <<batch, queue, awaiting>>
Fault == faults < Faults /\ faults' = faults + 1

-----------------------------------------------------------------------------
\* Seerr.

Requested(m) == /\ nextId <= MaxId
                /\ seerr' = seerr \cup {[id |-> nextId, media |-> m]}
                /\ nextId' = nextId + 1

\* Somebody asks Seerr for a title, there or through CreateSeerrRequest.
CreateRequest(m) ==
  /\ Requested(m)
  /\ UNCHANGED <<known, items, jobs, mutex, flight, sync, cleaner, batch, queue, awaiting, upTo, faults, stops>>

-----------------------------------------------------------------------------
\* One pass over the requests.

SyncRequests(c) ==
  /\ sync[c].pc = "idle"
  /\ IF flight = NoOne
       THEN flight' = c /\ sync' = [sync EXCEPT ![c].pc = "lock"]
       ELSE UNCHANGED flight /\ sync' = [sync EXCEPT ![c].pc = "ride"]
  /\ UNCHANGED <<seerr, nextId, known, items, jobs, mutex, cleaner, batch, queue, awaiting, upTo, faults, stops>>

\* A waiting caller may end its own wait.
GiveUp(c) ==
  /\ sync[c].pc = "ride"
  /\ sync' = [sync EXCEPT ![c] = Resting]
  /\ UNCHANGED <<seerr, nextId, known, items, jobs, mutex, flight, cleaner, batch, queue, awaiting, upTo, faults, stops>>

SyncPlexDetectedShows(c) ==
  /\ sync[c].pc = "idle" /\ mutex = NoOne
  /\ mutex' = c
  /\ sync' = [sync EXCEPT ![c].pc = "detect"]
  /\ UNCHANGED <<seerr, nextId, known, items, jobs, flight, cleaner, batch, queue, awaiting, upTo, faults, stops>>

\* It asks for a show Plex has in part and Seerr has no request for.
CreateTVSeasonRequestNoWait(c) ==
  /\ sync[c].pc = "detect"
  /\ \E m \in Shows : (\A r \in seerr : r.media # m) /\ Requested(m)
  /\ sync' = [sync EXCEPT ![c].pc = "list"]
  /\ UNCHANGED <<known, items, jobs, mutex, flight, cleaner, batch, queue, awaiting, upTo, faults, stops>>

NothingDetected(c) ==
  /\ sync[c].pc = "detect"
  /\ mutex' = NoOne
  /\ sync' = [sync EXCEPT ![c] = Resting]
  /\ UNCHANGED <<seerr, nextId, known, items, jobs, flight, cleaner, batch, queue, awaiting, upTo, faults, stops>>

Lock(c) ==
  /\ sync[c].pc = "lock" /\ mutex = NoOne
  /\ mutex' = c
  /\ sync' = [sync EXCEPT ![c].pc = "list"]
  /\ UNCHANGED <<seerr, nextId, known, items, jobs, flight, cleaner, batch, queue, awaiting, upTo, faults, stops>>

Entries == {x \in Item : [id |-> x.id, media |-> x.media] \in seerr /\ x.part \in Parts(x.media)}

PendingRequests(c) ==
  /\ sync[c].pc = "list"
  /\ \/ sync' = [sync EXCEPT ![c].pc = "upsert", ![c].left = Entries] /\ UNCHANGED faults
     \/ Fault /\ sync' = [sync EXCEPT ![c].pc = "upsert"]
  /\ UNCHANGED <<seerr, nextId, known, items, jobs, mutex, flight, cleaner, batch, queue, awaiting, upTo, stops>>

\* A deletion blocks the requests it knew for ever, and its title until its cleanup
\* is complete.
M_mediaCleanupBlocksRequest(x) == \E j \in jobs : <<x.id, x.part>> \in j.ext

mediaCleanupBlocksRequest(x) ==
  \E j \in jobs : <<x.id, x.part>> \in j.ext \/ (j.pending /\ j.media = x.media)

Of(m, p) == {x \in items : x.media = m /\ x.part = p}

\* UpsertMovieRequest and UpsertEpisodeRequest, each one transaction.
Settled(x) == <<x.id, x.part>> \in known
              /\ (Of(x.media, x.part) # {} \/ \E y \in items : y.id = x.id /\ y.part = x.part)

Upsert(c) ==
  /\ sync[c].pc = "upsert"
  /\ \E x \in sync[c].left :
       IF Settled(x) \/ mediaCleanupBlocksRequest(x)
         THEN /\ sync' = [sync EXCEPT ![c].left = @ \ {x}]
              /\ UNCHANGED <<known, items>>
         ELSE LET new == IF Of(x.media, x.part) = {} THEN {x} ELSE {} IN
              /\ known' = known \cup {<<x.id, x.part>>}
              /\ items' = items \cup new
              /\ sync' = [sync EXCEPT ![c].left = @ \ {x}, ![c].made = @ \cup Of(x.media, x.part) \cup new]
  /\ UNCHANGED <<seerr, nextId, jobs, mutex, flight, cleaner, batch, queue, awaiting, upTo, faults, stops>>

\* A movie that cannot be stored ends the pass, an episode or a season is passed over.
UpsertFails(c) ==
  /\ sync[c].pc = "upsert" /\ Fault
  /\ \E x \in sync[c].left :
       sync' = [sync EXCEPT ![c].left = IF x.media \in Movies THEN {} ELSE @ \ {x}]
  /\ UNCHANGED <<seerr, nextId, known, items, jobs, mutex, flight, cleaner, batch, queue, awaiting, upTo, stops>>

\* The deferred start of the batch, whether the pass succeeded or not, then the
\* unlock.
M_Unlock(c) ==
  /\ sync[c].pc = "upsert" /\ sync[c].left = {}
  /\ batch' = IF faults = 0 THEN batch \cup sync[c].made ELSE batch
  /\ mutex' = NoOne
  /\ sync' = [sync EXCEPT ![c].pc = "close", ![c].made = {}]
  /\ UNCHANGED <<seerr, nextId, known, items, jobs, flight, cleaner, queue, awaiting, upTo, faults, stops>>

Unlock(c) ==
  /\ sync[c].pc = "upsert" /\ sync[c].left = {}
  /\ batch' = batch \cup sync[c].made
  /\ mutex' = NoOne
  /\ sync' = [sync EXCEPT ![c].pc = "close", ![c].made = {}]
  /\ UNCHANGED <<seerr, nextId, known, items, jobs, flight, cleaner, queue, awaiting, upTo, faults, stops>>

\* The deferred end of the flight answers everybody who waits for it.
Close(c) ==
  /\ sync[c].pc = "close"
  /\ flight' = IF flight = c THEN NoOne ELSE flight
  /\ sync' = [d \in Syncers |-> IF d = c \/ (flight = c /\ sync[d].pc = "ride") THEN Resting ELSE sync[d]]
  /\ UNCHANGED <<seerr, nextId, known, items, jobs, mutex, cleaner, batch, queue, awaiting, upTo, faults, stops>>

-----------------------------------------------------------------------------
\* What becomes of the items.

\* The batch has looked up its metadata, or has tried to, and queues its items.
PushLibraryItemsToQueue ==
  /\ batch # {}
  /\ queue' = queue \cup batch
  /\ batch' = {}
  /\ UNCHANGED <<seerr, nextId, known, items, jobs, mutex, flight, sync, cleaner, awaiting, upTo, faults, stops>>

PushPendingToQueue ==
  /\ awaiting # {}
  /\ queue' = queue \cup (awaiting \cap items)
  /\ awaiting' = {}
  /\ UNCHANGED <<seerr, nextId, known, items, jobs, mutex, flight, sync, cleaner, batch, upTo, faults, stops>>

\* The process ends; the tables, Seerr and the search queue stay.
Stop ==
  /\ stops < Stops
  /\ stops' = stops + 1
  /\ mutex' = NoOne /\ flight' = NoOne
  /\ sync' = [c \in Syncers |-> Resting]
  /\ cleaner' = Idle
  /\ awaiting' = awaiting \cup batch \cup UNION {sync[c].made : c \in Syncers}
  /\ batch' = {}
  /\ UNCHANGED <<seerr, nextId, known, items, jobs, queue, upTo, faults>>

-----------------------------------------------------------------------------
\* Deletion.

Clean == /\ cleaner.pc = "idle"
         /\ cleaner' = [cleaner EXCEPT !.pc = "lock"]
         /\ UNCHANGED <<seerr, nextId, known, items, jobs, mutex, flight, sync, batch, queue, awaiting, upTo, faults, stops>>

Bases(ext) == {e[1] : e \in ext}

\* DeleteMediaByLibraryItem's transaction, then the search jobs of what it deleted.
DeleteMedia(m) ==
  /\ cleaner.pc = "lock" /\ mutex = NoOne
  /\ \E x \in items : x.media = m
  /\ LET gone == {x \in items : x.media = m}
         ext == {<<x.id, x.part>> : x \in gone} \cap known
     IN /\ items' = items \ gone
        /\ known' = IF m \in Shows THEN {k \in known : k[1] \notin Bases(ext)} ELSE known \ ext
        /\ jobs' = jobs \cup {[media |-> m, ext |-> ext, pending |-> TRUE]}
        /\ queue' = queue \ gone
        /\ cleaner' = [pc |-> "remove", media |-> m, ext |-> ext, ok |-> TRUE]
  /\ mutex' = Cleaner
  /\ upTo' = [upTo EXCEPT ![m] = nextId - 1]
  /\ UNCHANGED <<seerr, nextId, flight, sync, batch, awaiting, faults, stops>>

RetryPendingMediaCleanup ==
  /\ cleaner.pc = "lock" /\ mutex = NoOne
  /\ \E j \in jobs : /\ j.pending
                     /\ cleaner' = [pc |-> "remove", media |-> j.media, ext |-> j.ext, ok |-> TRUE]
  /\ mutex' = Cleaner
  /\ UNCHANGED <<seerr, nextId, known, items, jobs, flight, sync, batch, queue, awaiting, upTo, faults, stops>>

\* RemoveMedia: the requests of the job and all Seerr lists for the title, which
\* it may fail to list, and any of which it may fail to delete.
RemoveMedia ==
  /\ cleaner.pc = "remove"
  /\ LET own == {r \in seerr : r.id \in Bases(cleaner.ext)}
         all == own \cup {r \in seerr : r.media = cleaner.media}
     IN \/ /\ seerr' = seerr \ all
           /\ cleaner' = [cleaner EXCEPT !.pc = "record"]
           /\ UNCHANGED faults
        \/ /\ Fault
           /\ \E gone \in SUBSET all : seerr' = seerr \ gone
           /\ cleaner' = [cleaner EXCEPT !.pc = "record", !.ok = FALSE]
  /\ UNCHANGED <<nextId, known, items, jobs, mutex, flight, sync, batch, queue, awaiting, upTo, stops>>

\* The job is complete only if nothing failed, its own record included.
RecordMediaCleanupAttempt ==
  /\ cleaner.pc = "record"
  /\ \/ /\ cleaner.ok
        /\ jobs' = {IF j.media = cleaner.media /\ j.ext = cleaner.ext THEN [j EXCEPT !.pending = FALSE] ELSE j : j \in jobs}
        /\ UNCHANGED faults
     \/ /\ ~cleaner.ok
        /\ UNCHANGED <<jobs, faults>>
     \/ /\ cleaner.ok /\ Fault
        /\ UNCHANGED jobs
  /\ mutex' = NoOne
  /\ cleaner' = Idle
  /\ UNCHANGED <<seerr, nextId, known, items, flight, sync, batch, queue, awaiting, upTo, stops>>

Next ==
  \/ \E m \in Media : CreateRequest(m) \/ DeleteMedia(m)
  \/ \E c \in Syncers :
       \/ SyncRequests(c) \/ GiveUp(c) \/ Lock(c) \/ PendingRequests(c)
       \/ Upsert(c) \/ UpsertFails(c) \/ Unlock(c) \/ Close(c)
       \/ SyncPlexDetectedShows(c) \/ CreateTVSeasonRequestNoWait(c) \/ NothingDetected(c)
  \/ PushLibraryItemsToQueue \/ PushPendingToQueue \/ Stop
  \/ Clean \/ RetryPendingMediaCleanup \/ RemoveMedia \/ RecordMediaCleanupAttempt

Spec == Init /\ [][Next]_requestVars

-----------------------------------------------------------------------------
\* What was deleted comes back only for a request made after the deletion, and not
\* while a cleanup is pending that would unlink its files.
DeletedStaysDeleted ==
  \A x \in items : x.id > upTo[x.media] /\ \A j \in jobs : j.media = x.media => ~j.pending

\* What a pass created goes to the search queue, with its batch or, after a restart,
\* with the next sweep: also when the pass failed.
CreatedIsDispatched ==
  items \subseteq queue \cup batch \cup awaiting \cup UNION {sync[c].made : c \in Syncers}

\* Whoever waits for a pass waits for one under way.
WaiterHasPass == \A c \in Syncers : sync[c].pc = "ride" => flight # NoOne /\ sync[flight].pc # "idle"
-----------------------------------------------------------------------------
(***************************************************************************)
(* What the three rest on: whoever has a list of requests holds the mutex, *)
(* so no deletion comes between the list and its upserts; a request made   *)
(* before a deletion is blocked by a pending cleanup as long as Seerr      *)
(* lists it; a cleanup is complete only when Seerr lists it no more; and   *)
(* the leader of a flight is under way until it has answered everybody.    *)
(***************************************************************************)
Sizes == NoOne \notin Syncers /\ Cleaner \notin Syncers /\ MaxId \in Nat

Sync == [pc : {"idle", "ride", "lock", "detect", "list", "upsert", "close"}, left : SUBSET Item, made : SUBSET Item]

Shapes ==
  /\ seerr \subseteq Listed /\ nextId \in 1 .. MaxId + 1
  /\ items \subseteq Item
  /\ \A j \in jobs : j = [media |-> j.media, ext |-> j.ext, pending |-> j.pending] /\ j.pending \in BOOLEAN
  /\ sync \in [Syncers -> Sync]
  /\ cleaner = [pc |-> cleaner.pc, media |-> cleaner.media, ext |-> cleaner.ext, ok |-> cleaner.ok]
  /\ upTo \in [Media -> Nat] /\ \A m \in Media : upTo[m] < nextId

MutexIsHeld ==
  /\ \A c \in Syncers : sync[c].pc \in {"detect", "list", "upsert"} => mutex = c
  /\ cleaner.pc \in {"remove", "record"} => mutex = Cleaner
  /\ \A c \in Syncers : sync[c].left # {} \/ sync[c].made # {} => sync[c].pc = "upsert"

LeaderIsUnderWay ==
  flight # NoOne => flight \in Syncers /\ sync[flight].pc \in {"lock", "list", "upsert", "close"}

IsPending(m) == \E j \in jobs : j.media = m /\ j.pending

StaleIsBlocked ==
  /\ \A r \in seerr : r.id <= upTo[r.media] => IsPending(r.media)
  /\ \A c \in Syncers : \A x \in sync[c].left : x.id <= upTo[x.media] => IsPending(x.media)

RemovedIsGone ==
  cleaner.pc = "record" /\ cleaner.ok => \A r \in seerr : r.media = cleaner.media => r.id > upTo[r.media]

RequestsInv ==
  /\ Shapes /\ MutexIsHeld /\ LeaderIsUnderWay /\ WaiterHasPass
  /\ StaleIsBlocked /\ RemovedIsGone /\ DeletedStaysDeleted /\ CreatedIsDispatched

\* Nobody syncs, and nothing was ever deleted.
LEMMA RequestsBegin == ASSUME Sizes, Init PROVE RequestsInv
<1> USE DEF Sizes, Init, Resting, Idle
<1>1. Shapes
  BY DEF Shapes, Sync, Media
<1>2. MutexIsHeld /\ LeaderIsUnderWay /\ WaiterHasPass
  BY DEF MutexIsHeld, LeaderIsUnderWay, WaiterHasPass
<1>3. StaleIsBlocked /\ RemovedIsGone /\ DeletedStaysDeleted /\ CreatedIsDispatched
  BY DEF StaleIsBlocked, RemovedIsGone, DeletedStaysDeleted, CreatedIsDispatched
<1> QED
  BY <1>1, <1>2, <1>3 DEF RequestsInv

\* One syncer goes on.
LEMMA SyncerMoves ==
  ASSUME Shapes, NEW c \in Syncers, NEW x \in Sync, sync' = [sync EXCEPT ![c] = x]
  PROVE  sync' \in [Syncers -> Sync] /\ sync'[c] = x /\ \A d \in Syncers \ {c} : sync'[d] = sync[d]
BY DEF Shapes

\* CreatedIsDispatched, item by item.
IsDispatched(x) == x \in queue \/ x \in batch \/ x \in awaiting \/ \E c \in Syncers : x \in sync[c].made
\* Items are created and dispatched one at a time.
LEMMA ItemByItem == CreatedIsDispatched <=> \A y \in items : IsDispatched(y)
BY DEF CreatedIsDispatched, IsDispatched

\* A request of Seerr is made, by a user or for a show Plex has in part.
LEMMA RequestIsMade ==
  ASSUME Sizes, Shapes, StaleIsBlocked, RemovedIsGone, DeletedStaysDeleted,
         NEW m \in Media, Requested(m), UNCHANGED <<items, jobs, cleaner, upTo>>,
         \A c \in Syncers : sync'[c].left = sync[c].left
  PROVE  /\ seerr' \subseteq Listed /\ nextId' \in 1 .. MaxId + 1 /\ \A n \in Media : upTo'[n] < nextId'
         /\ StaleIsBlocked' /\ RemovedIsGone' /\ DeletedStaysDeleted'
<1> DEFINE r == [id |-> nextId, media |-> m]
<1>1. r \in Listed /\ r.id = nextId /\ r.media = m /\ seerr' = seerr \cup {r} /\ nextId' = nextId + 1
  BY DEF Requested, Shapes, Sizes, Listed
<1>2. nextId \in 1 .. MaxId /\ nextId' \in 1 .. MaxId + 1 /\ upTo[m] < nextId /\ upTo \in [Media -> Nat]
  BY <1>1 DEF Requested, Shapes, Sizes
<1> HIDE DEF r
<1>3. seerr' \subseteq Listed /\ \A n \in Media : upTo'[n] < nextId'
  BY <1>1, <1>2 DEF Shapes, Sizes
<1>4. DeletedStaysDeleted'
  BY DEF DeletedStaysDeleted
<1>5. \A n : IsPending(n)' <=> IsPending(n)
  BY DEF IsPending
<1>6. r.id > upTo[r.media]
  BY <1>1, <1>2
<1>7. ~(r.id <= upTo[r.media])
  BY <1>1, <1>2
<1>8. StaleIsBlocked'
  BY <1>1, <1>5, <1>7 DEF StaleIsBlocked
<1>9. RemovedIsGone'
  BY <1>1, <1>6 DEF RemovedIsGone
<1> QED
  BY <1>2, <1>3, <1>4, <1>8, <1>9

\* Nothing about the requests and the deletions changes, but what is left of a pass
\* may be less.
LEMMA BlockedStays ==
  ASSUME StaleIsBlocked, RemovedIsGone, UNCHANGED <<seerr, jobs, upTo>>,
         cleaner' = cleaner \/ cleaner'.pc # "record" \/ ~cleaner'.ok,
         \A c \in Syncers : sync'[c].left \subseteq sync[c].left
  PROVE  StaleIsBlocked' /\ RemovedIsGone'
BY DEF StaleIsBlocked, RemovedIsGone, IsPending

\* What a syncer has in its hands is written field by field.
LEMMA HandsAreWritten ==
  ASSUME Shapes, NEW c \in Syncers
  PROVE  /\ \A k : [sync EXCEPT ![c].left = k]
                     = [sync EXCEPT ![c] = [pc |-> sync[c].pc, left |-> k, made |-> sync[c].made]]
         /\ \A q, k : [sync EXCEPT ![c].pc = q, ![c].left = k]
                        = [sync EXCEPT ![c] = [pc |-> q, left |-> k, made |-> sync[c].made]]
         /\ \A q, n : [sync EXCEPT ![c].pc = q, ![c].made = n]
                        = [sync EXCEPT ![c] = [pc |-> q, left |-> sync[c].left, made |-> n]]
         /\ \A k, n : [sync EXCEPT ![c].left = k, ![c].made = n]
                        = [sync EXCEPT ![c] = [pc |-> sync[c].pc, left |-> k, made |-> n]]
<1> DEFINE p == sync[c].pc  l == sync[c].left  m == sync[c].made
           r == sync[c]
<1>1. r = [pc |-> p, left |-> l, made |-> m]
  BY DEF Shapes, Sync
<1>2. ASSUME NEW k PROVE [sync EXCEPT ![c].left = k] = [sync EXCEPT ![c] = [pc |-> p, left |-> k, made |-> m]]
  <2>1. [sync EXCEPT ![c].left = k] = [sync EXCEPT ![c] = [r EXCEPT !.left = k]]
    BY DEF Shapes
  <2> HIDE DEF p, l, m, r
  <2>2. [r EXCEPT !.left = k] = [pc |-> p, left |-> k, made |-> m]
    BY <1>1
  <2> QED
    BY <2>1, <2>2
<1>3. ASSUME NEW q, NEW k
      PROVE  [sync EXCEPT ![c].pc = q, ![c].left = k] = [sync EXCEPT ![c] = [pc |-> q, left |-> k, made |-> m]]
  <2> DEFINE y == [r EXCEPT !.pc = q]
  <2>1. [sync EXCEPT ![c].pc = q, ![c].left = k] = [sync EXCEPT ![c] = [y EXCEPT !.left = k]]
    BY DEF Shapes
  <2> HIDE DEF p, l, m, r
  <2>2. y = [pc |-> q, left |-> l, made |-> m]
    BY <1>1
  <2> HIDE DEF y
  <2>3. [y EXCEPT !.left = k] = [pc |-> q, left |-> k, made |-> m]
    BY <2>2
  <2> QED
    BY <2>1, <2>3
<1>4. ASSUME NEW q, NEW n
      PROVE  [sync EXCEPT ![c].pc = q, ![c].made = n] = [sync EXCEPT ![c] = [pc |-> q, left |-> l, made |-> n]]
  <2> DEFINE y == [r EXCEPT !.pc = q]
  <2>1. [sync EXCEPT ![c].pc = q, ![c].made = n] = [sync EXCEPT ![c] = [y EXCEPT !.made = n]]
    BY DEF Shapes
  <2> HIDE DEF p, l, m, r
  <2>2. y = [pc |-> q, left |-> l, made |-> m]
    BY <1>1
  <2> HIDE DEF y
  <2>3. [y EXCEPT !.made = n] = [pc |-> q, left |-> l, made |-> n]
    BY <2>2
  <2> QED
    BY <2>1, <2>3
<1>5. ASSUME NEW k, NEW n
      PROVE  [sync EXCEPT ![c].left = k, ![c].made = n] = [sync EXCEPT ![c] = [pc |-> p, left |-> k, made |-> n]]
  <2> DEFINE x == [r EXCEPT !.left = k]
  <2>1. [sync EXCEPT ![c].left = k, ![c].made = n] = [sync EXCEPT ![c] = [x EXCEPT !.made = n]]
    BY DEF Shapes
  <2> HIDE DEF p, l, m, r
  <2>2. x = [pc |-> p, left |-> k, made |-> m]
    BY <1>1
  <2> HIDE DEF x
  <2>3. [x EXCEPT !.made = n] = [pc |-> p, left |-> k, made |-> n]
    BY <2>2
  <2> QED
    BY <2>1, <2>3
<1> QED
  BY <1>2, <1>3, <1>4, <1>5

\* A syncer with nothing in its hands comes to another place.
LEMMA PlaceOnly ==
  ASSUME Shapes, NEW c \in Syncers, NEW p, sync[c].left = {}, sync[c].made = {}
  PROVE  [sync EXCEPT ![c].pc = p] = [sync EXCEPT ![c] = [pc |-> p, left |-> {}, made |-> {}]]
<1>1. sync[c] = [pc |-> sync[c].pc, left |-> {}, made |-> {}]
  BY DEF Shapes, Sync
<1>2. [sync[c] EXCEPT !.pc = p] = [pc |-> p, left |-> {}, made |-> {}]
  BY <1>1
<1>3. [sync EXCEPT ![c].pc = p] = [sync EXCEPT ![c] = [sync[c] EXCEPT !.pc = p]]
  BY DEF Shapes
<1> QED
  BY <1>2, <1>3

\* The places after one syncer has come to p, with the mutex and the flight as they are
\* then.
LEMMA ControlMoves ==
  ASSUME Sizes, MutexIsHeld, LeaderIsUnderWay, WaiterHasPass, NEW c \in Syncers, NEW p,
         sync'[c].pc = p, \A d \in Syncers \ {c} : sync'[d] = sync[d], cleaner' = cleaner,
         mutex' = mutex \/ mutex = NoOne \/ mutex = c,
         p \in {"detect", "list", "upsert"} => mutex' = c,
         p # "upsert" => sync'[c].left = {} /\ sync'[c].made = {},
         \/ flight' = flight /\ (flight = c => p \in {"lock", "list", "upsert", "close"})
         \/ flight = NoOne /\ flight' = c /\ p = "lock",
         p = "ride" => flight # NoOne /\ flight' = flight /\ flight # c
  PROVE  MutexIsHeld' /\ LeaderIsUnderWay' /\ WaiterHasPass'
<1>1. MutexIsHeld'
  <2>1. \A d \in Syncers : sync'[d].pc \in {"detect", "list", "upsert"} => mutex' = d
    BY DEF MutexIsHeld, Sizes
  <2>2. cleaner'.pc \in {"remove", "record"} => mutex' = Cleaner
    BY DEF MutexIsHeld, Sizes, Cleaner, NoOne
  <2>3. \A d \in Syncers : sync'[d].left # {} \/ sync'[d].made # {} => sync'[d].pc = "upsert"
    BY DEF MutexIsHeld
  <2> QED
    BY <2>1, <2>2, <2>3 DEF MutexIsHeld
<1>2. LeaderIsUnderWay'
  BY DEF LeaderIsUnderWay, Sizes
<1>3. WaiterHasPass'
  <2>1. \A d \in Syncers : sync'[d].pc = "ride" => flight' # NoOne
    BY DEF WaiterHasPass, Sizes
  <2> QED
    BY <1>2, <2>1 DEF LeaderIsUnderWay, WaiterHasPass
<1> QED
  BY <1>1, <1>2, <1>3

\* A syncer comes to another place and takes nothing with it.
LEMMA QuietMove ==
  ASSUME Sizes, RequestsInv, NEW c \in Syncers, NEW p \in {"idle", "ride", "lock", "detect", "list", "close"},
         sync[c].pc # "upsert", sync' = [sync EXCEPT ![c] = [pc |-> p, left |-> {}, made |-> {}]]
  PROVE  /\ sync' \in [Syncers -> Sync] /\ sync'[c].pc = p /\ \A d \in Syncers \ {c} : sync'[d] = sync[d]
         /\ \A d \in Syncers : sync'[d].left = sync[d].left /\ sync'[d].made = sync[d].made
         /\ sync'[c].left = {} /\ sync'[c].made = {}
<1> DEFINE x == [pc |-> p, left |-> {}, made |-> {}]
<1>1. x \in Sync /\ x.pc = p /\ x.left = {} /\ x.made = {}
  BY DEF Sync
<1>2. Shapes /\ sync[c].left = {} /\ sync[c].made = {}
  BY DEF RequestsInv, MutexIsHeld
<1>3. sync' = [sync EXCEPT ![c] = x]
  OBVIOUS
<1> HIDE DEF x
<1>4. sync' \in [Syncers -> Sync] /\ sync'[c] = x /\ \A d \in Syncers \ {c} : sync'[d] = sync[d]
  BY <1>1, <1>2, <1>3, SyncerMoves
<1> QED
  BY <1>1, <1>2, <1>4

\* CreatedIsDispatched after a step.
LEMMA ItemsAreDispatched == ASSUME \A y \in items' : IsDispatched(y)' PROVE CreatedIsDispatched'
<1>1. (\A y \in items : IsDispatched(y))'
  OBVIOUS
<1> QED
  BY <1>1, ItemByItem, PTL

\* The items are where they were, and some perhaps on their way further.
LEMMA DispatchedStays ==
  ASSUME CreatedIsDispatched, items' \subseteq items,
         \A x \in items' : IsDispatched(x) => IsDispatched(x)'
  PROVE  CreatedIsDispatched'
<1>1. \A y \in items' : IsDispatched(y)'
  BY ItemByItem
<1> QED
  BY <1>1, ItemsAreDispatched

\* Every step of the passes, the deletions and the restarts keeps what the three rest on.
LEMMA RequestsStep == ASSUME Sizes, RequestsInv, Next PROVE RequestsInv'
<1> DEFINE Control == MutexIsHeld /\ LeaderIsUnderWay /\ WaiterHasPass
           Data == StaleIsBlocked /\ RemovedIsGone /\ DeletedStaysDeleted
           Quiet(c, p) == /\ sync[c].pc # "upsert"
                          /\ sync' = [sync EXCEPT ![c] = [pc |-> p, left |-> {}, made |-> {}]]
<1>1. Shapes /\ Control /\ Data /\ CreatedIsDispatched
  BY DEF RequestsInv
<1>2. ASSUME NEW c \in Syncers, sync[c].pc # "upsert"
      PROVE  sync[c].left = {} /\ sync[c].made = {}
  BY <1>1, <1>2 DEF MutexIsHeld
<1>3. ASSUME UNCHANGED <<items, jobs, upTo>> PROVE DeletedStaysDeleted'
  BY <1>1, <1>3 DEF DeletedStaysDeleted
<1>4. ASSUME NEW c \in Syncers, NEW p \in {"idle", "ride", "lock", "detect", "list", "close"}, Quiet(c, p)
      PROVE  /\ sync' \in [Syncers -> Sync] /\ sync'[c].pc = p /\ \A d \in Syncers \ {c} : sync'[d] = sync[d]
             /\ \A d \in Syncers : sync'[d].left = sync[d].left /\ sync'[d].made = sync[d].made
             /\ sync'[c].left = {} /\ sync'[c].made = {}
  BY <1>4, QuietMove
<1> HIDE DEF Quiet
<1>5. ASSUME NEW c \in Syncers, NEW p \in {"idle", "ride", "lock", "detect", "list", "close"}, Quiet(c, p),
             UNCHANGED <<seerr, nextId, items, jobs, cleaner, batch, queue, awaiting, upTo>>,
             Control'
      PROVE  RequestsInv'
  <2>1. Shapes'
    BY <1>1, <1>4, <1>5 DEF Shapes
  <2>2. Data'
    <3>1. \A d \in Syncers : sync'[d].left \subseteq sync[d].left
      BY <1>4, <1>5
    <3> QED
      BY <1>1, <1>3, <1>5, <3>1, BlockedStays
  <2>3. CreatedIsDispatched'
    <3>1. \A d \in Syncers : sync'[d].made = sync[d].made
      BY <1>4, <1>5
    <3> QED
      BY <1>1, <1>5, <3>1, DispatchedStays DEF IsDispatched
  <2> QED
    BY <1>5, <2>1, <2>2, <2>3 DEF RequestsInv
<1>6. ASSUME NEW c \in Syncers, SyncRequests(c)
      PROVE  RequestsInv'
  <2>1. sync[c].pc = "idle" /\ sync[c].left = {} /\ sync[c].made = {}
    BY <1>2, <1>6 DEF SyncRequests
  <2>2. \A p : [sync EXCEPT ![c].pc = p] = [sync EXCEPT ![c] = [pc |-> p, left |-> {}, made |-> {}]]
    BY <1>1, <2>1, PlaceOnly
  <2>3. PICK p \in {"lock", "ride"} : /\ Quiet(c, p)
                                      /\ p = "lock" => flight = NoOne /\ flight' = c
                                      /\ p = "ride" => flight # NoOne /\ flight' = flight
    BY <1>6, <2>1, <2>2 DEF SyncRequests, Quiet
  <2>4. flight # c
    BY <1>1, <2>1 DEF LeaderIsUnderWay, Sizes
  <2>5. Control'
    BY <1>1, <1>4, <1>6, <2>3, <2>4, ControlMoves DEF SyncRequests
  <2> QED
    BY <1>5, <1>6, <2>3, <2>5 DEF SyncRequests
<1>7. ASSUME NEW c \in Syncers, GiveUp(c) \/ NothingDetected(c)
      PROVE  RequestsInv'
  <2>1. Quiet(c, "idle") /\ sync[c].pc \in {"ride", "detect"} /\ flight' = flight /\ cleaner' = cleaner
    BY <1>7 DEF GiveUp, NothingDetected, Resting, Quiet
  <2>2. mutex' = mutex \/ mutex = c
    BY <1>1, <1>7 DEF GiveUp, NothingDetected, MutexIsHeld
  <2>3. flight # c
    BY <1>1, <2>1 DEF LeaderIsUnderWay, Sizes
  <2>4. Control'
    BY <1>1, <1>4, <2>1, <2>2, <2>3, ControlMoves
  <2> QED
    BY <1>5, <1>7, <2>1, <2>4 DEF GiveUp, NothingDetected
<1>8. ASSUME NEW c \in Syncers, Lock(c) \/ SyncPlexDetectedShows(c)
      PROVE  RequestsInv'
  <2>1. sync[c].pc \in {"lock", "idle"} /\ sync[c].left = {} /\ sync[c].made = {}
    BY <1>2, <1>8 DEF Lock, SyncPlexDetectedShows
  <2>2. \A p : [sync EXCEPT ![c].pc = p] = [sync EXCEPT ![c] = [pc |-> p, left |-> {}, made |-> {}]]
    BY <1>1, <2>1, PlaceOnly
  <2>3. PICK p \in {"list", "detect"} : /\ Quiet(c, p) /\ flight' = flight /\ mutex = NoOne /\ mutex' = c
                                        /\ cleaner' = cleaner
                                        /\ p = "detect" => sync[c].pc = "idle"
    BY <1>8, <2>1, <2>2 DEF Lock, SyncPlexDetectedShows, Quiet
  <2>4. flight = c => p = "list"
    BY <1>1, <2>3 DEF LeaderIsUnderWay, Sizes
  <2>5. Control'
    BY <1>1, <1>4, <2>3, <2>4, ControlMoves
  <2> QED
    BY <1>5, <1>8, <2>3, <2>5 DEF Lock, SyncPlexDetectedShows
<1>9. ASSUME NEW c \in Syncers, CreateTVSeasonRequestNoWait(c)
      PROVE  RequestsInv'
  <2>1. sync[c].pc = "detect" /\ sync[c].left = {} /\ sync[c].made = {}
    BY <1>2, <1>9 DEF CreateTVSeasonRequestNoWait
  <2>2. Quiet(c, "list")
    BY <1>1, <1>9, <2>1, PlaceOnly DEF CreateTVSeasonRequestNoWait, Quiet
  <2>3. /\ \E m \in Media : Requested(m)
        /\ UNCHANGED <<items, jobs, mutex, flight, cleaner, batch, queue, awaiting, upTo>>
    BY <1>9 DEF CreateTVSeasonRequestNoWait, Media
  <2>4. flight # c /\ mutex = c
    BY <1>1, <2>1 DEF LeaderIsUnderWay, MutexIsHeld, Sizes
  <2>5. Control'
    BY <1>1, <1>4, <2>2, <2>3, <2>4, ControlMoves
  <2>6. /\ seerr' \subseteq Listed /\ nextId' \in 1 .. MaxId + 1 /\ \A n \in Media : upTo'[n] < nextId'
        /\ Data'
    <3>1. \A d \in Syncers : sync'[d].left = sync[d].left
      BY <1>4, <2>2
    <3> QED
      BY <1>1, <2>3, <3>1, RequestIsMade
  <2>7. Shapes'
    BY <1>1, <1>4, <2>2, <2>3, <2>6 DEF Shapes
  <2>8. CreatedIsDispatched'
    <3>1. \A d \in Syncers : sync'[d].made = sync[d].made
      BY <1>4, <2>2
    <3> QED
      BY <1>1, <2>3, <3>1, DispatchedStays DEF IsDispatched
  <2> QED
    BY <2>5, <2>6, <2>7, <2>8 DEF RequestsInv
<1>10. ASSUME NEW m \in Media, CreateRequest(m)
       PROVE  RequestsInv'
  <2>1. /\ Requested(m)
        /\ UNCHANGED <<items, jobs, mutex, flight, sync, cleaner, batch, queue, awaiting, upTo>>
    BY <1>10 DEF CreateRequest
  <2>2. Control'
    BY <1>1, <2>1 DEF MutexIsHeld, LeaderIsUnderWay, WaiterHasPass
  <2>3. /\ seerr' \subseteq Listed /\ nextId' \in 1 .. MaxId + 1 /\ \A n \in Media : upTo'[n] < nextId'
        /\ Data'
    BY <1>1, <2>1, RequestIsMade
  <2>4. Shapes' /\ CreatedIsDispatched'
    BY <1>1, <2>1, <2>3, DispatchedStays DEF Shapes, IsDispatched
  <2> QED
    BY <2>2, <2>3, <2>4 DEF RequestsInv
<1>11. ASSUME NEW c \in Syncers, PendingRequests(c)
       PROVE  RequestsInv'
  <2>1. /\ sync[c].pc = "list" /\ sync[c].left = {} /\ sync[c].made = {}
        /\ UNCHANGED <<seerr, nextId, items, jobs, mutex, flight, cleaner, batch, queue, awaiting, upTo>>
    BY <1>2, <1>11 DEF PendingRequests
  <2>2. PICK l \in {{}, Entries} : sync' = [sync EXCEPT ![c] = [pc |-> "upsert", left |-> l, made |-> {}]]
    <3>1. [sync EXCEPT ![c].pc = "upsert"] = [sync EXCEPT ![c] = [pc |-> "upsert", left |-> {}, made |-> {}]]
      BY <1>1, <2>1, PlaceOnly
    <3>2. \A l : [sync EXCEPT ![c].pc = "upsert", ![c].left = l]
                   = [sync EXCEPT ![c] = [pc |-> "upsert", left |-> l, made |-> sync[c].made]]
      BY <1>1, HandsAreWritten, Zenon
    <3> QED
      BY <1>11, <2>1, <3>1, <3>2 DEF PendingRequests
  <2>3. l \in SUBSET Item /\ \A x \in l : [id |-> x.id, media |-> x.media] \in seerr
    BY <2>2 DEF Entries
  <2>4. [pc |-> "upsert", left |-> l, made |-> {}] \in Sync
    BY <2>3 DEF Sync
  <2>5. /\ sync' \in [Syncers -> Sync] /\ sync'[c] = [pc |-> "upsert", left |-> l, made |-> {}]
        /\ \A d \in Syncers \ {c} : sync'[d] = sync[d]
    BY <1>1, <2>2, <2>4, SyncerMoves
  <2>6. sync'[c].pc = "upsert" /\ sync'[c].left = l /\ sync'[c].made = {}
    BY <2>5
  <2>7. Control'
    BY <1>1, <2>1, <2>5, <2>6, ControlMoves DEF MutexIsHeld
  <2>8. Shapes'
    BY <1>1, <2>1, <2>5 DEF Shapes
  <2>9. Data'
    <3>1. \A x \in l : x.id <= upTo[x.media] => IsPending(x.media)
      BY <1>1, <2>3 DEF StaleIsBlocked
    <3>2. \A n : IsPending(n)' <=> IsPending(n)
      BY <2>1 DEF IsPending
    <3>3. StaleIsBlocked' /\ RemovedIsGone'
      BY <1>1, <2>1, <2>5, <2>6, <3>1, <3>2 DEF StaleIsBlocked, RemovedIsGone
    <3> QED
      BY <1>3, <2>1, <3>3
  <2>10. CreatedIsDispatched'
    <3>1. \A d \in Syncers : sync'[d].made = sync[d].made
      BY <2>1, <2>5, <2>6
    <3> QED
      BY <1>1, <2>1, <3>1, DispatchedStays DEF IsDispatched
  <2> QED
    BY <2>7, <2>8, <2>9, <2>10 DEF RequestsInv
<1>12. ASSUME NEW c \in Syncers, Upsert(c) \/ UpsertFails(c)
       PROVE  RequestsInv'
  <2>1. /\ sync[c].pc = "upsert" /\ sync[c] \in Sync /\ mutex = c
        /\ UNCHANGED <<seerr, nextId, jobs, mutex, flight, cleaner, batch, queue, awaiting, upTo>>
    BY <1>1, <1>12 DEF Upsert, UpsertFails, Shapes, MutexIsHeld
  <2>2. PICK x, l, new, m :
          /\ x \in sync[c].left /\ l \subseteq sync[c].left /\ new \subseteq {x}
          /\ sync' = [sync EXCEPT ![c] = [pc |-> "upsert", left |-> l, made |-> m]]
          /\ items' = items \cup new
          /\ m = sync[c].made \/ m = sync[c].made \cup Of(x.media, x.part) \cup new
          /\ new # {} => ~mediaCleanupBlocksRequest(x) /\ m = sync[c].made \cup Of(x.media, x.part) \cup new
    <3>1. \A l : [sync EXCEPT ![c].left = l] = [sync EXCEPT ![c] = [pc |-> sync[c].pc, left |-> l, made |-> sync[c].made]]
      BY <1>1, HandsAreWritten, Zenon
    <3>2. \A l, m : [sync EXCEPT ![c].left = l, ![c].made = m]
                      = [sync EXCEPT ![c] = [pc |-> sync[c].pc, left |-> l, made |-> m]]
      BY <1>1, HandsAreWritten, Zenon
    <3>3. CASE Upsert(c)
      <4>1. PICK x \in sync[c].left :
              IF Settled(x) \/ mediaCleanupBlocksRequest(x)
              THEN /\ sync' = [sync EXCEPT ![c].left = sync[c].left \ {x}]
                   /\ items' = items
              ELSE LET new == IF Of(x.media, x.part) = {} THEN {x} ELSE {} IN
                   /\ items' = items \cup new
                   /\ sync' = [sync EXCEPT ![c].left = sync[c].left \ {x}, ![c].made = sync[c].made \cup Of(x.media, x.part) \cup new]
        BY <1>1, <3>3 DEF Upsert, Shapes
      <4> DEFINE l == sync[c].left \ {x}
                 some == IF Of(x.media, x.part) = {} THEN {x} ELSE {}
                 more == sync[c].made \cup Of(x.media, x.part) \cup some
      <4>2. l \subseteq sync[c].left /\ some \subseteq {x}
        OBVIOUS
      <4>3. CASE Settled(x) \/ mediaCleanupBlocksRequest(x)
        <5>1. sync' = [sync EXCEPT ![c] = [pc |-> "upsert", left |-> l, made |-> sync[c].made]] /\ items' = items \cup {}
          BY <2>1, <3>1, <4>1, <4>3
        <5> QED
          BY <4>2, <5>1
      <4>4. CASE ~(Settled(x) \/ mediaCleanupBlocksRequest(x))
        <5>1. items' = items \cup some /\ sync' = [sync EXCEPT ![c].left = l, ![c].made = more]
          BY <4>1, <4>4
        <5> HIDE DEF l, some, more
        <5>2. sync' = [sync EXCEPT ![c] = [pc |-> sync[c].pc, left |-> l, made |-> more]]
          BY <3>2, <5>1, Zenon
        <5>3. sync' = [sync EXCEPT ![c] = [pc |-> "upsert", left |-> l, made |-> more]]
          BY <2>1, <5>2
        <5> QED
          BY <4>2, <4>4, <5>1, <5>3 DEF more
      <4> QED
        BY <4>3, <4>4
    <3>4. CASE UpsertFails(c)
      <4>1. PICK x \in sync[c].left, l \in SUBSET sync[c].left : sync' = [sync EXCEPT ![c].left = l]
        BY <1>1, <3>4 DEF UpsertFails, Shapes
      <4>2. sync' = [sync EXCEPT ![c] = [pc |-> "upsert", left |-> l, made |-> sync[c].made]] /\ items' = items \cup {}
        BY <2>1, <3>1, <3>4, <4>1 DEF UpsertFails
      <4> QED
        BY <4>2
    <3> QED
      BY <1>12, <3>3, <3>4
  <2>3. x \in Item /\ l \in SUBSET Item /\ new \in SUBSET Item /\ m \in SUBSET Item
    BY <1>1, <2>1, <2>2 DEF Sync, Shapes, Of
  <2>4. [pc |-> "upsert", left |-> l, made |-> m] \in Sync
    BY <2>3 DEF Sync
  <2>5. /\ sync' \in [Syncers -> Sync] /\ sync'[c] = [pc |-> "upsert", left |-> l, made |-> m]
        /\ \A d \in Syncers \ {c} : sync'[d] = sync[d]
    BY <1>1, <2>2, <2>4, SyncerMoves
  <2>6. sync'[c].pc = "upsert" /\ sync'[c].left = l /\ sync'[c].made = m
    BY <2>5
  <2>7. Control'
    BY <1>1, <2>1, <2>5, <2>6, ControlMoves
  <2>8. Shapes'
    BY <1>1, <2>1, <2>2, <2>3, <2>5 DEF Shapes
  <2>9. StaleIsBlocked' /\ RemovedIsGone'
    <3>1. \A d \in Syncers : sync'[d].left \subseteq sync[d].left
      BY <2>2, <2>5, <2>6
    <3> QED
      BY <1>1, <2>1, <3>1, BlockedStays
  <2>10. DeletedStaysDeleted'
    <3>1. new # {} => x.id > upTo[x.media] /\ \A j \in jobs : j.media = x.media => ~j.pending
      <4> SUFFICES ASSUME ~mediaCleanupBlocksRequest(x)
                   PROVE  x.id > upTo[x.media] /\ \A j \in jobs : j.media = x.media => ~j.pending
        BY <2>2
      <4>1. ~IsPending(x.media) /\ \A j \in jobs : j.media = x.media => ~j.pending
        BY DEF mediaCleanupBlocksRequest, IsPending
      <4>2. ~(x.id <= upTo[x.media])
        BY <1>1, <2>2, <4>1 DEF StaleIsBlocked
      <4>3. x.id \in Nat /\ upTo[x.media] \in Nat
        BY <1>1, <2>3 DEF Item, Shapes, Sizes
      <4> QED
        BY <4>1, <4>2, <4>3
    <3> QED
      BY <1>1, <2>1, <2>2, <3>1 DEF DeletedStaysDeleted
  <2>11. CreatedIsDispatched'
    <3>1. \A d \in Syncers : sync[d].made \subseteq sync'[d].made
      BY <2>2, <2>5, <2>6
    <3>2. \A y \in items : IsDispatched(y)'
      <4>1. \A y \in items : IsDispatched(y)
        BY <1>1, ItemByItem
      <4> QED
        BY <2>1, <3>1, <4>1 DEF IsDispatched
    <3>3. \A y \in new : y \in sync'[c].made
      BY <2>2, <2>6
    <3>4. \A y \in items' : IsDispatched(y)'
      BY <2>2, <3>2, <3>3 DEF IsDispatched
    <3> QED
      BY <3>4, ItemsAreDispatched
  <2> QED
    BY <2>7, <2>8, <2>9, <2>10, <2>11 DEF RequestsInv
<1>13. ASSUME NEW c \in Syncers, Unlock(c)
       PROVE  RequestsInv'
  <2>1. /\ sync[c].pc = "upsert" /\ sync[c].left = {} /\ sync[c] \in Sync /\ mutex = c /\ batch' = batch \cup sync[c].made
        /\ UNCHANGED <<seerr, nextId, items, jobs, flight, cleaner, queue, awaiting, upTo>>
    BY <1>1, <1>13 DEF Unlock, Shapes, MutexIsHeld
  <2>2. sync' = [sync EXCEPT ![c] = [pc |-> "close", left |-> {}, made |-> {}]]
    <3>1. \A q, n : [sync EXCEPT ![c].pc = q, ![c].made = n]
                      = [sync EXCEPT ![c] = [pc |-> q, left |-> sync[c].left, made |-> n]]
      BY <1>1, HandsAreWritten, Zenon
    <3>2. sync' = [sync EXCEPT ![c].pc = "close", ![c].made = {}]
      BY <1>13 DEF Unlock
    <3>3. sync' = [sync EXCEPT ![c] = [pc |-> "close", left |-> sync[c].left, made |-> {}]]
      BY <3>1, <3>2, Zenon
    <3> QED
      BY <2>1, <3>3
  <2>3. [pc |-> "close", left |-> {}, made |-> {}] \in Sync
    BY DEF Sync
  <2>4. /\ sync' \in [Syncers -> Sync] /\ sync'[c] = [pc |-> "close", left |-> {}, made |-> {}]
        /\ \A d \in Syncers \ {c} : sync'[d] = sync[d]
    BY <1>1, <2>2, <2>3, SyncerMoves
  <2>5. sync'[c].pc = "close" /\ sync'[c].left = {} /\ sync'[c].made = {}
    BY <2>4
  <2>6. Control'
    BY <1>1, <2>1, <2>4, <2>5, ControlMoves
  <2>7. Shapes'
    BY <1>1, <2>1, <2>4 DEF Shapes
  <2>8. Data'
    <3>1. \A d \in Syncers : sync'[d].left \subseteq sync[d].left
      BY <2>4, <2>5
    <3> QED
      BY <1>1, <1>3, <2>1, <3>1, BlockedStays
  <2>9. CreatedIsDispatched'
    <3>1. \A d \in Syncers : \A y \in sync[d].made : y \in batch' \/ y \in sync'[d].made
      BY <2>1, <2>4
    <3> QED
      BY <1>1, <2>1, <3>1, DispatchedStays DEF IsDispatched
  <2> QED
    BY <2>6, <2>7, <2>8, <2>9 DEF RequestsInv
<1>14. ASSUME NEW c \in Syncers, Close(c)
       PROVE  RequestsInv'
  <2>1. /\ sync[c].pc = "close" /\ sync[c].left = {} /\ sync[c].made = {}
        /\ flight' = IF flight = c THEN NoOne ELSE flight
        /\ UNCHANGED <<seerr, nextId, items, jobs, mutex, cleaner, batch, queue, awaiting, upTo>>
    BY <1>2, <1>14 DEF Close
  <2>2. Resting \in Sync /\ Resting.pc = "idle" /\ Resting.left = {} /\ Resting.made = {}
    BY DEF Sync, Resting
  <2>3. /\ sync' \in [Syncers -> Sync] /\ sync'[c] = Resting
        /\ \A d \in Syncers : sync'[d] = sync[d] \/ (sync'[d] = Resting /\ sync[d].pc \in {"close", "ride"})
        /\ \A d \in Syncers : sync'[d] = sync[d] \/ d = c \/ flight = c
        /\ flight = c => \A d \in Syncers : sync'[d].pc # "ride"
    BY <1>1, <1>14, <2>1, <2>2 DEF Close, Shapes
  <2>4. \A d \in Syncers : sync'[d].left = sync[d].left /\ sync'[d].made = sync[d].made
    BY <1>2, <2>2, <2>3
  <2>5. MutexIsHeld'
    BY <1>1, <2>1, <2>2, <2>3, <2>4 DEF MutexIsHeld
  <2>6. LeaderIsUnderWay' /\ WaiterHasPass'
    BY <1>1, <2>1, <2>2, <2>3 DEF LeaderIsUnderWay, WaiterHasPass
  <2>7. Shapes'
    BY <1>1, <2>1, <2>3 DEF Shapes
  <2>8. Data'
    BY <1>1, <1>3, <2>1, <2>4, BlockedStays
  <2>9. CreatedIsDispatched'
    BY <1>1, <2>1, <2>4, DispatchedStays DEF IsDispatched
  <2> QED
    BY <2>5, <2>6, <2>7, <2>8, <2>9 DEF RequestsInv
<1>15. ASSUME PushLibraryItemsToQueue \/ PushPendingToQueue
       PROVE  RequestsInv'
  <2>1. /\ UNCHANGED <<seerr, nextId, items, jobs, mutex, flight, sync, cleaner, upTo>>
        /\ \A y \in items : y \in queue \/ y \in batch \/ y \in awaiting => y \in queue' \/ y \in batch' \/ y \in awaiting'
    BY <1>15 DEF PushLibraryItemsToQueue, PushPendingToQueue
  <2>2. Shapes' /\ Control'
    BY <1>1, <2>1 DEF Shapes, MutexIsHeld, LeaderIsUnderWay, WaiterHasPass
  <2>3. Data'
    BY <1>1, <1>3, <2>1, BlockedStays
  <2>4. CreatedIsDispatched'
    BY <1>1, <2>1, DispatchedStays DEF IsDispatched
  <2> QED
    BY <2>2, <2>3, <2>4 DEF RequestsInv
<1>16. ASSUME Stop
       PROVE  RequestsInv'
  <2>1. /\ UNCHANGED <<seerr, nextId, items, jobs, queue, upTo>> /\ mutex' = NoOne /\ flight' = NoOne
        /\ sync' = [c \in Syncers |-> Resting] /\ cleaner' = Idle
        /\ awaiting' = awaiting \cup batch \cup UNION {sync[c].made : c \in Syncers}
    BY <1>16 DEF Stop
  <2>2. Resting \in Sync /\ Resting.pc = "idle" /\ Resting.left = {} /\ Resting.made = {}
    BY DEF Sync, Resting
  <2>3. sync' \in [Syncers -> Sync] /\ \A c \in Syncers : sync'[c] = Resting
    BY <2>1, <2>2
  <2>4. Shapes'
    BY <1>1, <2>1, <2>3 DEF Shapes, Idle
  <2>5. Control'
    BY <2>1, <2>2, <2>3 DEF MutexIsHeld, LeaderIsUnderWay, WaiterHasPass, Idle
  <2>6. Data'
    <3>1. \A c \in Syncers : sync'[c].left \subseteq sync[c].left
      BY <2>2, <2>3
    <3>2. cleaner'.pc # "record"
      BY <2>1 DEF Idle
    <3> QED
      BY <1>1, <1>3, <2>1, <3>1, <3>2, BlockedStays
  <2>7. CreatedIsDispatched'
    <3>1. \A y : IsDispatched(y) => y \in queue' \/ y \in awaiting'
      BY <2>1 DEF IsDispatched
    <3> QED
      BY <1>1, <2>1, <3>1, DispatchedStays DEF IsDispatched
  <2> QED
    BY <2>4, <2>5, <2>6, <2>7 DEF RequestsInv
<1>17. ASSUME Clean
       PROVE  RequestsInv'
  <2>1. /\ UNCHANGED <<seerr, nextId, items, jobs, mutex, flight, sync, batch, queue, awaiting, upTo>>
        /\ cleaner' = [pc |-> "lock", media |-> cleaner.media, ext |-> cleaner.ext, ok |-> cleaner.ok]
    BY <1>1, <1>17 DEF Clean, Shapes
  <2>2. Shapes' /\ Control'
    BY <1>1, <2>1 DEF Shapes, MutexIsHeld, LeaderIsUnderWay, WaiterHasPass
  <2>3. Data'
    BY <1>1, <1>3, <2>1, BlockedStays
  <2>4. CreatedIsDispatched'
    BY <1>1, <2>1, DispatchedStays DEF IsDispatched
  <2> QED
    BY <2>2, <2>3, <2>4 DEF RequestsInv
<1>18. ASSUME mutex = NoOne PROVE \A c \in Syncers : sync[c].left = {} /\ sync[c].pc \notin {"detect", "list", "upsert"}
  BY <1>1, <1>18 DEF MutexIsHeld, Sizes
<1>19. ASSUME NEW m \in Media, DeleteMedia(m)
       PROVE  RequestsInv'
  <2> DEFINE gone == {x \in items : x.media = m}
  <2>1. /\ mutex = NoOne /\ mutex' = Cleaner /\ upTo' = [upTo EXCEPT ![m] = nextId - 1]
        /\ items' = items \ gone /\ queue' = queue \ gone
        /\ UNCHANGED <<seerr, nextId, flight, sync, batch, awaiting>>
    BY <1>19 DEF DeleteMedia
  <2>2. PICK e : /\ jobs' = jobs \cup {[media |-> m, ext |-> e, pending |-> TRUE]}
                 /\ cleaner' = [pc |-> "remove", media |-> m, ext |-> e, ok |-> TRUE]
    BY <1>19 DEF DeleteMedia
  <2> DEFINE j == [media |-> m, ext |-> e, pending |-> TRUE]
  <2>3. j.media = m /\ j.pending = TRUE /\ j = [media |-> j.media, ext |-> j.ext, pending |-> j.pending]
    OBVIOUS
  <2>4. jobs' = jobs \cup {j}
    BY <2>2
  <2> HIDE DEF j
  <2>5. nextId - 1 \in Nat /\ nextId - 1 < nextId /\ \A r \in seerr : r.media \in Media
    BY <1>1 DEF Shapes, Listed, Sizes
  <2>6. upTo' \in [Media -> Nat] /\ upTo'[m] = nextId - 1 /\ \A n \in Media \ {m} : upTo'[n] = upTo[n]
    BY <1>1, <2>1, <2>5 DEF Shapes
  <2>7. Shapes'
    BY <1>1, <2>1, <2>2, <2>3, <2>4, <2>5, <2>6 DEF Shapes
  <2>8. Control'
    BY <1>1, <1>18, <2>1, <2>2 DEF MutexIsHeld, LeaderIsUnderWay, WaiterHasPass
  <2>9. IsPending(m)' /\ \A n : IsPending(n) => IsPending(n)'
    BY <2>3, <2>4 DEF IsPending
  <2>10. StaleIsBlocked'
    <3>1. \A r \in seerr' : r.id <= upTo'[r.media] => IsPending(r.media)'
      BY <1>1, <2>1, <2>5, <2>6, <2>9 DEF StaleIsBlocked
    <3>2. \A c \in Syncers : sync'[c].left = {}
      BY <1>18, <2>1
    <3> QED
      BY <3>1, <3>2 DEF StaleIsBlocked
  <2>11. RemovedIsGone'
    BY <2>2 DEF RemovedIsGone
  <2>12. DeletedStaysDeleted'
    <3>1. \A x \in items' : x \in items /\ x.media # m /\ x.media \in Media
      BY <1>1, <2>1 DEF Shapes, Item
    <3> QED
      BY <1>1, <2>3, <2>4, <2>6, <3>1 DEF DeletedStaysDeleted
  <2>13. CreatedIsDispatched'
    BY <1>1, <2>1, DispatchedStays DEF IsDispatched
  <2> QED
    BY <2>7, <2>8, <2>10, <2>11, <2>12, <2>13 DEF RequestsInv
<1>20. ASSUME RetryPendingMediaCleanup
       PROVE  RequestsInv'
  <2>1. /\ mutex = NoOne /\ mutex' = Cleaner
        /\ UNCHANGED <<seerr, nextId, items, jobs, flight, sync, batch, queue, awaiting, upTo>>
        /\ \E j \in jobs : cleaner' = [pc |-> "remove", media |-> j.media, ext |-> j.ext, ok |-> TRUE]
    BY <1>20 DEF RetryPendingMediaCleanup
  <2>2. Shapes' /\ cleaner'.pc = "remove"
    BY <1>1, <2>1 DEF Shapes
  <2>3. Control'
    BY <1>1, <1>18, <2>1, <2>2 DEF MutexIsHeld, LeaderIsUnderWay, WaiterHasPass
  <2>4. Data'
    BY <1>1, <1>3, <2>1, <2>2, BlockedStays
  <2>5. CreatedIsDispatched'
    BY <1>1, <2>1, DispatchedStays DEF IsDispatched
  <2> QED
    BY <2>2, <2>3, <2>4, <2>5 DEF RequestsInv
<1>21. ASSUME cleaner.pc \in {"remove", "record"} PROVE \A c \in Syncers : sync[c].left = {} /\ sync[c].pc \notin {"detect", "list", "upsert"}
  BY <1>1, <1>21 DEF MutexIsHeld, Sizes
<1>22. ASSUME RemoveMedia
       PROVE  RequestsInv'
  <2>1. /\ cleaner.pc = "remove" /\ seerr' \subseteq seerr
        /\ UNCHANGED <<nextId, items, jobs, mutex, flight, sync, batch, queue, awaiting, upTo>>
    BY <1>22 DEF RemoveMedia
  <2>2. PICK ok : /\ cleaner' = [pc |-> "record", media |-> cleaner.media, ext |-> cleaner.ext, ok |-> ok]
                  /\ ok => \A r \in seerr' : r.media # cleaner.media
    <3>1. cleaner = [pc |-> cleaner.pc, media |-> cleaner.media, ext |-> cleaner.ext, ok |-> cleaner.ok]
      BY <1>1 DEF Shapes
    <3>2. [cleaner EXCEPT !.pc = "record"]
            = [pc |-> "record", media |-> cleaner.media, ext |-> cleaner.ext, ok |-> cleaner.ok]
      BY <3>1
    <3>3. [cleaner EXCEPT !.pc = "record", !.ok = FALSE]
            = [pc |-> "record", media |-> cleaner.media, ext |-> cleaner.ext, ok |-> FALSE]
      <4> DEFINE x == [cleaner EXCEPT !.pc = "record"]
      <4>1. [cleaner EXCEPT !.pc = "record", !.ok = FALSE] = [x EXCEPT !.ok = FALSE]
        OBVIOUS
      <4> DEFINE m == cleaner.media  e == cleaner.ext  o == cleaner.ok
      <4>2. x = [pc |-> "record", media |-> m, ext |-> e, ok |-> o]
        BY <3>2
      <4> HIDE DEF x, m, e, o
      <4>3. ASSUME NEW b PROVE [x EXCEPT !.ok = b] = [pc |-> "record", media |-> m, ext |-> e, ok |-> b]
        BY <4>2
      <4> QED
        BY <4>1, <4>3, Zenon DEF m, e
    <3>4. \/ cleaner' = [cleaner EXCEPT !.pc = "record"] /\ \A r \in seerr' : r.media # cleaner.media
          \/ cleaner' = [cleaner EXCEPT !.pc = "record", !.ok = FALSE]
      BY <1>22 DEF RemoveMedia
    <3> QED
      BY <3>2, <3>3, <3>4
  <2>3. Shapes' /\ cleaner'.pc = "record" /\ (cleaner'.ok <=> ok) /\ cleaner'.media = cleaner.media
    BY <1>1, <2>1, <2>2 DEF Shapes
  <2>4. Control'
    BY <1>1, <2>1, <2>3 DEF MutexIsHeld, LeaderIsUnderWay, WaiterHasPass
  <2>5. StaleIsBlocked'
    BY <1>1, <2>1 DEF StaleIsBlocked, IsPending
  <2>6. RemovedIsGone'
    BY <2>2, <2>3 DEF RemovedIsGone
  <2>7. CreatedIsDispatched'
    BY <1>1, <2>1, DispatchedStays DEF IsDispatched
  <2> QED
    BY <1>3, <2>1, <2>3, <2>4, <2>5, <2>6, <2>7 DEF RequestsInv
<1>23. ASSUME RecordMediaCleanupAttempt
       PROVE  RequestsInv'
  <2>1. /\ cleaner.pc = "record" /\ mutex' = NoOne /\ cleaner' = Idle
        /\ UNCHANGED <<seerr, nextId, items, flight, sync, batch, queue, awaiting, upTo>>
        /\ \/ jobs' = jobs
           \/ /\ cleaner.ok
              /\ jobs' = {IF j.media = cleaner.media /\ j.ext = cleaner.ext THEN [j EXCEPT !.pending = FALSE] ELSE j : j \in jobs}
    BY <1>23 DEF RecordMediaCleanupAttempt
  <2>2. /\ \A k \in jobs' : \E j \in jobs : k = j \/ k = [media |-> j.media, ext |-> j.ext, pending |-> FALSE]
        /\ \A j \in jobs : j.media # cleaner.media => j \in jobs'
        /\ jobs' = jobs \/ cleaner.ok
    <3>1. ASSUME NEW j \in jobs PROVE [j EXCEPT !.pending = FALSE] = [media |-> j.media, ext |-> j.ext, pending |-> FALSE]
      <4> DEFINE m == j.media  e == j.ext  o == j.pending
      <4>1. j = [media |-> m, ext |-> e, pending |-> o]
        BY <1>1 DEF Shapes
      <4> HIDE DEF m, e, o
      <4>2. ASSUME NEW b PROVE [j EXCEPT !.pending = b] = [media |-> m, ext |-> e, pending |-> b]
        BY <4>1
      <4> QED
        BY <4>2, Zenon DEF m, e
    <3> QED
      BY <2>1, <3>1
  <2>3. ASSUME NEW k \in jobs' PROVE k = [media |-> k.media, ext |-> k.ext, pending |-> k.pending] /\ k.pending \in BOOLEAN
    <3>1. CASE k \in jobs
      BY <1>1, <3>1 DEF Shapes
    <3>2. CASE \E j \in jobs : k = [media |-> j.media, ext |-> j.ext, pending |-> FALSE]
      BY <3>2
    <3> QED
      BY <2>2, <3>1, <3>2
  <2>4. Shapes' /\ cleaner'.pc = "idle"
    BY <1>1, <2>1, <2>3 DEF Shapes, Idle
  <2>5. Control'
    BY <1>1, <1>21, <2>1, <2>4 DEF MutexIsHeld, LeaderIsUnderWay, WaiterHasPass
  <2>6. StaleIsBlocked'
    <3>1. \A c \in Syncers : sync'[c].left = {}
      BY <1>21, <2>1
    <3>2. ASSUME NEW r \in seerr, r.id <= upTo[r.media] PROVE IsPending(r.media)'
      <4>1. CASE r.media = cleaner.media /\ cleaner.ok
        <5>1. r.id > upTo[r.media] /\ r.id \in Int /\ upTo[r.media] \in Int
          BY <1>1, <2>1, <4>1 DEF RemovedIsGone, Shapes, Listed, Sizes
        <5> QED
          BY <3>2, <5>1
      <4>2. CASE r.media # cleaner.media \/ ~cleaner.ok
        BY <1>1, <2>2, <3>2, <4>2 DEF StaleIsBlocked, IsPending
      <4> QED
        BY <4>1, <4>2
    <3> QED
      BY <2>1, <3>1, <3>2 DEF StaleIsBlocked
  <2>7. RemovedIsGone'
    BY <2>4 DEF RemovedIsGone
  <2>8. DeletedStaysDeleted'
    BY <1>1, <2>1, <2>2 DEF DeletedStaysDeleted
  <2>9. CreatedIsDispatched'
    BY <1>1, <2>1, DispatchedStays DEF IsDispatched
  <2> QED
    BY <2>4, <2>5, <2>6, <2>7, <2>8, <2>9 DEF RequestsInv
<1> QED
  BY <1>6, <1>7, <1>8, <1>9, <1>10, <1>11, <1>12, <1>13, <1>14, <1>15, <1>16, <1>17, <1>19, <1>20, <1>22, <1>23 DEF Next

\* The library at rest.
LEMMA RequestsStay == ASSUME RequestsInv, UNCHANGED requestVars PROVE RequestsInv'
<1>1. Shapes /\ MutexIsHeld /\ LeaderIsUnderWay /\ WaiterHasPass /\ StaleIsBlocked /\ RemovedIsGone
      /\ DeletedStaysDeleted /\ CreatedIsDispatched
  BY DEF RequestsInv
<1> USE DEF requestVars
<1>2. Shapes' /\ MutexIsHeld' /\ LeaderIsUnderWay' /\ WaiterHasPass'
  BY <1>1 DEF Shapes, MutexIsHeld, LeaderIsUnderWay, WaiterHasPass
<1>3. StaleIsBlocked' /\ RemovedIsGone' /\ DeletedStaysDeleted'
  BY <1>1 DEF StaleIsBlocked, IsPending, RemovedIsGone, DeletedStaysDeleted
<1>4. CreatedIsDispatched'
  BY <1>1, DispatchedStays DEF IsDispatched
<1> QED
  BY <1>2, <1>3, <1>4 DEF RequestsInv
=============================================================================
