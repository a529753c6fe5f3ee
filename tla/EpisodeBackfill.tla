--------------------------- MODULE EpisodeBackfill ---------------------------
(***************************************************************************)
(* The episodes of one show: how those TMDB lists get into the library.    *)
(* FillMissingEpisodes comes by every few hours, PrioritizeTVShowMissing   *)
(* when the user asks, and the details page writes back a date it has seen *)
(* there, from a cache of seasons; meanwhile TMDB announces and dates      *)
(* episodes, the show's own metadata is refreshed, workers take jobs from  *)
(* the queue, and the show may be deleted.                                 *)
(***************************************************************************)
EXTENDS Integers, FiniteSets

CONSTANTS
  Episodes, \* numbers with the season in the hundreds
  MaxDate,  \* dates in the order TMDB comes to give them, the last is a recent one
  Changes,  \* bound on what TMDB adds or moves
  Faults,   \* bound on calls that fail
  Passes    \* bound on passes and views of the page

VARIABLES
  tmdb,    \* Unlisted, Undated or the date TMDB gives
  show,    \* the row of tv_shows: seasons and episodes are the counts it keeps
  local,   \* the rows of episodes and library_items
  jobs,    \* of the work queue
  cache,   \* seasons as the catalogue keeps them
  fill, ask, view, \* the two passes and the details page
  owed,    \* what the user asked for, until a worker takes it or is at it
  left     \* of the bounds

backfillVars == <<tmdb, show, local, jobs, cache, fill, ask, view, owed, left>>

Unlisted == -1
Undated == 0
Recent == {MaxDate}
Season(e) == e \div 100
Seasons == {Season(e) : e \in Episodes}
Nothing == [e \in {} |-> Undated]

Listed(s) == [e \in {f \in Episodes : Season(f) = s /\ tmdb[f] # Unlisted} |-> tmdb[e]]
TVSeasonNumbers == {s \in Seasons : Listed(s) # Nothing}
Lowest(S) == CHOOSE s \in S : \A t \in S : s <= t

\* TMDB announces seasons in their order.
InOrder(list) ==
  \A e, f \in Episodes : Season(e) < Season(f) /\ list[f] # Unlisted => list[e] # Unlisted

\* The row of the show with what TMDB counts.
Counts ==
  [here |-> TRUE, seasons |-> Cardinality(TVSeasonNumbers),
   episodes |-> Cardinality({e \in Episodes : tmdb[e] # Unlisted})]

Idle == [pc |-> "idle", todo |-> {}, got |-> Nothing, made |-> {}]
Unread == [e \in Episodes |-> Unlisted]
FillIdle ==
  [pc |-> "idle", todo |-> {}, got |-> Nothing, made |-> {},
   read |-> Unread, known |-> 0, flawed |-> FALSE, met |-> FALSE]
ViewIdle == [rows |-> {}, got |-> Nothing]

-----------------------------------------------------------------------------
Given == UNION {[D -> 0 .. MaxDate] : D \in SUBSET Episodes}

TypeOK ==
  /\ tmdb \in [Episodes -> Unlisted .. MaxDate]
  /\ show \in [here : BOOLEAN, seasons : 0 .. Cardinality(Seasons), episodes : 0 .. Cardinality(Episodes)]
  /\ local \in [Episodes -> [item : {"none", "row", "pending", "taken"}, date : 0 .. MaxDate]]
  /\ jobs \in [Episodes -> {"none", "now", "later", "active"}]
  /\ DOMAIN cache \subseteq Seasons /\ \A s \in DOMAIN cache : cache[s] \in Given
  /\ fill.pc \in {"idle", "season", "recent", "older", "push", "done"}
  /\ ask.pc \in {"idle", "season", "write", "list", "remove", "push"}
  /\ {fill.todo, ask.todo} \subseteq SUBSET (Seasons \cup Episodes)
  /\ {fill.got, ask.got, view.got} \subseteq Given
  /\ {fill.made, ask.made, view.rows, owed} \subseteq SUBSET Episodes
  /\ ~show.here => \A e \in Episodes : local[e].item = "none"

Init ==
  /\ tmdb \in [Episodes -> {Unlisted, 1}] /\ InOrder(tmdb)
  /\ show = Counts /\ show.episodes > 0
  /\ local \in [Episodes -> {[item |-> i, date |-> Undated] : i \in {"none", "row", "pending"}}]
  /\ \A e \in Episodes : local[e].item # "none" => tmdb[e] # Unlisted
  /\ \E e \in Episodes : local[e].item = "pending"
  /\ jobs = [e \in Episodes |-> "none"]
  /\ cache = [s \in {} |-> Nothing]
  /\ fill = FillIdle /\ ask = Idle /\ view = ViewIdle
  /\ owed = {}
  /\ left = [changes |-> Changes, faults |-> Faults, passes |-> Passes]

-----------------------------------------------------------------------------
\* A call fails, as long as there is a mishap left.
Fault == left.faults > 0 /\ left' = [left EXCEPT !.faults = @ - 1]

Begins == left.passes > 0 /\ left' = [left EXCEPT !.passes = @ - 1]

\* TMDB lists an episode, dates it or moves its date.
Announce(e) ==
  /\ left.changes > 0 /\ left' = [left EXCEPT !.changes = @ - 1]
  /\ \E d \in tmdb[e] + 1 .. MaxDate : tmdb' = [tmdb EXCEPT ![e] = d]
  /\ InOrder(tmdb')
  /\ UNCHANGED <<show, local, jobs, cache, fill, ask, view, owed>>

EnrichTVFull ==
  /\ show.here
  /\ show' = Counts
  /\ UNCHANGED <<tmdb, local, jobs, cache, fill, ask, view, owed, left>>

-----------------------------------------------------------------------------
\* A season ahead of the counts is taken for an error.
M_Input(batch) ==
  {e \in DOMAIN batch : show.here /\ (show.seasons = 0 \/ Season(e) <= show.seasons)}

\* One statement; a show that is gone, and a season too far ahead, have no input.
Input(batch) ==
  {e \in DOMAIN batch : show.here /\ (show.seasons = 0 \/ Season(e) <= show.seasons + 1)}

Created(batch) == {e \in Input(batch) : local[e].item \in {"none", "row"}}

EnsureEpisodeLibraryItemsBatch(batch) ==
  local' = [e \in Episodes |->
    IF e \notin Input(batch) THEN local[e]
    ELSE [item |-> IF e \in Created(batch) THEN "pending" ELSE local[e].item,
          date |-> IF batch[e] # Undated THEN batch[e] ELSE local[e].date]]

\* The queue has a job of an item once.
Push(S, priority) == jobs' = [e \in Episodes |-> IF e \in S /\ jobs[e] = "none" THEN priority ELSE jobs[e]]

-----------------------------------------------------------------------------
\* FillMissingEpisodes

ListShowsWithMissingEpisodes ==
  /\ show.here /\ show.episodes > 0
  /\ \/ show.episodes > Cardinality({e \in Episodes : local[e].item # "none"})
     \/ \E e \in Episodes : local[e].item # "none" /\ local[e].date = Undated

FillStart ==
  /\ fill.pc \in {"idle", "done"} /\ ListShowsWithMissingEpisodes
  /\ Begins
  /\ fill' = [FillIdle EXCEPT !.pc = "season", !.todo = TVSeasonNumbers, !.known = show.seasons,
                              !.met = ask.pc # "idle"]
  /\ UNCHANGED <<tmdb, show, local, jobs, cache, ask, view, owed>>

\* A season that cannot be read is left for another pass.
FillRead ==
  /\ fill.pc = "season"
  /\ LET s == Lowest(fill.todo)
         next == [fill EXCEPT !.todo = @ \ {s}]
     IN \/ fill.todo = {} /\ fill' = [fill EXCEPT !.pc = "push"] /\ UNCHANGED left
        \/ /\ fill.todo # {}
           /\ \/ Fault /\ fill' = [next EXCEPT !.flawed = TRUE]
              \/ /\ fill' = [next EXCEPT !.pc = "recent", !.got = Listed(s),
                                            !.read = [e \in Episodes |-> IF e \in DOMAIN Listed(s) THEN Listed(s)[e] ELSE fill.read[e]]]
                 /\ UNCHANGED left
  /\ UNCHANGED <<tmdb, show, local, jobs, cache, ask, view, owed>>

Part(recent) == [e \in {f \in DOMAIN fill.got : (fill.got[f] \in Recent) = recent} |-> fill.got[e]]

FillRecent ==
  /\ fill.pc = "recent"
  /\ \/ /\ EnsureEpisodeLibraryItemsBatch(Part(TRUE))
        /\ fill' = [fill EXCEPT !.pc = "older", !.made = @ \cup Created(Part(TRUE))]
        /\ UNCHANGED left
     \/ Part(TRUE) # Nothing /\ Fault /\ fill' = [fill EXCEPT !.pc = "older", !.flawed = TRUE] /\ UNCHANGED local
  /\ UNCHANGED <<tmdb, show, jobs, cache, ask, view, owed>>

FillOlder ==
  /\ fill.pc = "older"
  /\ \/ /\ EnsureEpisodeLibraryItemsBatch(Part(FALSE))
        /\ fill' = [fill EXCEPT !.pc = "season", !.got = Nothing]
        /\ UNCHANGED left
     \/ /\ Part(FALSE) # Nothing /\ Fault
        /\ fill' = [fill EXCEPT !.pc = "season", !.got = Nothing, !.flawed = TRUE]
        /\ UNCHANGED local
  /\ UNCHANGED <<tmdb, show, jobs, cache, ask, view, owed>>

\* A pass out of time returns before its next show, and the queue is not told.
FillPush ==
  /\ fill.pc = "push"
  /\ fill' = [fill EXCEPT !.pc = "done", !.made = {}]
  /\ \/ Push(fill.made, "later") /\ UNCHANGED left
     \/ Fault /\ UNCHANGED jobs
  /\ UNCHANGED <<tmdb, show, local, cache, ask, view, owed>>

-----------------------------------------------------------------------------
\* PrioritizeTVShowMissing

AskStart ==
  /\ ask.pc = "idle" /\ show.here
  /\ Begins
  /\ ask' = [Idle EXCEPT !.pc = "season", !.todo = TVSeasonNumbers]
  /\ fill' = [fill EXCEPT !.met = TRUE]
  /\ UNCHANGED <<tmdb, show, local, jobs, cache, view, owed>>

AskRead ==
  /\ ask.pc = "season"
  /\ LET s == Lowest(ask.todo)
         next == [ask EXCEPT !.todo = @ \ {s}]
     IN \/ ask.todo = {} /\ ask' = [ask EXCEPT !.pc = "list"] /\ UNCHANGED left
        \/ ask.todo # {} /\ ask' = [next EXCEPT !.pc = "write", !.got = Listed(s)] /\ UNCHANGED left
        \/ ask.todo # {} /\ Fault /\ ask' = next
  /\ UNCHANGED <<tmdb, show, local, jobs, cache, fill, view, owed>>

AskWrite ==
  /\ ask.pc = "write"
  /\ \/ /\ EnsureEpisodeLibraryItemsBatch(ask.got)
        /\ ask' = [ask EXCEPT !.pc = "season", !.got = Nothing, !.made = @ \cup Created(ask.got)]
        /\ UNCHANGED left
     \/ Fault /\ ask' = [ask EXCEPT !.pc = "season", !.got = Nothing] /\ UNCHANGED local
  /\ UNCHANGED <<tmdb, show, jobs, cache, fill, view, owed>>

\* If the listing fails nothing is queued, not even what was created.
ListPendingTVShowLibraryItemIDs ==
  /\ ask.pc = "list"
  /\ LET ids == ask.made \cup {e \in Episodes : local[e].item = "pending"}
     IN \/ ask' = [ask EXCEPT !.pc = "remove", !.todo = ids, !.made = {}] /\ owed' = owed \cup ids /\ UNCHANGED left
        \/ Fault /\ ask' = Idle /\ UNCHANGED owed
  /\ UNCHANGED <<tmdb, show, local, jobs, cache, fill, view>>

\* A job that waits is taken out, to be put back at the front; one at a worker is locked.
Remove ==
  /\ ask.pc = "remove"
  /\ \/ ask.todo = {} /\ ask' = Idle /\ fill' = fill /\ UNCHANGED jobs
     \/ \E e \in ask.todo :
          /\ jobs' = [jobs EXCEPT ![e] = IF @ = "active" THEN @ ELSE "none"]
          /\ ask' = [ask EXCEPT !.pc = "push", !.made = {e}]
          /\ UNCHANGED fill
  /\ UNCHANGED <<tmdb, show, local, cache, view, owed, left>>

\* The job is put first while it still waits, which does nothing, and is then removed.
M_PushFirst ==
  /\ ask.pc = "push"
  /\ jobs' = [e \in Episodes |-> IF e \in ask.made /\ jobs[e] # "active" THEN "none" ELSE jobs[e]]
  /\ ask' = [ask EXCEPT !.pc = "remove", !.todo = @ \ ask.made, !.made = {}]
  /\ owed' = {e \in owed : e \notin ask.made \/ jobs[e] # "active"}
  /\ UNCHANGED <<tmdb, show, local, cache, fill, view, left>>

PushFirst ==
  /\ ask.pc = "push"
  /\ Push(ask.made, "now")
  /\ ask' = [ask EXCEPT !.pc = "remove", !.todo = @ \ ask.made, !.made = {}]
  /\ owed' = {e \in owed : e \notin ask.made \/ jobs[e] # "active"}
  /\ UNCHANGED <<tmdb, show, local, cache, fill, view, left>>

-----------------------------------------------------------------------------
\* The details page, which the weekly sweep of undated episodes opens as well.

cachedTVSeason(s) == IF s \in DOMAIN cache THEN cache[s] ELSE Listed(s)

\* The rows are read first; some seasons may not be.
buildTVSeasons ==
  /\ view = ViewIdle /\ show.here
  /\ Begins
  /\ \E S \in SUBSET TVSeasonNumbers :
       /\ S # {}
       /\ cache' = [s \in S \cup DOMAIN cache |-> cachedTVSeason(s)]
       /\ LET got == [e \in {f \in Episodes : Season(f) \in S /\ f \in DOMAIN cachedTVSeason(Season(f))} |->
                        cachedTVSeason(Season(e))[e]]
          IN view' = [got |-> got,
                      rows |-> {e \in DOMAIN got : local[e].item # "none" /\ local[e].date = Undated /\ got[e] # Undated}]
  /\ UNCHANGED <<tmdb, show, local, jobs, fill, ask, owed>>

\* It writes what it has seen, whatever is there by now.
M_UpdateEpisodeAirDate(e) ==
  local' = IF local[e].item # "none" THEN [local EXCEPT ![e].date = view.got[e]] ELSE local

UpdateEpisodeAirDate(e) ==
  local' = IF local[e].item # "none" /\ local[e].date = Undated
             THEN [local EXCEPT ![e].date = view.got[e]] ELSE local

WriteBack(e) ==
  /\ e \in view.rows
  /\ UpdateEpisodeAirDate(e)
  /\ view' = IF view.rows = {e} THEN ViewIdle ELSE [view EXCEPT !.rows = @ \ {e}]
  /\ UNCHANGED <<tmdb, show, jobs, cache, fill, ask, owed, left>>

CloseView ==
  /\ view # ViewIdle /\ view.rows = {}
  /\ view' = ViewIdle
  /\ UNCHANGED <<tmdb, show, local, jobs, cache, fill, ask, owed, left>>

Expire(s) ==
  /\ s \in DOMAIN cache
  /\ cache' = [t \in DOMAIN cache \ {s} |-> cache[t]]
  /\ UNCHANGED <<tmdb, show, local, jobs, fill, ask, view, owed, left>>

-----------------------------------------------------------------------------
\* A worker takes a job; the item has a release in the end, or waits for another search.
Take(e) ==
  /\ jobs[e] \in {"now", "later"}
  /\ jobs' = [jobs EXCEPT ![e] = "active"]
  /\ owed' = owed \ {e}
  /\ UNCHANGED <<tmdb, show, local, cache, fill, ask, view, left>>

ProcessLibraryItem(e) ==
  /\ jobs[e] = "active"
  /\ jobs' = [jobs EXCEPT ![e] = "none"]
  /\ \/ UNCHANGED local
     \/ local[e].item = "pending" /\ local' = [local EXCEPT ![e].item = "taken"]
  /\ UNCHANGED <<tmdb, show, cache, fill, ask, view, owed, left>>

\* The show goes with its episodes; their jobs find nothing.
DeleteShow ==
  /\ show.here
  /\ show' = [show EXCEPT !.here = FALSE]
  /\ local' = [e \in Episodes |-> [item |-> "none", date |-> Undated]]
  /\ owed' = {}
  /\ UNCHANGED <<tmdb, jobs, cache, fill, ask, view, left>>

Next ==
  \/ EnrichTVFull \/ DeleteShow
  \/ FillStart \/ FillRead \/ FillRecent \/ FillOlder \/ FillPush
  \/ AskStart \/ AskRead \/ AskWrite \/ ListPendingTVShowLibraryItemIDs \/ Remove \/ PushFirst
  \/ buildTVSeasons \/ CloseView
  \/ \E e \in Episodes : Announce(e) \/ WriteBack(e) \/ Take(e) \/ ProcessLibraryItem(e)
  \/ \E s \in Seasons : Expire(s)

Spec == Init /\ [][Next]_backfillVars

-----------------------------------------------------------------------------
\* A pass of FillMissingEpisodes without a mishap leaves no episode out that TMDB listed to
\* it, up to the season after those the show counts, and knows a date for each that it
\* was given one for: no older than that, unless the user's pass has met it with an older
\* reading.
FilledIsWhole ==
  fill.pc = "done" /\ ~fill.flawed /\ show.here =>
    \A e \in Episodes :
      fill.read[e] # Unlisted /\ Season(e) <= fill.known + 1 =>
        /\ local[e].item \in {"pending", "taken"}
        /\ fill.read[e] # Undated => local[e].date >= (IF fill.met THEN 1 ELSE fill.read[e])

\* What the user asked for is on the queue until a worker takes it, whoever else
\* pushes it.
AskedIsQueued ==
  \A e \in owed : e \in ask.todo \/ jobs[e] # "none"

-----------------------------------------------------------------------------
IsListing(g) == DOMAIN g \subseteq Episodes /\ \A e \in DOMAIN g : g[e] \in Nat

Tables ==
  /\ tmdb \in [Episodes -> Int] /\ \A e \in Episodes : tmdb[e] >= Unlisted
  /\ show \in [here : BOOLEAN, seasons : Nat, episodes : Nat]
  /\ local \in [Episodes -> [item : {"none", "row", "pending", "taken"}, date : Nat]]
  /\ jobs \in [Episodes -> {"none", "now", "later", "active"}]
  /\ owed \subseteq Episodes

Passing ==
  /\ {"pc", "todo", "got", "made", "read", "known", "flawed", "met"} \subseteq DOMAIN fill
  /\ IsListing(fill.got) /\ fill.known \in Nat /\ fill.flawed \in BOOLEAN /\ fill.met \in BOOLEAN
  /\ fill.read \in [Episodes -> Int] /\ \A e \in Episodes : fill.read[e] >= Unlisted

Asking ==
  /\ {"pc", "todo", "got", "made"} \subseteq DOMAIN ask
  /\ IsListing(ask.got) /\ ask.made \subseteq Episodes
  /\ ask.pc \in {"remove", "push"} => ask.todo \subseteq Episodes

Viewing ==
  /\ \A s \in DOMAIN cache : IsListing(cache[s])
  /\ {"rows", "got"} \subseteq DOMAIN view /\ IsListing(view.got) /\ view.rows \subseteq DOMAIN view.got

Shapes == Tables /\ Passing /\ Asking /\ Viewing

\* TMDB takes no season back, so that what a pass has counted on is still in the row.
SeasonsOnlyGrow == fill.known <= show.seasons /\ show.seasons <= Cardinality(TVSeasonNumbers)

PassesMeet == ask.pc # "idle" => fill.met

\* What a pass was told, what it has written of it, and what it has yet to write.
Told(e) == fill.read[e] # Unlisted /\ Season(e) <= fill.known + 1
Kept(e) ==
  /\ local[e].item \in {"pending", "taken"}
  /\ fill.read[e] # Undated => local[e].date >= (IF fill.met THEN 1 ELSE fill.read[e])
Due ==
  CASE fill.pc = "recent" -> DOMAIN fill.got
    [] fill.pc = "older" -> DOMAIN Part(FALSE)
    [] OTHER -> {}

WholeSoFar ==
  /\ fill.pc \in {"recent", "older"} => \A e \in DOMAIN fill.got : fill.got[e] = fill.read[e]
  /\ ~fill.flawed /\ show.here => \A e \in Episodes \ Due : Told(e) => Kept(e)

\* A job that was asked for waits, or the pass that asks is about to push it.
AskedWaits ==
  \A e \in owed : (ask.pc \in {"remove", "push"} /\ e \in ask.todo) \/ jobs[e] \in {"now", "later"}

BackfillInv == Shapes /\ SeasonsOnlyGrow /\ PassesMeet /\ WholeSoFar /\ AskedWaits
=============================================================================
