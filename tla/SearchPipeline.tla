---------------------------- MODULE SearchPipeline ----------------------------
(***************************************************************************)
(* What one search of an episode does with the answers it gets             *)
(* (workflow/service.go: searchLibraryOnceWithMode and what it calls): a   *)
(* season pack first, then the requests by id, then those by title; each   *)
(* answer is stripped of duplicates, turned into candidates by what is     *)
(* known of their URLs, merged into what was found before, and all of it   *)
(* replaces the item's rows, the best one selected.  A release that fails  *)
(* is known by its row alone, and the next search asks for it again.       *)
(*                                                                         *)
(* A posting is what an indexer lists: its URL, its name (normalised title *)
(* and indexer), size, the score ranking gives it (all differ), the order  *)
(* the indexer prefers it in, whether it is a season pack, and whether it  *)
(* fits what is asked.  The item is not available yet, so no search is for *)
(* an upgrade, and its profile has no cutoff; ReleaseLifecycle has both.   *)
(***************************************************************************)
EXTENDS Integers, Sequences, FiniteSets, SequencesExt

CONSTANTS
  Postings,   \* what the indexers list
  Requests,   \* pack, tier1, tier2: the requests of each, in order
  Searches    \* bound on searches

VARIABLES
  rows,       \* release_candidates of the item
  selected,   \* the URL of the selection, or None
  blocked,    \* URLs on the blocklist
  attempts,   \* requests remembered by searchAttempts
  search,     \* the search under way
  seen,       \* history: the candidates this search has been given
  everFailed, \* history: the URLs that failed for a reason that counts
  searchCount

searchVars == <<rows, selected, blocked, attempts, search, seen, everFailed, searchCount>>

None == "none"
Links == {p.link : p \in Postings}
Candidates == [posting : Postings, rejected : BOOLEAN, failure : {"no", "counts", "exempt"}]
Idle == [pc |-> "idle", todo |-> <<>>, combined |-> <<>>, history |-> {}]
Stages == {"idle", "pack", "tier1", "tier2", "end"}

TypeOK ==
  /\ rows \subseteq Candidates
  /\ selected \in Links \cup {None}
  /\ blocked \subseteq Links
  /\ attempts \subseteq UNION {ToSet(Requests[t]) : t \in DOMAIN Requests}
  /\ search.pc \in Stages /\ \A i \in 1 .. Len(search.combined) : search.combined[i] \in Candidates
  /\ seen \subseteq Candidates
  /\ everFailed \subseteq Links
  /\ searchCount \in 0 .. Searches

Init ==
  /\ rows = {}
  /\ selected = None
  /\ blocked = {}
  /\ attempts = {}
  /\ search = Idle
  /\ seen = {}
  /\ everFailed = {}
  /\ searchCount = 0

-----------------------------------------------------------------------------
Larger(a, b) == IF a > b THEN a ELSE b
Distance(a, b) == IF a > b THEN a - b ELSE b - a

\* Within five percent of the larger.
sizesClose(a, b) == Distance(a, b) * 20 <= Larger(a, b)

\* An entry takes the first of its places if it beats what is there, else it is added
\* when it has none.
Placed(list, x, places, beaten) ==
  LET first == CHOOSE i \in places : \A j \in places : i <= j
  IN IF places = {} THEN Append(list, x)
     ELSE IF first \in beaten THEN [list EXCEPT ![first] = x] ELSE list

Preferred(p, q) == p.listed > q.listed
SameRelease(p, q) == p.name = q.name /\ sizesClose(p.size, q.size)

\* dedupeSearchResultsByLink, then by name and by the size of a bucket's first entry; the
\* buckets come out of a map, and are sorted later.
dedupeSearchResults(answer) ==
  LET link(list, p) == LET same == {i \in 1 .. Len(list) : list[i].link = p.link}
                       IN Placed(list, p, same, {i \in same : Preferred(p, list[i])})
      byLink == FoldLeft(link, <<>>, answer)
      put(buckets, p) == Placed(buckets, [first |-> p, best |-> p],
                                {i \in 1 .. Len(buckets) : SameRelease(p, buckets[i].first)}, {})
      buckets == FoldLeft(put, <<>>, byLink)
      inBucket(b) == {p \in ToSet(byLink) : LET homes == {i \in 1 .. Len(buckets) : SameRelease(p, buckets[i].first)}
                                            IN \E i \in homes : buckets[i] = b /\ \A j \in homes : i <= j}
      best(b) == CHOOSE p \in inBucket(b) : \A q \in inBucket(b) : p = q \/ Preferred(p, q)
  IN {best(buckets[i]) : i \in 1 .. Len(buckets)}

\* betterSearchCandidate
better(c, d) ==
  IF c.rejected # d.rejected THEN ~ c.rejected ELSE c.posting.score > d.posting.score

Sorted(candidates) == SetToSortSeq(candidates, better)

\* buildSearchCandidates: a URL whose row tells of a failure that counts is rejected.
buildSearchCandidates(answer, history) ==
  LET known(p) == {h \in history : h.posting.link = p.link}
      failure(p) == IF \E h \in known(p) : h.failure = "counts" THEN "counts"
                    ELSE IF \E h \in known(p) : h.failure = "exempt" THEN "exempt" ELSE "no"
  IN Sorted({[posting |-> p, rejected |-> failure(p) = "counts" \/ ~ p.fits, failure |-> failure(p)] :
             p \in dedupeSearchResults(answer)})

filterToPacksOnly(candidates) == SelectSeq(candidates, LAMBDA c : c.rejected \/ c.posting.pack)

\* The incoming candidates take the place of those that were there.
M_mergeSearchCandidates(existing, incoming) == incoming

\* A candidate goes to the place its URL was given before, else to that of its name and
\* size, else to one of its own; the place keeps the better of the two.
mergeSearchCandidates(existing, incoming) ==
  LET places == DOMAIN (existing \o incoming)
      start == [items |-> <<>>, names |-> <<>>, place |-> [l \in Links |-> 0]]
      add(g, c) ==
        LET byName == {i \in 1 .. Len(g.items) :
                        g.names[i] = c.posting.name /\ sizesClose(c.posting.size, g.items[i].posting.size)}
            at == IF g.place[c.posting.link] > 0 THEN g.place[c.posting.link]
                  ELSE IF byName # {} THEN CHOOSE i \in byName : \A j \in byName : i <= j
                  ELSE Len(g.items) + 1
        IN [items |-> IF at > Len(g.items) THEN Append(g.items, c)
                      ELSE IF better(c, g.items[at]) THEN [g.items EXCEPT ![at] = c] ELSE g.items,
            names |-> IF at > Len(g.items) THEN Append(g.names, c.posting.name) ELSE g.names,
            place |-> [g.place EXCEPT ![c.posting.link] = at]]
  IN Sorted(ToSet(FoldLeft(add, start, existing \o incoming).items))

-----------------------------------------------------------------------------
\* shouldContinueSearch: everything usable is a season pack or has failed before.
shouldContinueSearch(candidates) ==
  \A c \in ToSet(candidates) : c.rejected \/ c.posting.pack \/ c.failure # "no"

\* ReplaceSearchCandidates: the rows are those of this search and no others; a row on the
\* blocklist is rejected, and the first that is not is selected.
ReplaceSearchCandidates(candidates) ==
  LET judged == [i \in 1 .. Len(candidates) |->
                   [candidates[i] EXCEPT !.rejected = @ \/ candidates[i].posting.link \in blocked]]
      usable == SelectSeq(judged, LAMBDA c : ~ c.rejected)
  IN [rows |-> ToSet(judged), selected |-> IF usable = <<>> THEN None ELSE usable[1].posting.link]

\* The search starts from what the rows tell; a season pack is due or is not.
Start ==
  /\ search = Idle /\ searchCount < Searches /\ selected = None
  /\ searchCount' = searchCount + 1
  /\ seen' = {}
  /\ \E stage \in {"pack", "tier1"} :
       search' = [Idle EXCEPT !.pc = stage, !.todo = Requests[stage], !.history = rows]
  /\ UNCHANGED <<rows, selected, blocked, attempts, everFailed>>

\* The stage is through: pack candidates stay with those of the next.
NextStage ==
  /\ search.pc \in {"pack", "tier1", "tier2"} /\ search.todo = <<>>
  /\ search' = CASE search.pc = "pack" -> [search EXCEPT !.pc = "tier1", !.todo = Requests["tier1"]]
                 [] search.pc = "tier1" -> [search EXCEPT !.pc = "tier2", !.todo = Requests["tier2"]]
                 [] search.pc = "tier2" -> [search EXCEPT !.pc = "end"]
  /\ UNCHANGED <<rows, selected, blocked, attempts, seen, everFailed, searchCount>>

Asking == search.pc \in {"pack", "tier1", "tier2"} /\ search.todo # <<>>
Request == Head(search.todo)

\* shouldSkipSearchRequest
Skip ==
  /\ Asking /\ Request \in attempts
  /\ search' = [search EXCEPT !.todo = Tail(@)]
  /\ UNCHANGED <<rows, selected, blocked, attempts, seen, everFailed, searchCount>>

\* searchHydraWithRetry fails; the request is not remembered.
AskFails ==
  /\ Asking /\ Request \notin attempts
  /\ search' = [search EXCEPT !.todo = Tail(@)]
  /\ UNCHANGED <<rows, selected, blocked, attempts, seen, everFailed, searchCount>>

\* A season pack asked for and not listed leaves the rows alone.
AskEmpty ==
  /\ Asking /\ Request \notin attempts /\ search.pc = "pack"
  /\ attempts' = attempts \cup {Request}
  /\ search' = [search EXCEPT !.todo = Tail(@)]
  /\ UNCHANGED <<rows, selected, blocked, seen, everFailed, searchCount>>

Answer(answer) ==
  LET built == buildSearchCandidates(answer, search.history)
      candidates == IF search.pc = "pack" THEN filterToPacksOnly(built) ELSE built
      combined == mergeSearchCandidates(search.combined, candidates)
      stored == ReplaceSearchCandidates(combined)
      enough == stored.selected # None /\ (search.pc = "pack" \/ ~ shouldContinueSearch(combined))
  IN
  /\ Asking /\ Request \notin attempts
  /\ search.pc = "pack" => answer # <<>>
  /\ rows' = stored.rows
  /\ selected' = stored.selected
  /\ attempts' = attempts \cup {Request}
  /\ seen' = seen \cup ToSet(candidates)
  /\ search' = [search EXCEPT !.combined = combined,
                              !.todo = IF enough THEN <<>> ELSE Tail(@),
                              !.pc = IF enough THEN "end" ELSE @]
  /\ UNCHANGED <<blocked, everFailed, searchCount>>

\* Nothing was found: PromoteExistingCandidate takes the best row that is left, whether it
\* has failed or not.
Finish ==
  LET usable == {c \in rows : ~ c.rejected /\ c.posting.link \notin blocked}
      promoted == IF selected = None /\ search.combined = <<>> /\ usable # {}
                  THEN Sorted(usable)[1].posting.link ELSE selected
  IN
  /\ search.pc = "end"
  /\ selected' = promoted
  /\ search' = Idle
  /\ seen' = {}
  /\ UNCHANGED <<rows, blocked, attempts, everFailed, searchCount>>

Fewer(c, d) ==
  IF (c.failure = "no") # (d.failure = "no") THEN c.failure = "no" ELSE better(c, d)

\* FailSelectedReleaseAndPromoteNext: the row is told of it, a reason that proves the
\* release bad rejects it and puts its URL on the blocklist, and of the other rows the
\* best of those that failed least is selected.
Fail(reason) ==
  LET told == {IF c.posting.link = selected
               THEN [c EXCEPT !.failure = IF reason = "quota" THEN "exempt" ELSE "counts",
                              !.rejected = reason = "proven"]
               ELSE c : c \in rows}
      usable == {c \in told : ~ c.rejected /\ c.posting.link \notin blocked \cup {selected}}
  IN
  /\ search = Idle /\ selected # None
  /\ rows' = told
  /\ blocked' = IF reason = "proven" THEN blocked \cup {selected} ELSE blocked
  /\ everFailed' = IF reason = "quota" THEN everFailed ELSE everFailed \cup {selected}
  /\ selected' = IF usable = {} THEN None ELSE SetToSortSeq(usable, Fewer)[1].posting.link
  /\ UNCHANGED <<attempts, search, seen, searchCount>>

\* searchCooldown is over, or the process has restarted.
Forget ==
  /\ attempts # {} /\ search = Idle
  /\ attempts' = {}
  /\ UNCHANGED <<rows, selected, blocked, search, seen, everFailed, searchCount>>

Answers == {<<>>} \cup {<<p>> : p \in Postings} \cup {<<p, q>> : p \in Postings, q \in Postings}

Next ==
  \/ Start \/ NextStage \/ Skip \/ AskFails \/ AskEmpty \/ Finish \/ Forget
  \/ \E answer \in Answers : Answer(answer)
  \/ \E reason \in {"quota", "soft", "proven"} : Fail(reason)

Spec == Init /\ [][Next]_searchVars

-----------------------------------------------------------------------------
\* What a search selects is the best usable candidate of all its answers, in whatever
\* order they came and however they were merged (service.go:4067-4079).
SelectionIsBestSeen ==
  search.pc = "end" /\ search.combined # <<>> =>
    LET usable == {c \in seen : ~ c.rejected /\ c.posting.link \notin blocked}
    IN selected = IF usable = {} THEN None ELSE Sorted(usable)[1].posting.link

\* A search knows of every URL of the item that has failed for a reason that counts, the
\* rows that told of it deleted or not (workflow_repository.go:1579-1584).
HistoryIsKept ==
  search.pc # "idle" =>
    \A l \in everFailed : \E c \in search.history : c.posting.link = l /\ c.failure # "no"
=============================================================================
