------------------------------ MODULE SeasonPack ------------------------------
(***************************************************************************)
(* The episodes of one season that share a release.  A pack is fetched for *)
(* the episode that asked for it and its files become links of all the     *)
(* others: they get a selection of the same candidate, without files of    *)
(* their own (library/publisher.go, database/season_pack_fulfillment.go,   *)
(* database/publication_repository.go).  What hangs on a release goes with *)
(* it, wherever else its files are linked.                                 *)
(***************************************************************************)
EXTENDS Integers, FiniteSets

CONSTANTS
  Workers,   \* who publishes
  Episodes,  \* episode numbers of the season
  Wanted,    \* those with a library item from the start
  Files,     \* candidate -> its files, each the set of episodes its name names
  Owner,     \* candidate -> the episode whose search found it
  MaxRows,   \* bound on selected_releases rows
  Faults     \* bound on failing links and failing releases

VARIABLES
  item,   \* library_items and queue_items, per episode
  row,    \* selected_releases
  rows,   \* how many rows there have been
  link,   \* symlink_publications: the row and the file an episode's link leads to
  work,   \* per worker: the publication it is in
  faults

packVars == <<item, row, rows, link, work, faults>>

Candidates == DOMAIN Files
Ids == 1 .. MaxRows
NoRow == [item |-> 0, candidate |-> "none", own |-> FALSE, files |-> FALSE]
NoLink == [row |-> 0, file |-> {}]
NoItem == [known |-> FALSE, available |-> FALSE, state |-> "none", selected |-> 0]
Idle == [pc |-> "idle", row |-> 0, new |-> FALSE, at |-> 0, todo |-> {}]
Start(f) == CHOOSE e \in f : \A o \in f : e <= o

TypeOK ==
  /\ item \in [Episodes -> [known : BOOLEAN, available : BOOLEAN,
                            state : {"none", "busy", "available", "failed"},
                            selected : 0 .. MaxRows]]
  /\ row \in [Ids -> [item : Episodes \cup {0}, candidate : Candidates \cup {"none"},
                      own : BOOLEAN, files : BOOLEAN]]
  /\ rows \in 0 .. MaxRows /\ faults \in 0 .. Faults
  /\ link \in [Episodes -> [row : 0 .. MaxRows, file : SUBSET Episodes]]
  /\ \A w \in Workers : /\ work[w].pc \in {"idle", "match", "links", "fulfil", "create"}
                        /\ work[w].row \in 0 .. MaxRows

Init ==
  /\ item = [e \in Episodes |-> [NoItem EXCEPT !.known = e \in Wanted]]
  /\ row = [i \in Ids |-> NoRow] /\ rows = 0
  /\ link = [e \in Episodes |-> NoLink]
  /\ work = [w \in Workers |-> Idle]
  /\ faults = 0

Live(i) == i \in Ids /\ row[i].item # 0
RowsOf(e) == {i \in Ids : row[i].item = e}
NewRow(e, c, own) == [item |-> e, candidate |-> c, own |-> own, files |-> FALSE]
Fits(e, f) == e \in f

\* Deleting rows takes their files and every link to those along, and leaves
\* the queue items that point at them without a selection.
Without(S, its) == [e \in Episodes |-> IF its[e].selected \in S THEN [its[e] EXCEPT !.selected = 0] ELSE its[e]]
RowsWithout(S) == [i \in Ids |-> IF i \in S THEN NoRow ELSE row[i]]
LinksWithout(S, ln) == [e \in Episodes |-> IF ln[e].row \in S THEN NoLink ELSE ln[e]]

-----------------------------------------------------------------------------
(* What the release lifecycle does to an item.                             *)

\* A search selects a candidate, in place of what the item has or beside it.
Search(e, c) ==
  /\ Owner[c] = e /\ item[e].known /\ item[e].state # "busy" /\ rows < MaxRows
  /\ \A i \in RowsOf(e) : row[i].candidate # c
  /\ rows' = rows + 1
  /\ IF item[e].available
       THEN /\ row' = [row EXCEPT ![rows + 1] = NewRow(e, c, TRUE)]
            /\ UNCHANGED <<item, link>>
       ELSE /\ row' = [RowsWithout(RowsOf(e)) EXCEPT ![rows + 1] = NewRow(e, c, TRUE)]
            /\ link' = LinksWithout(RowsOf(e), link)
            /\ item' = [Without(RowsOf(e), item) EXCEPT ![e].state = "busy", ![e].selected = rows + 1]
  /\ UNCHANGED <<work, faults>>

Import(i) ==
  /\ Live(i) /\ row[i].own /\ ~row[i].files
  /\ row' = [row EXCEPT ![i].files = TRUE]
  /\ UNCHANGED <<item, rows, link, work, faults>>

\* A release fails, its health check or its download: an active one takes the
\* item's links and its availability along.
Fail(i) ==
  /\ Live(i) /\ row[i].own /\ faults < Faults
  /\ LET e == row[i].item IN
     /\ row' = RowsWithout({i})
     /\ IF item[e].selected = i
          THEN /\ item' = [Without({i}, item) EXCEPT ![e].available = FALSE, ![e].state = "failed"]
               /\ link' = [LinksWithout({i}, link) EXCEPT ![e] = NoLink]
          ELSE /\ item' = item
               /\ link' = LinksWithout({i}, link)
  /\ faults' = faults + 1
  /\ UNCHANGED <<rows, work>>

-----------------------------------------------------------------------------
(* A publication.                                                          *)

\* Which of its own files a release of several gives its item: those that name
\* the episode, and those whose names say nothing.
OwnFiles(e, c) ==
  IF Cardinality(Files[c]) = 1 THEN Files[c] ELSE {f \in Files[c] : f = {} \/ Fits(e, f)}

MarkReleaseAvailable(i, ln) ==
  LET e == row[i].item  others == RowsOf(e) \ {i} IN
  /\ row' = RowsWithout(others)
  /\ item' = [Without(others, item) EXCEPT ![e].available = TRUE, ![e].state = "available", ![e].selected = i]
  /\ link' = LinksWithout(others, ln)

Publish(w, i, new) ==
  /\ work[w].pc = "idle" /\ Live(i) /\ row[i].files
  /\ LET e == row[i].item  mine == OwnFiles(e, row[i].candidate) IN
     IF mine = {} THEN MarkReleaseAvailable(i, link)
     ELSE \E f \in mine : MarkReleaseAvailable(i, [link EXCEPT ![e] = [row |-> i, file |-> f]])
  /\ work' = [work EXCEPT ![w] = [pc |-> "match", row |-> i, new |-> new, at |-> 0, todo |-> {}]]
  /\ UNCHANGED <<rows, faults>>

\* A worker publishes what it has imported.
PublishSelectedRelease(w, i) ==
  /\ Live(i) /\ row[i].own
  /\ item[row[i].item].selected # i \/ item[row[i].item].state = "busy"
  /\ Publish(w, i, TRUE)

\* The files of the release and the items of the show, put together: the file that
\* starts with the episode before one that only runs over it.
FindSeasonPackMatches(w) ==
  /\ work[w].pc = "match"
  /\ LET fs == IF Live(work[w].row) /\ row[work[w].row].files THEN Files[row[work[w].row].candidate] ELSE {}
         named(e) == {f \in fs : Fits(e, f)}
         first(e) == {f \in named(e) : Start(f) = e}
         pick(e) == CHOOSE f \in IF first(e) # {} THEN first(e) ELSE named(e) : TRUE
     IN work' = [work EXCEPT ![w].pc = "links",
          ![w].todo = {[episode |-> e, file |-> pick(e)] : e \in {x \in Episodes : item[x].known /\ named(x) # {}}}]
  /\ UNCHANGED <<item, row, rows, link, faults>>

\* One match: the link; one that cannot be made leaves the episode out, as does a
\* file that is gone.
fulfillSeasonPackEpisodes(w) ==
  /\ work[w].pc = "links"
  /\ \E t \in work[w].todo :
       LET rest == work[w].todo \ {t} IN
       \/ /\ Live(work[w].row)
          /\ link' = [link EXCEPT ![t.episode] = [row |-> work[w].row, file |-> t.file]]
          /\ work' = [work EXCEPT ![w].pc = "fulfil", ![w].at = t.episode, ![w].todo = rest]
          /\ UNCHANGED faults
       \/ /\ ~Live(work[w].row) \/ faults < Faults
          /\ faults' = IF Live(work[w].row) THEN faults + 1 ELSE faults
          /\ work' = [work EXCEPT ![w].todo = rest]
          /\ UNCHANGED link
  /\ UNCHANGED <<item, row, rows>>

\* ... and then the row: an episode with a selection of its own keeps it.
FulfillEpisodeLibraryItem(w) ==
  /\ work[w].pc = "fulfil"
  /\ LET e == work[w].at
     IN /\ work' = [work EXCEPT ![w].pc = "links", ![w].at = 0]
        /\ IF ~Live(work[w].row) THEN UNCHANGED <<item, row, rows>>
           ELSE IF RowsOf(e) # {}
           THEN /\ item' = [item EXCEPT ![e].available = TRUE,
                     ![e].state = IF @ = "none" THEN @ ELSE "available"]
                /\ UNCHANGED <<row, rows>>
           ELSE /\ rows < MaxRows
                /\ rows' = rows + 1
                /\ row' = [row EXCEPT ![rows + 1] = NewRow(e, row[work[w].row].candidate, FALSE)]
                /\ item' = [item EXCEPT ![e] = [known |-> TRUE, available |-> TRUE,
                                                state |-> "available", selected |-> rows + 1]]
  /\ UNCHANGED <<link, faults>>

\* A first publication goes on to the episodes nobody asked for, and matches again.
MatchesDone(w) ==
  /\ work[w].pc = "links" /\ work[w].todo = {}
  /\ LET me == work[w]
         fs == IF Live(me.row) /\ row[me.row].files THEN Files[row[me.row].candidate] \ {{}} ELSE {}
     IN work' = [work EXCEPT ![w] =
          IF ~me.new THEN Idle
          ELSE [me EXCEPT !.pc = "create", !.new = FALSE,
                !.todo = {[episode |-> Start(f), file |-> f] : f \in fs}]]
  /\ UNCHANGED <<item, row, rows, link, faults>>

createSeasonPackEpisodeItem(w) ==
  /\ work[w].pc = "create"
  /\ \E t \in work[w].todo :
       LET e == t.episode  own == RowsOf(e) IN
       /\ work' = [work EXCEPT ![w].todo = @ \ {t}]
       /\ IF ~Live(work[w].row) THEN UNCHANGED <<item, row, rows>>
          ELSE IF own # {}
          THEN \E i \in own :
                 /\ item' = [item EXCEPT ![e] = [known |-> TRUE, available |-> TRUE,
                                                 state |-> "available", selected |-> i]]
                 /\ UNCHANGED <<row, rows>>
          ELSE /\ rows < MaxRows
               /\ rows' = rows + 1
               /\ row' = [row EXCEPT ![rows + 1] = NewRow(e, row[work[w].row].candidate, FALSE)]
               /\ item' = [item EXCEPT ![e] = [known |-> TRUE, available |-> TRUE,
                                               state |-> "available", selected |-> rows + 1]]
  /\ UNCHANGED <<link, faults>>

CreateSeasonPackEpisodeItems(w) ==
  /\ work[w].pc = "create" /\ work[w].todo = {}
  /\ work' = [work EXCEPT ![w].pc = "match"]
  /\ UNCHANGED <<item, row, rows, link, faults>>

-----------------------------------------------------------------------------
(* The passes that look for episodes without a link.                       *)

Sources(e) ==
  {i \in Ids : /\ Live(i) /\ row[i].files /\ row[i].item # e
               /\ \E o \in RowsOf(e) : row[o].candidate = row[i].candidate}

\* Which of an item's releases have files, else one that shares its candidate.
Linkable(e) ==
  LET own == {i \in RowsOf(e) : row[i].files} IN
  IF own # {} THEN \E i \in own : OwnFiles(e, row[i].candidate) # {}
              ELSE \E i \in Sources(e) : \E f \in Files[row[i].candidate] : Fits(e, f)

ListPendingRepublishTargets(e) ==
  /\ item[e].known
  /\ IF item[e].available THEN link[e] = NoLink ELSE item[e].state = "busy"

RepublishLibraryItem(w, e) ==
  /\ ListPendingRepublishTargets(e)
  /\ LET own == {i \in RowsOf(e) : row[i].files} IN
     IF own # {} THEN \E i \in own : Publish(w, i, FALSE)
     ELSE \E i \in Sources(e) : \E f \in Files[row[i].candidate] :
            /\ Fits(e, f)
            /\ link' = [link EXCEPT ![e] = [row |-> i, file |-> f]]
            /\ UNCHANGED <<item, row, rows, work, faults>>

\* A plausible bug: any other row of the same candidate will do, files or none.
M_Sources(e) ==
  {i \in Ids : /\ Live(i) /\ row[i].item # e
               /\ \E o \in RowsOf(e) : row[o].candidate = row[i].candidate}
M_Recoverable(e) ==
  \/ \E i \in RowsOf(e) : row[i].files /\ \E f \in Files[row[i].candidate] : Fits(e, f)
  \/ \E i \in M_Sources(e) : \E f \in Files[row[i].candidate] : Fits(e, f)

Recoverable(e) ==
  \/ \E i \in RowsOf(e) : row[i].files /\ \E f \in Files[row[i].candidate] : Fits(e, f)
  \/ \E i \in Sources(e) : \E f \in Files[row[i].candidate] : Fits(e, f)

ListUnrecoverableLibraryItems(e) ==
  /\ item[e].known /\ item[e].available /\ item[e].state # "busy"
  /\ link[e] = NoLink /\ ~Recoverable(e)

ResetOrphanedAvailableItems(e) ==
  /\ ListUnrecoverableLibraryItems(e)
  /\ row' = RowsWithout(RowsOf(e))
  /\ link' = LinksWithout(RowsOf(e), link)
  /\ item' = [Without(RowsOf(e), item) EXCEPT ![e].available = FALSE, ![e].state = "none"]
  /\ UNCHANGED <<rows, work, faults>>

Next ==
  \/ \E e \in Episodes : \/ \E c \in Candidates : Search(e, c)
                         \/ ResetOrphanedAvailableItems(e)
  \/ \E i \in Ids : Import(i) \/ Fail(i)
  \/ \E w \in Workers :
       \/ \E i \in Ids : PublishSelectedRelease(w, i)
       \/ \E e \in Episodes : RepublishLibraryItem(w, e)
       \/ FindSeasonPackMatches(w) \/ fulfillSeasonPackEpisodes(w) \/ FulfillEpisodeLibraryItem(w)
       \/ MatchesDone(w) \/ createSeasonPackEpisodeItem(w) \/ CreateSeasonPackEpisodeItems(w)

Spec == Init /\ [][Next]_packVars

-----------------------------------------------------------------------------
\* An episode shown as available whose link is gone, with nothing of it under
\* way, is found by one of the two housekeeping passes: either the republication
\* has a file to link for it, or the reset gives it back to the searches.
NoEpisodeForgotten ==
  \A e \in Episodes :
    (item[e].known /\ item[e].available /\ item[e].state # "busy" /\ link[e] = NoLink)
      => Linkable(e) \/ ListUnrecoverableLibraryItems(e)

-----------------------------------------------------------------------------
Rows(S) == [item : S, candidate : Candidates \cup {"none"}, own : BOOLEAN, files : BOOLEAN]
Shapes == (\E S : row \in [Ids -> Rows(S)]) /\ rows \in Nat

\* Files come with an episode's own release, and that is one found for it.
FilesAreOwners ==
  \A i \in Ids : /\ row[i].files => row[i].own
                 /\ row[i].own => row[i].candidate \in Candidates /\ Owner[row[i].candidate] = row[i].item

PackInv == Shapes /\ FilesAreOwners
=============================================================================
