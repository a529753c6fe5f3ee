----------------------- MODULE ReleaseLifecycle_proofs -----------------------
(***************************************************************************)
(* For every set of candidates, every number of releases and of workers:   *)
(* the rows of one item stay consistent whatever the search, the user, the *)
(* workers, the housekeeping and the restarts do, and no candidate is      *)
(* fetched a second time; and the lifecycle implements ReleaseSelection.   *)
(*                                                                         *)
(* The three invariants of the rows need each other, and two facts more:   *)
(* the queue points to a row that exists, and no row has an id that was    *)
(* not issued.  OneFetchAttempt needs them too: a failure deletes its row, *)
(* so only a second row of the same candidate could carry it to a fetch.   *)
(***************************************************************************)
EXTENDS ReleaseLifecycle, TLAPS

\* The types of the variables, by name.
Row == [cand : Candidates \cup {None}, doc : {"none", "stored", "full"}, published : BOOLEAN]
AllRows == [Releases -> Row]
AllQueues == [state : States, sel : Releases \cup {None}, held : BOOLEAN]
AllWorkers == [Workers -> [pc : WorkerPC, rel : Releases \cup {None}, staged : BOOLEAN]]
AllSearches == [pc : {"idle", "asking", "failing"}, upgrade : BOOLEAN, base : Candidates \cup {None}]
Flags == {"absent", "free", "selected", "rejected"}

USE DEF Row, AllRows, AllQueues, AllWorkers, AllSearches, Flags

SelectionExists == queue.sel # None => queue.sel \in Live
Fresh == \A r \in Releases : r > issued => rows[r] = NoRow

RowsInv ==
  /\ SelectionExists
  /\ Fresh
  /\ NoCandidateTwice
  /\ RejectedIsNotSelected
  /\ OneStagedRelease

\* The type of rows, queue and cand alone.
RowsType ==
  /\ queue \in AllQueues
  /\ cand \in [Candidates -> Flags]
  /\ rows \in AllRows
  /\ issued \in 0 .. MaxReleases

-----------------------------------------------------------------------------
(* What inserting, deleting and keeping rows does to them. *)

LEMMA InsertFacts ==
  ASSUME RowsType, Fresh, NEW c \in Candidates, NEW gone, Insert(c, gone)
  PROVE  /\ New \in Releases /\ issued' = New /\ New \notin Live
         /\ rows' \in AllRows
         /\ issued' \in 0 .. MaxReleases
         /\ Live' = (Live \ gone) \cup {New}
         /\ rows'[New].cand = c
         /\ \A r \in Live \ gone : rows'[r] = rows[r]
         /\ Fresh'
<1> USE LifecycleAssumption
<1>1. None \notin Candidates /\ None = 0
  BY DEF None
<1>2. New \in Releases /\ issued' = New /\ issued' \in 0 .. MaxReleases
  BY DEF Insert, New, Releases, RowsType
<1>3. New > issued /\ issued \in Nat
  BY DEF New, RowsType
<1>4. rows[New] = NoRow
  BY <1>2, <1>3 DEF Fresh
<1>5. New \notin Live
  BY <1>4 DEF Live, NoRow
<1>6. /\ rows'[New] = [NoRow EXCEPT !.cand = c]
      /\ \A r \in Releases : r # New => rows'[r] = IF r \in gone THEN NoRow ELSE rows[r]
  BY <1>2 DEF Insert
<1>7. [NoRow EXCEPT !.cand = c] \in Row
  BY DEF NoRow
<1>8. NoRow \in Row
  BY DEF NoRow
<1>9. rows' \in AllRows
  BY <1>7, <1>8 DEF Insert, RowsType
<1>10. rows'[New].cand = c /\ NoRow.cand = None
  BY <1>6 DEF NoRow
<1>11. Live' = (Live \ gone) \cup {New}
  BY <1>1, <1>2, <1>5, <1>6, <1>10 DEF Live
<1>12. \A r \in Live \ gone : rows'[r] = rows[r]
  BY <1>5, <1>6 DEF Live
<1>13. Fresh'
  <2> SUFFICES ASSUME NEW r \in Releases, r > issued' PROVE rows'[r] = NoRow
    BY DEF Fresh
  <2>1. r # New /\ r > issued
    BY <1>2, <1>3 DEF Releases, New
  <2> QED
    BY <2>1, <1>6 DEF Fresh
<1> QED
  BY <1>2, <1>5, <1>9, <1>10, <1>11, <1>12, <1>13

LEMMA DeleteFacts ==
  ASSUME RowsType, Fresh, NEW gone, Delete(gone)
  PROVE  /\ rows' \in AllRows
         /\ issued' \in 0 .. MaxReleases
         /\ Live' = Live \ gone
         /\ \A r \in Live \ gone : rows'[r] = rows[r]
         /\ Fresh'
<1>1. NoRow \in Row /\ NoRow.cand = None
  BY DEF NoRow
<1>2. \A r \in Releases : rows'[r] = IF r \in gone THEN NoRow ELSE rows[r]
  BY DEF Delete
<1>3. rows' \in AllRows
  BY <1>1 DEF Delete, RowsType
<1>4. Live' = Live \ gone /\ (\A r \in Live \ gone : rows'[r] = rows[r])
  BY <1>1, <1>2 DEF Live
<1>5. Fresh' /\ issued' \in 0 .. MaxReleases
  BY <1>1, <1>2 DEF Fresh, Delete, RowsType
<1> QED
  BY <1>3, <1>4, <1>5

\* A new row keeps the invariants if it is the only one of its candidate and joins
\* at most one other: a stray one if it is selected, the selected one if not.
LEMMA InsertKeeps ==
  ASSUME RowsType, RowsInv, NEW c \in Candidates, NEW gone, Insert(c, gone),
         \A r \in Live \ gone : rows[r].cand # c,
         \A r \in Live \ gone : cand'[rows[r].cand] \in {"free", "selected"},
         cand'[c] \in {"free", "selected"},
         \/ queue'.sel = New /\ \A q, r \in Live \ gone : q = r
         \/ queue'.sel \in Live \ gone /\ \A q \in Live \ gone : q = queue'.sel
  PROVE  RowsInv'
<1>1. /\ New \notin Live
      /\ Live' = (Live \ gone) \cup {New}
      /\ rows'[New].cand = c
      /\ \A r \in Live \ gone : rows'[r] = rows[r]
      /\ Fresh'
  BY InsertFacts DEF RowsInv
<1>2. SelectionExists'
  BY <1>1 DEF SelectionExists
<1>3. NoCandidateTwice'
  BY <1>1 DEF NoCandidateTwice, RowsInv
<1>4. RejectedIsNotSelected'
  BY <1>1 DEF RejectedIsNotSelected
<1>5. OneStagedRelease'
  BY <1>1 DEF OneStagedRelease
<1> QED
  BY <1>1, <1>2, <1>3, <1>4, <1>5 DEF RowsInv

\* Deleting rows keeps the invariants if the selected one goes with its pointer and
\* leaves at most one behind.
LEMMA DeleteKeeps ==
  ASSUME RowsType, RowsInv, NEW gone, Delete(gone),
         \A r \in Live \ gone : cand'[rows[r].cand] \in {"free", "selected"},
         queue'.sel # None => queue'.sel \in Live \ gone,
         \A q, r \in (Live \ gone) \ {queue'.sel} : q = r
  PROVE  RowsInv'
<1>1. /\ Live' = Live \ gone
      /\ \A r \in Live \ gone : rows'[r] = rows[r]
      /\ Fresh'
  BY DeleteFacts DEF RowsInv
<1>2. SelectionExists'
  BY <1>1 DEF SelectionExists
<1>3. NoCandidateTwice'
  BY <1>1 DEF NoCandidateTwice, RowsInv
<1>4. RejectedIsNotSelected'
  BY <1>1 DEF RejectedIsNotSelected
<1>5. OneStagedRelease'
  BY <1>1 DEF OneStagedRelease
<1> QED
  BY <1>1, <1>2, <1>3, <1>4, <1>5 DEF RowsInv

\* A step that leaves the candidates of the rows alone keeps the invariants.
LEMMA SameRowsKeep ==
  ASSUME RowsType, RowsInv, rows' \in AllRows,
         \A r \in Releases : rows'[r].cand = rows[r].cand,
         \A r \in Releases : rows[r] = NoRow => rows'[r] = NoRow,
         issued' = issued, queue'.sel = queue.sel,
         \A r \in Live : cand'[rows[r].cand] \in {"free", "selected"}
  PROVE  RowsInv'
<1>1. Live' = Live
  BY DEF Live
<1>2. \A r \in Live : r \in Releases
  BY DEF Live
<1>3. SelectionExists' /\ OneStagedRelease'
  BY <1>1 DEF SelectionExists, OneStagedRelease, RowsInv
<1>4. NoCandidateTwice' /\ RejectedIsNotSelected'
  BY <1>1, <1>2 DEF NoCandidateTwice, RejectedIsNotSelected, RowsInv
<1>5. Fresh'
  BY DEF Fresh, RowsInv
<1> QED
  BY <1>3, <1>4, <1>5 DEF RowsInv

LEMMA RowsTypeOK == TypeOK => RowsType
  BY DEF TypeOK, RowsType

LEMMA LiveFacts ==
  ASSUME TypeOK
  PROVE  /\ \A r \in Live : r \in Releases /\ r # None /\ rows[r].cand \in Candidates
         /\ \A r : Exists(r) <=> r \in Live
<1>1. 0 \notin Releases /\ None = 0
  BY DEF Releases, None
<1> QED
  BY <1>1 DEF Live, Exists, TypeOK

\* Once a row is gone at most one is left.
LEMMA OneLeft ==
  ASSUME RowsInv, NEW gone, NEW r \in Live, r \in gone
  PROVE  \A p, q \in Live \ gone : p = q
BY DEF RowsInv, OneStagedRelease

\* What Activate and PromoteExistingCandidate do: c is all that is selected.
LEMMA OnlySelection ==
  ASSUME TypeOK, RowsInv, NEW c \in Candidates, Insert(c, Live),
         queue' = [queue EXCEPT !.state = "selected", !.sel = New],
         cand' \in [Candidates -> Flags], cand'[c] = "selected"
  PROVE  RowsType' /\ RowsInv' /\ New \in Releases
<1>1. /\ New \in Releases
      /\ rows' \in AllRows
      /\ issued' \in 0 .. MaxReleases
  BY InsertFacts, RowsTypeOK DEF RowsInv
<1>2. queue' \in AllQueues /\ queue'.sel = New
  BY <1>1 DEF TypeOK, States, Working
<1>3. RowsType'
  BY <1>1, <1>2 DEF RowsType
<1>4. RowsInv'
  BY <1>2, InsertKeeps, RowsTypeOK
<1> QED
  BY <1>1, <1>3, <1>4

\* The blocklist rejects nothing that is selected.
LEMMA BlockedFacts ==
  ASSUME TypeOK, RowsInv, NEW flags \in [Candidates -> Flags], NEW caught \in SUBSET NextCandidates
  PROVE  /\ Blocked(flags, caught) \in [Candidates -> Flags]
         /\ \A q \in Live : Blocked(flags, caught)[rows[q].cand] = flags[rows[q].cand]
<1>1. \A q \in Live : rows[q].cand \in Candidates /\ rows[q].cand \notin caught
  BY LiveFacts DEF NextCandidates, Eligible, HasRow
<1> QED
  BY <1>1 DEF Blocked

LEMMA NoneCaught ==
  ASSUME TypeOK, RowsInv
  PROVE  /\ Blocked(cand, NextCandidates) \in [Candidates -> Flags]
         /\ \A q \in Live : Blocked(cand, NextCandidates)[rows[q].cand] = cand[rows[q].cand]
<1>1. cand \in [Candidates -> Flags] /\ NextCandidates \in SUBSET NextCandidates
  BY DEF TypeOK
<1> QED
  BY <1>1, BlockedFacts

LEMMA PromoteNextKeeps ==
  ASSUME TypeOK, RowsInv, NEW c \in Candidates, NEW gone, NEW r \in Live, r \in gone,
         NEW flags \in [Candidates -> Flags],
         \A q \in Live \ gone : flags[rows[q].cand] \in {"free", "selected"},
         PromoteNext(c, gone, flags)
  PROVE  RowsType' /\ RowsInv' /\ (issued' # issued => New \in Releases)
<1>1. \A p, q \in Live \ gone : p = q
  BY OneLeft
<1>2. ASSUME NEW n \in Candidates, Eligible(n), NEW caught \in SUBSET NextCandidates, Insert(n, gone),
             cand' = [Blocked(flags, caught) EXCEPT ![n] = "selected"],
             queue' = [queue EXCEPT !.state = "selected", !.sel = New]
      PROVE  RowsType' /\ RowsInv' /\ New \in Releases
  <2>0. /\ Blocked(flags, caught) \in [Candidates -> Flags]
        /\ \A q \in Live : Blocked(flags, caught)[rows[q].cand] = flags[rows[q].cand]
    BY BlockedFacts
  <2>1. /\ New \in Releases
        /\ rows' \in AllRows
        /\ issued' \in 0 .. MaxReleases
    BY <1>2, InsertFacts, RowsTypeOK DEF RowsInv
  <2>2. queue' \in AllQueues /\ queue'.sel = New
    BY <1>2, <2>1 DEF TypeOK, States, Working
  <2>3. cand' \in [Candidates -> Flags] /\ cand'[n] = "selected"
    BY <1>2, <2>0
  <2>4. \A q \in Live \ gone : rows[q].cand # n
    BY <1>2 DEF Eligible, HasRow
  <2>5. \A q \in Live \ gone : cand'[rows[q].cand] \in {"free", "selected"}
    BY <1>2, <2>0, <2>4, LiveFacts
  <2>6. RowsType'
    BY <2>1, <2>2, <2>3 DEF RowsType
  <2>7. RowsInv'
    BY <1>1, <1>2, <2>2, <2>3, <2>4, <2>5, InsertKeeps, RowsTypeOK
  <2> QED
    BY <2>1, <2>6, <2>7
<1>3. ASSUME NEW caught \in SUBSET NextCandidates, Delete(gone), cand' = Blocked(flags, caught),
             queue' = [queue EXCEPT !.state = "failed", !.sel = None]
      PROVE  RowsType' /\ RowsInv' /\ issued' = issued
  <2>1. /\ rows' \in AllRows
        /\ issued' \in 0 .. MaxReleases /\ issued' = issued
    BY <1>3, DeleteFacts, RowsTypeOK DEF RowsInv, Delete
  <2>2. queue' \in AllQueues /\ queue'.sel = None
    BY <1>3 DEF TypeOK, States, Working
  <2>3. cand' \in [Candidates -> Flags] /\ \A q \in Live \ gone : cand'[rows[q].cand] \in {"free", "selected"}
    BY <1>3, BlockedFacts
  <2>4. RowsType'
    BY <2>1, <2>2, <2>3 DEF RowsType
  <2>5. RowsInv'
    BY <1>1, <1>3, <2>2, <2>3, DeleteKeeps, RowsTypeOK
  <2> QED
    BY <2>1, <2>4, <2>5
<1>4. NextCandidates \ {c} \in SUBSET NextCandidates
  OBVIOUS
<1>5. ASSUME NEW n \in NextCandidates, NEW caught \in SUBSET ((NextCandidates \ {c}) \ {n})
      PROVE  n \in Candidates /\ Eligible(n) /\ caught \in SUBSET NextCandidates
  BY DEF NextCandidates
<1> QED
  BY <1>2, <1>3, <1>4, <1>5 DEF PromoteNext

-----------------------------------------------------------------------------
(* The steps of the search. *)

LEMMA SearchStartKeeps == TypeOK /\ RowsInv /\ SearchStart => TypeOK' /\ RowsInv'
<1> SUFFICES ASSUME TypeOK, RowsInv, SearchStart PROVE TypeOK' /\ RowsInv'
  OBVIOUS
<1>1. search' \in AllSearches
  <2>1. queue.sel # None => rows[queue.sel].cand \in Candidates
    BY LiveFacts DEF RowsInv, SelectionExists
  <2>2. PICK upgrade \in {available /\ queue.sel # None, available /\ queue.state = "available" /\ ~ queue.held} :
        \E pc \in {"asking", "failing"} :
          search' = [pc |-> pc, upgrade |-> upgrade,
                     base |-> IF upgrade /\ queue.sel # None THEN rows[queue.sel].cand ELSE None]
    BY DEF SearchStart
  <2>3. upgrade \in BOOLEAN
    BY <2>2
  <2>4. (IF upgrade /\ queue.sel # None THEN rows[queue.sel].cand ELSE None) \in Candidates \cup {None}
    BY <2>1
  <2> QED
    BY <2>2, <2>3, <2>4
<1>2. TypeOK'
  BY <1>1 DEF TypeOK, SearchStart
<1>3. RowsInv'
  BY RowsTypeOK, SameRowsKeep DEF SearchStart, RowsType, TypeOK, RowsInv, RejectedIsNotSelected
<1> QED
  BY <1>2, <1>3

LEMMA ReplaceKeeps ==
  ASSUME TypeOK, RowsInv, NEW found \in SUBSET Candidates, NEW bad \in SUBSET found,
         ReplaceSearchCandidates(found, bad)
  PROVE  TypeOK' /\ RowsInv'
<1> DEFINE existing == search.upgrade /\ queue.sel # None
           kept == IF existing THEN {rows[queue.sel].cand} ELSE {}
           gone == {r \in Live : rows[r].cand \notin kept}
           rejected == bad \cup {c \in found : search.upgrade /\ search.base # None /\ c <= search.base}
           usable == {c \in found \ (kept \cup rejected) : \A k \in kept : c > k}
           Flag(c, picked) ==
             IF c \in kept THEN (IF picked = {} THEN cand[c] ELSE "free")
             ELSE IF c \in picked THEN "selected"
             ELSE IF c \in found \cap rejected THEN "rejected"
             ELSE IF c \in found THEN "free" ELSE "absent"
<1>1. /\ \/ \E c \in usable :
                /\ Insert(c, gone)
                /\ StageOrSelect(existing, New)
                /\ Submit(New)
                /\ cand' = [k \in Candidates |-> Flag(k, {c})]
         \/ /\ usable = {}
            /\ Delete(gone)
            /\ queue' = IF existing THEN [queue EXCEPT !.state = "available"]
                        ELSE [queue EXCEPT !.state = "failed", !.sel = None]
            /\ cand' = [k \in Candidates |-> Flag(k, {})]
            /\ UNCHANGED <<available, jobs>>
      /\ failed' = failed \cap (found \cup kept)
      /\ search' = IF found = {} THEN search ELSE NoSearch
      /\ UNCHANGED worker
  BY DEF ReplaceSearchCandidates
<1>2. existing => queue.sel \in Live
  BY DEF RowsInv, SelectionExists
<1>3. existing => Live \ gone = {queue.sel}
  BY <1>2 DEF RowsInv, NoCandidateTwice
<1>4. ~ existing => Live \ gone = {}
  OBVIOUS
<1>5. \A r \in Live \ gone : rows[r].cand \in kept /\ rows[r].cand \in Candidates
                              /\ cand[rows[r].cand] \in {"free", "selected"}
  BY LiveFacts DEF RowsInv, RejectedIsNotSelected
<1>6. failed' \subseteq Candidates /\ worker' \in AllWorkers
  BY <1>1 DEF TypeOK
<1>7. search' \in AllSearches
  BY <1>1 DEF TypeOK, NoSearch
<1>8. \A k \in Candidates : \A picked : Flag(k, picked) \in Flags
  BY DEF TypeOK
<1>9. ASSUME NEW c \in usable, Insert(c, gone), StageOrSelect(existing, New), Submit(New),
             cand' = [k \in Candidates |-> Flag(k, {c})]
      PROVE  TypeOK' /\ RowsInv'
  <2>1. c \in Candidates /\ c \notin kept
    OBVIOUS
  <2>2. /\ New \in Releases
        /\ rows' \in AllRows
        /\ issued' \in 0 .. MaxReleases
    BY <1>9, <2>1, InsertFacts, RowsTypeOK DEF RowsInv
  <2>3. /\ queue' \in AllQueues
        /\ available' \in BOOLEAN
        /\ queue'.sel = IF existing THEN queue.sel ELSE New
    <3>1. CASE existing
      <4>1. UNCHANGED <<queue, available>>
        BY <1>9, <3>1 DEF StageOrSelect
      <4> QED
        BY <3>1, <4>1 DEF TypeOK
    <3>2. CASE ~ existing
      <4>1. queue' = [queue EXCEPT !.state = "selected", !.sel = New] /\ available' = FALSE
        BY <1>9, <3>2 DEF StageOrSelect
      <4> QED
        BY <3>2, <4>1, <2>2 DEF TypeOK, States, Working
    <3> QED
      BY <3>1, <3>2
  <2>4. cand' \in [Candidates -> Flags]
    BY <1>8, <1>9
  <2>5. jobs' \subseteq Releases
    BY <1>9, <2>2 DEF Submit, TypeOK
  <2>6. TypeOK'
    BY <1>6, <1>7, <2>2, <2>3, <2>4, <2>5 DEF TypeOK
  <2>7. cand'[c] = "selected" /\ \A r \in Live \ gone : cand'[rows[r].cand] = "free" /\ rows[r].cand # c
    BY <1>5, <1>9, <2>1
  <2>8. \/ queue'.sel = New /\ \A q, r \in Live \ gone : q = r
        \/ queue'.sel \in Live \ gone /\ \A q \in Live \ gone : q = queue'.sel
    BY <1>3, <1>4, <2>3
  <2>9. RowsInv'
    <3> HIDE DEF gone
    <3> QED
      BY <1>9, <2>1, <2>7, <2>8, InsertKeeps, RowsTypeOK
  <2> QED
    BY <2>6, <2>9
<1>10. ASSUME Delete(gone), cand' = [k \in Candidates |-> Flag(k, {})], UNCHANGED <<available, jobs>>,
              queue' = IF existing THEN [queue EXCEPT !.state = "available"]
                       ELSE [queue EXCEPT !.state = "failed", !.sel = None]
       PROVE  TypeOK' /\ RowsInv'
  <2>1. /\ rows' \in AllRows
        /\ issued' \in 0 .. MaxReleases
    BY <1>10, DeleteFacts, RowsTypeOK DEF RowsInv
  <2>2. /\ queue' \in AllQueues
        /\ queue'.sel = IF existing THEN queue.sel ELSE None
    BY <1>10 DEF TypeOK, States, Working
  <2>3. cand' \in [Candidates -> Flags]
    BY <1>8, <1>10
  <2>4. TypeOK'
    BY <1>6, <1>7, <1>10, <2>1, <2>2, <2>3 DEF TypeOK
  <2>5. \A r \in Live \ gone : cand'[rows[r].cand] \in {"free", "selected"}
    BY <1>5, <1>10
  <2>6. /\ queue'.sel # None => queue'.sel \in Live \ gone
        /\ \A q, r \in (Live \ gone) \ {queue'.sel} : q = r
    BY <1>3, <1>4, <2>2
  <2>7. RowsInv'
    <3> HIDE DEF gone
    <3> QED
      BY <1>10, <2>5, <2>6, DeleteKeeps, RowsTypeOK
  <2> QED
    BY <2>4, <2>7
<1> QED
  BY <1>1, <1>9, <1>10

LEMMA PromoteExistingKeeps == TypeOK /\ RowsInv /\ PromoteExistingCandidate => TypeOK' /\ RowsInv'
<1> SUFFICES ASSUME TypeOK, RowsInv, PromoteExistingCandidate PROVE TypeOK' /\ RowsInv'
  OBVIOUS
<1>1. ASSUME NEW c \in NextCandidates, NEW caught \in SUBSET (NextCandidates \ {c}), Insert(c, Live),
             cand' = [Blocked(cand, caught) EXCEPT ![c] = "selected"],
             queue' = [queue EXCEPT !.state = "selected", !.sel = New], Submit(New), search' = NoSearch
      PROVE  TypeOK' /\ RowsInv'
  <2>0. cand \in [Candidates -> Flags] /\ c \in Candidates /\ caught \in SUBSET NextCandidates
    BY DEF TypeOK, NextCandidates
  <2>1. cand' \in [Candidates -> Flags] /\ cand'[c] = "selected"
    BY <1>1, <2>0, BlockedFacts
  <2>2. RowsType' /\ RowsInv' /\ New \in Releases
    BY <1>1, <2>0, <2>1, OnlySelection
  <2>3. TypeOK'
    BY <1>1, <2>2 DEF TypeOK, RowsType, PromoteExistingCandidate, Submit, NoSearch
  <2> QED
    BY <2>2, <2>3
<1>2. ASSUME NEW failing \in BOOLEAN, UNCHANGED <<queue, rows, issued, jobs>>, cand' = Blocked(cand, NextCandidates),
             search' = IF failing THEN [search EXCEPT !.pc = "failing"] ELSE NoSearch
      PROVE  TypeOK' /\ RowsInv'
  <2>1. search' \in AllSearches
    BY <1>2 DEF TypeOK, NoSearch
  <2>2. cand' \in [Candidates -> Flags] /\ \A q \in Live : cand'[rows[q].cand] = cand[rows[q].cand]
    BY <1>2, NoneCaught
  <2>3. TypeOK'
    BY <1>2, <2>1, <2>2 DEF TypeOK, PromoteExistingCandidate
  <2>4. RowsInv'
    BY <1>2, <2>2, RowsTypeOK, SameRowsKeep DEF RowsType, RowsInv, RejectedIsNotSelected
  <2> QED
    BY <2>3, <2>4
<1> QED
  BY <1>1, <1>2 DEF PromoteExistingCandidate

LEMMA MarkSearchFailedKeeps == TypeOK /\ RowsInv /\ MarkLibrarySearchFailed => TypeOK' /\ RowsInv'
<1> SUFFICES ASSUME TypeOK, RowsInv, MarkLibrarySearchFailed PROVE TypeOK' /\ RowsInv'
  OBVIOUS
<1>1. Delete(Live) /\ queue' = [queue EXCEPT !.state = "failed", !.sel = None]
  BY DEF MarkLibrarySearchFailed
<1>2. /\ rows' \in AllRows
      /\ issued' \in 0 .. MaxReleases
  BY <1>1, DeleteFacts, RowsTypeOK DEF RowsInv
<1>3. queue' \in AllQueues /\ queue'.sel = None
  BY <1>1 DEF TypeOK, States, Working
<1>4. TypeOK'
  BY <1>2, <1>3 DEF TypeOK, MarkLibrarySearchFailed, NoSearch
<1>5. RowsInv'
  BY <1>1, <1>3, DeleteKeeps, RowsTypeOK
<1> QED
  BY <1>4, <1>5

-----------------------------------------------------------------------------
(* The steps of the user. *)

LEMMA ActivateKeeps ==
  ASSUME TypeOK, RowsInv, NEW c \in Candidates, NEW flags \in [Candidates -> Flags], Activate(c, flags),
         UNCHANGED <<available, failed, worker, search>>
  PROVE  TypeOK' /\ RowsInv'
<1>1. /\ Insert(c, Live) /\ cand' = [Deselected(flags) EXCEPT ![c] = "selected"]
      /\ queue' = [queue EXCEPT !.state = "selected", !.sel = New] /\ jobs' = jobs \cup {New}
  BY DEF Activate, Submit
<1>2. cand' \in [Candidates -> Flags] /\ cand'[c] = "selected"
  BY <1>1 DEF Deselected
<1>3. RowsType' /\ RowsInv' /\ New \in Releases
  BY <1>1, <1>2, OnlySelection
<1>4. TypeOK'
  BY <1>1, <1>3 DEF TypeOK, RowsType
<1> QED
  BY <1>3, <1>4

LEMMA RejectKeeps ==
  ASSUME TypeOK, RowsInv, NEW c \in Candidates, RejectReleaseCandidate(c)
  PROVE  TypeOK' /\ RowsInv'
<1> DEFINE gone == {r \in Live : rows[r].cand = c}
           flags == [cand EXCEPT ![c] = "rejected"]
<1>1. flags \in [Candidates -> Flags]
  BY DEF TypeOK
<1>2. \A q \in Live \ gone : flags[rows[q].cand] \in {"free", "selected"}
  BY LiveFacts DEF RowsInv, RejectedIsNotSelected, TypeOK
<1>3. CASE gone = {}
  <2>1. cand' = flags /\ UNCHANGED <<queue, rows, issued, jobs, available, failed, worker, search>>
    BY <1>3 DEF RejectReleaseCandidate
  <2>2. TypeOK'
    BY <1>1, <2>1 DEF TypeOK
  <2>3. RowsInv'
    <3>1. \A q \in Live : cand'[rows[q].cand] \in {"free", "selected"}
      BY <1>2, <1>3, <2>1
    <3> QED
      BY <2>1, <3>1, RowsTypeOK, SameRowsKeep DEF RowsType
  <2> QED
    BY <2>2, <2>3
<1>4. CASE gone # {}
  <2>1. PICK r \in Live : r \in gone
    BY <1>4
  <2>2. /\ PromoteNext(c, gone, flags)
        /\ IF issued' # issued THEN Submit(New) ELSE jobs' = jobs
        /\ UNCHANGED <<available, failed, worker, search>>
    BY <1>4 DEF RejectReleaseCandidate
  <2>3. RowsType' /\ RowsInv' /\ (issued' # issued => New \in Releases)
    <3> HIDE DEF gone, flags
    <3> QED
      BY <1>1, <1>2, <2>1, <2>2, PromoteNextKeeps
  <2>4. jobs' \subseteq Releases
    BY <2>2, <2>3 DEF Submit, TypeOK
  <2>5. TypeOK'
    BY <2>2, <2>3, <2>4 DEF TypeOK, RowsType
  <2> QED
    BY <2>3, <2>5
<1> QED
  BY <1>3, <1>4

LEMMA RestoreKeeps ==
  ASSUME TypeOK, RowsInv, NEW c \in Candidates, RestoreReleaseCandidate(c)
  PROVE  TypeOK' /\ RowsInv'
<1>1. cand' = [cand EXCEPT ![c] = "free"] /\ UNCHANGED <<queue, available, failed, rows, issued, jobs, worker, search>>
  BY DEF RestoreReleaseCandidate
<1>2. TypeOK'
  BY <1>1 DEF TypeOK
<1>3. \A q \in Live : cand'[rows[q].cand] \in {"free", "selected"}
  BY <1>1, LiveFacts DEF RowsInv, RejectedIsNotSelected, TypeOK
<1>4. RowsInv'
  BY <1>1, <1>3, RowsTypeOK, SameRowsKeep DEF RowsType
<1> QED
  BY <1>2, <1>4

\* Pausing and removing: the selected row goes, a stray one may stay.
LEMMA DropSelectionKeeps ==
  ASSUME TypeOK, RowsInv, Delete({queue.sel}), UNCHANGED cand, queue'.sel = None
  PROVE  /\ rows' \in AllRows
         /\ issued' \in 0 .. MaxReleases
         /\ RowsInv'
<1>1. /\ rows' \in AllRows
      /\ issued' \in 0 .. MaxReleases
  BY DeleteFacts, RowsTypeOK DEF RowsInv
<1>2. \A q, r \in Live \ {queue.sel} : q = r
  BY DEF RowsInv, OneStagedRelease
<1>3. \A r \in Live \ {queue.sel} : cand'[rows[r].cand] \in {"free", "selected"}
  BY DEF RowsInv, RejectedIsNotSelected
<1>4. RowsInv'
  BY <1>2, <1>3, DeleteKeeps, RowsTypeOK
<1> QED
  BY <1>1, <1>4

LEMMA PauseKeeps == TypeOK /\ RowsInv /\ PauseQueueItem => TypeOK' /\ RowsInv'
<1> SUFFICES ASSUME TypeOK, RowsInv, PauseQueueItem PROVE TypeOK' /\ RowsInv'
  OBVIOUS
<1>1. /\ queue' \in AllQueues /\ queue'.sel = None
  BY DEF PauseQueueItem, States
<1>2. RowsInv' /\ rows' \in AllRows
      /\ issued' \in 0 .. MaxReleases
  BY <1>1, DropSelectionKeeps DEF PauseQueueItem
<1>3. TypeOK'
  BY <1>1, <1>2 DEF PauseQueueItem, TypeOK
<1> QED
  BY <1>2, <1>3

LEMMA ClearKeeps == TypeOK /\ RowsInv /\ ClearQueueSelectedRelease => TypeOK' /\ RowsInv'
<1> SUFFICES ASSUME TypeOK, RowsInv, ClearQueueSelectedRelease PROVE TypeOK' /\ RowsInv'
  OBVIOUS
<1>1. queue' = IF queue.sel # None THEN [queue EXCEPT !.sel = None] ELSE [queue EXCEPT !.state = "requested"]
  BY DEF ClearQueueSelectedRelease
<1>2. /\ queue' \in AllQueues /\ queue'.sel = None
  BY <1>1 DEF States, TypeOK
<1>3. RowsInv' /\ rows' \in AllRows
      /\ issued' \in 0 .. MaxReleases
  BY <1>2, DropSelectionKeeps DEF ClearQueueSelectedRelease
<1>4. TypeOK'
  BY <1>2, <1>3 DEF ClearQueueSelectedRelease, TypeOK
<1> QED
  BY <1>3, <1>4

LEMMA ResetKeeps == TypeOK /\ RowsInv /\ ResetLibraryItem => TypeOK' /\ RowsInv'
<1> SUFFICES ASSUME TypeOK, RowsInv, ResetLibraryItem PROVE TypeOK' /\ RowsInv'
  OBVIOUS
<1>1. /\ rows' = [r \in Releases |-> IF r = queue.sel THEN NoRow ELSE [rows[r] EXCEPT !.published = FALSE]]
      /\ cand' = Deselected(cand)
      /\ queue' = [queue EXCEPT !.state = "requested", !.sel = None]
      /\ UNCHANGED <<failed, issued, jobs, worker, search>>
  BY DEF ResetLibraryItem
<1>2. queue' \in AllQueues /\ queue'.sel = None
  BY <1>1 DEF States, TypeOK
<1>3. cand' \in [Candidates -> Flags]
  BY <1>1 DEF Deselected, TypeOK
<1>4. NoRow \in Row /\ NoRow.cand = None
  BY DEF NoRow
<1>5. \A r \in Releases : /\ rows'[r] \in Row
                          /\ rows'[r].cand = IF r = queue.sel THEN None ELSE rows[r].cand
  BY <1>1, <1>4 DEF TypeOK
<1>6. rows' \in AllRows
  BY <1>1, <1>5
<1>7. TypeOK'
  BY <1>1, <1>2, <1>3, <1>6 DEF TypeOK, ResetLibraryItem
<1>8. Live' = Live \ {queue.sel}
  BY <1>5 DEF Live
<1>9. SelectionExists'
  BY <1>2 DEF SelectionExists
<1>10. Fresh'
  <2> SUFFICES ASSUME NEW r \in Releases, r > issued PROVE rows'[r] = NoRow
    BY <1>1 DEF Fresh
  <2>1. rows[r] = NoRow
    BY DEF RowsInv, Fresh
  <2>2. rows[r].published = FALSE
    BY <2>1 DEF NoRow
  <2>3. [rows[r] EXCEPT !.published = FALSE] = rows[r]
    BY <2>2 DEF TypeOK
  <2> QED
    BY <1>1, <2>1, <2>3
<1>11. NoCandidateTwice' /\ OneStagedRelease'
  BY <1>5, <1>8 DEF NoCandidateTwice, OneStagedRelease, RowsInv, Live
<1>12. RejectedIsNotSelected'
  <2> SUFFICES ASSUME NEW r \in Live \ {queue.sel} PROVE cand'[rows'[r].cand] \in {"free", "selected"}
    BY <1>8 DEF RejectedIsNotSelected
  <2>1. rows'[r].cand = rows[r].cand /\ rows[r].cand \in Candidates /\ cand[rows[r].cand] \in {"free", "selected"}
    BY <1>5, LiveFacts DEF RowsInv, RejectedIsNotSelected
  <2> QED
    BY <1>1, <2>1 DEF Deselected
<1> QED
  BY <1>7, <1>9, <1>10, <1>11, <1>12 DEF RowsInv

LEMMA RetryKeeps == TypeOK /\ RowsInv /\ RetryQueueItem => TypeOK' /\ RowsInv'
<1> SUFFICES ASSUME TypeOK, RowsInv, RetryQueueItem PROVE TypeOK' /\ RowsInv'
  OBVIOUS
<1>1. CASE queue.sel # None /\ Submit(queue.sel) /\ UNCHANGED <<queue, cand, rows, issued>>
  <2>1. queue.sel \in Releases
    BY <1>1 DEF TypeOK
  <2>2. TypeOK'
    BY <1>1, <2>1 DEF TypeOK, RetryQueueItem, Submit
  <2>3. RowsInv'
    BY <1>1, RowsTypeOK, SameRowsKeep DEF RowsType, RowsInv, RejectedIsNotSelected
  <2> QED
    BY <2>2, <2>3
<1>2. ASSUME NEW c \in NextCandidates, NEW caught \in SUBSET (NextCandidates \ {c}), Activate(c, Blocked(cand, caught))
      PROVE  TypeOK' /\ RowsInv'
  <2>1. cand \in [Candidates -> Flags] /\ c \in Candidates /\ caught \in SUBSET NextCandidates
    BY DEF TypeOK, NextCandidates
  <2>2. Blocked(cand, caught) \in [Candidates -> Flags]
    BY <2>1, BlockedFacts
  <2> QED
    BY <1>2, <2>1, <2>2, ActivateKeeps DEF RetryQueueItem
<1>3. CASE cand' = Blocked(cand, NextCandidates) /\ UNCHANGED <<queue, rows, issued, jobs>>
  <2>1. cand' \in [Candidates -> Flags] /\ \A q \in Live : cand'[rows[q].cand] = cand[rows[q].cand]
    BY <1>3, NoneCaught
  <2>2. TypeOK'
    BY <1>3, <2>1 DEF TypeOK, RetryQueueItem
  <2>3. RowsInv'
    BY <1>3, <2>1, RowsTypeOK, SameRowsKeep DEF RowsType, RowsInv, RejectedIsNotSelected
  <2> QED
    BY <2>2, <2>3
<1> QED
  BY <1>1, <1>2, <1>3 DEF RetryQueueItem

LEMMA UserStepKeeps == TypeOK /\ RowsInv /\ UserStep => TypeOK' /\ RowsInv'
<1> SUFFICES ASSUME TypeOK, RowsInv, UserStep PROVE TypeOK' /\ RowsInv'
  OBVIOUS
<1>1. ASSUME NEW c \in Candidates, SelectReleaseCandidate(c) PROVE TypeOK' /\ RowsInv'
  <2>1. cand \in [Candidates -> Flags]
    BY DEF TypeOK
  <2> QED
    BY <1>1, <2>1, ActivateKeeps DEF SelectReleaseCandidate
<1>2. CASE ResumeQueueItem
  <2>1. queue' \in AllQueues /\ queue'.sel = queue.sel
    BY <1>2 DEF ResumeQueueItem, TypeOK
  <2>2. TypeOK'
    BY <1>2, <2>1 DEF ResumeQueueItem, TypeOK
  <2>3. RowsInv'
    BY <1>2, <2>1, RowsTypeOK, SameRowsKeep DEF ResumeQueueItem, RowsType, RowsInv, RejectedIsNotSelected
  <2> QED
    BY <2>2, <2>3
<1> QED
  BY <1>1, <1>2, RejectKeeps, RestoreKeeps, PauseKeeps, ClearKeeps, ResetKeeps, RetryKeeps DEF UserStep

-----------------------------------------------------------------------------
(* Failure and publication. *)

LEMMA FailKeeps ==
  ASSUME TypeOK, RowsInv, NEW r \in Live, NEW hard \in BOOLEAN, FailSelectedReleaseAndPromoteNext(r, hard)
  PROVE  /\ RowsType' /\ RowsInv' /\ failed' \subseteq Candidates /\ available' \in BOOLEAN
         /\ issued' # issued => New \in Releases
<1> DEFINE c == rows[r].cand
           flags == [cand EXCEPT ![c] = IF hard THEN "rejected" ELSE "free"]
<1>1. c \in Candidates
  BY LiveFacts
<1>2. flags \in [Candidates -> Flags]
  BY DEF TypeOK
<1>3. \A q \in Live \ {r} : flags[rows[q].cand] \in {"free", "selected"}
  <2> TAKE q \in Live \ {r}
  <2>1. rows[q].cand # c /\ rows[q].cand \in Candidates /\ cand[rows[q].cand] \in {"free", "selected"}
    BY LiveFacts DEF RowsInv, NoCandidateTwice, RejectedIsNotSelected
  <2> QED
    BY <2>1 DEF TypeOK
<1>4. failed' \subseteq Candidates
  BY <1>1 DEF FailSelectedReleaseAndPromoteNext, TypeOK
<1>5. CASE queue.sel = r
  <2>1. PromoteNext(c, {r}, flags) /\ available' = FALSE
    BY <1>5 DEF FailSelectedReleaseAndPromoteNext
  <2>2. RowsType' /\ RowsInv' /\ (issued' # issued => New \in Releases)
    <3> HIDE DEF c, flags
    <3> QED
      BY <1>1, <1>2, <1>3, <2>1, PromoteNextKeeps
  <2> QED
    BY <1>4, <2>1, <2>2
<1>6. CASE queue.sel # r
  <2>1. Delete({r}) /\ cand' = flags /\ UNCHANGED <<queue, available>>
    BY <1>6 DEF FailSelectedReleaseAndPromoteNext
  <2>2. /\ rows' \in AllRows
        /\ issued' \in 0 .. MaxReleases /\ issued' = issued
    BY <2>1, DeleteFacts, RowsTypeOK DEF RowsInv, Delete
  <2>3. RowsType'
    BY <1>2, <2>1, <2>2 DEF RowsType, TypeOK
  <2>4. queue'.sel # None => queue'.sel \in Live \ {r}
    BY <1>6, <2>1 DEF RowsInv, SelectionExists
  <2>5. \A p, q \in (Live \ {r}) \ {queue'.sel} : p = q
    BY OneLeft
  <2>6. RowsInv'
    BY <1>3, <2>1, <2>4, <2>5, DeleteKeeps, RowsTypeOK
  <2> QED
    BY <1>4, <2>1, <2>2, <2>3, <2>6 DEF TypeOK
<1> QED
  BY <1>5, <1>6

LEMMA PublishedAlone ==
  ASSUME TypeOK, RowsInv, NEW r \in Live, MarkReleaseAvailable(r), UNCHANGED cand
  PROVE  RowsType' /\ RowsInv' /\ available' \in BOOLEAN
<1>1. NoRow \in Row /\ NoRow.cand = None
  BY DEF NoRow
<1>2. r \in Releases /\ rows[r].cand \in Candidates
  BY LiveFacts
<1>3. \A q \in Releases : /\ rows'[q] \in Row
                          /\ rows'[q].cand = (IF q = r THEN rows[r].cand ELSE None)
                          /\ q # r => rows'[q] = NoRow
  BY <1>1, <1>2 DEF MarkReleaseAvailable, TypeOK
<1>4. rows' \in AllRows
  BY <1>3 DEF MarkReleaseAvailable
<1>5. queue' \in AllQueues /\ queue'.sel = r
  BY <1>2 DEF MarkReleaseAvailable, TypeOK, States
<1>6. RowsType' /\ available' \in BOOLEAN
  BY <1>4, <1>5 DEF RowsType, MarkReleaseAvailable, TypeOK
<1>7. rows[r].cand # None
  BY DEF Live
<1>8. Live' = {r}
  BY <1>2, <1>3, <1>7 DEF Live
<1>9. SelectionExists' /\ NoCandidateTwice' /\ OneStagedRelease'
  BY <1>5, <1>8 DEF SelectionExists, NoCandidateTwice, OneStagedRelease
<1>10. RejectedIsNotSelected'
  BY <1>2, <1>3, <1>8 DEF RejectedIsNotSelected, RowsInv
<1>11. Fresh'
  <2> SUFFICES ASSUME NEW q \in Releases, q > issued PROVE rows'[q] = NoRow
    BY DEF Fresh, MarkReleaseAvailable
  <2>1. rows[q] = NoRow
    BY DEF RowsInv, Fresh
  <2>2. q # r
    BY <1>1, <1>7, <2>1
  <2> QED
    BY <1>3, <2>2
<1> QED
  BY <1>6, <1>9, <1>10, <1>11 DEF RowsInv

LEMMA FailReleaseKeeps ==
  ASSUME TypeOK, RowsInv, NEW r \in Releases, FailRelease(r)
  PROVE  TypeOK' /\ RowsInv'
<1>1. PICK hard \in BOOLEAN : r \in Live /\ FailSelectedReleaseAndPromoteNext(r, hard)
  BY DEF FailRelease
<1>2. RowsType' /\ RowsInv' /\ failed' \subseteq Candidates /\ available' \in BOOLEAN /\ (issued' # issued => New \in Releases)
  BY <1>1, FailKeeps
<1>3. jobs' \subseteq Releases /\ UNCHANGED <<worker, search>>
  BY <1>2 DEF FailRelease, Submit, TypeOK
<1> QED
  BY <1>2, <1>3 DEF TypeOK, RowsType

LEMMA RepublishKeeps == TypeOK /\ RowsInv /\ (RepublishLibraryItem \/ RebuildPublications) => TypeOK' /\ RowsInv'
<1> SUFFICES ASSUME TypeOK, RowsInv, RepublishLibraryItem \/ RebuildPublications PROVE TypeOK' /\ RowsInv'
  OBVIOUS
<1>1. UNCHANGED <<cand, failed, jobs, worker, search>>
  BY DEF RepublishLibraryItem, RebuildPublications
<1>2. PICK r \in Live : MarkReleaseAvailable(r)
  BY DEF RepublishLibraryItem, RebuildPublications, RowsInv, SelectionExists
<1>3. RowsType' /\ RowsInv' /\ available' \in BOOLEAN
  BY <1>1, <1>2, PublishedAlone
<1> QED
  BY <1>1, <1>3 DEF TypeOK, RowsType

-----------------------------------------------------------------------------
(* The steps of a worker. *)

\* A step that moves a worker and the state of the queue, but no row.
LEMMA MoveKeeps ==
  ASSUME TypeOK, RowsInv, UNCHANGED <<available, cand, failed, rows, issued, search>>, jobs' \subseteq Releases,
         queue' \in AllQueues, queue'.sel = queue.sel,
         worker' \in AllWorkers
  PROVE  TypeOK' /\ RowsInv'
<1>1. TypeOK'
  BY DEF TypeOK
<1>2. RowsInv'
  BY RowsTypeOK, SameRowsKeep DEF RowsType, RowsInv, RejectedIsNotSelected
<1> QED
  BY <1>1, <1>2

LEMMA WorkerTypes ==
  ASSUME TypeOK, NEW w \in Workers
  PROVE  /\ worker[w].rel \in Releases \cup {None}
         /\ \A pc \in WorkerPC : [worker EXCEPT ![w].pc = pc] \in AllWorkers
         /\ \A pc \in WorkerPC, staged \in BOOLEAN :
              [worker EXCEPT ![w].pc = pc, ![w].staged = staged] \in AllWorkers
         /\ \A r \in Releases, pc \in WorkerPC :
              [worker EXCEPT ![w] = [pc |-> pc, rel |-> r, staged |-> FALSE]] \in AllWorkers
         /\ [worker EXCEPT ![w] = Idle] \in AllWorkers
<1>1. worker[w].rel \in Releases \cup {None} /\ worker \in AllWorkers
  BY DEF TypeOK
<1>2. Idle \in [pc : WorkerPC, rel : Releases \cup {None}, staged : BOOLEAN]
  BY DEF Idle, WorkerPC
<1>3. \A x \in [pc : WorkerPC, rel : Releases \cup {None}, staged : BOOLEAN] : [worker EXCEPT ![w] = x] \in AllWorkers
  BY <1>1
<1>4. \A pc \in WorkerPC : [worker EXCEPT ![w].pc = pc] \in AllWorkers
  BY <1>1
<1>5. \A pc \in WorkerPC, staged \in BOOLEAN : [worker EXCEPT ![w].pc = pc, ![w].staged = staged] \in AllWorkers
  BY <1>1
<1>6. \A r \in Releases, pc \in WorkerPC :
        [pc |-> pc, rel |-> r, staged |-> FALSE] \in [pc : WorkerPC, rel : Releases \cup {None}, staged : BOOLEAN]
  OBVIOUS
<1> QED
  BY <1>1, <1>2, <1>3, <1>4, <1>5, <1>6

LEMMA DoneTypes ==
  ASSUME TypeOK, NEW w \in Workers, Done(w)
  PROVE  jobs' \subseteq Releases /\ worker' \in AllWorkers
BY WorkerTypes DEF Done, TypeOK

LEMMA GotoTypes ==
  ASSUME TypeOK, NEW w \in Workers, NEW pc \in WorkerPC, Goto(w, pc)
  PROVE  worker' \in AllWorkers
BY WorkerTypes DEF Goto

LEMMA FetchingTypes ==
  ASSUME TypeOK, NEW r, MarkSelectedReleaseFetching(r)
  PROVE  queue' \in AllQueues /\ queue'.sel = queue.sel
BY DEF MarkSelectedReleaseFetching, TypeOK, States, Working

LEMMA TakeKeeps ==
  ASSUME TypeOK, RowsInv, NEW w \in Workers, NEW r \in Releases, Take(w, r)
  PROVE  TypeOK' /\ RowsInv'
<1>1. UNCHANGED <<queue, available, cand, failed, rows, issued, search>> /\ jobs' \subseteq Releases
  BY DEF Take, TypeOK
<1>2. worker' \in AllWorkers
  <2>1. CASE Exists(r)
    <3> DEFINE pc == IF rows[r].cand \in failed THEN "fail" ELSE IF rows[r].doc # "none" THEN "reuse" ELSE "claim"
    <3>1. worker' = [worker EXCEPT ![w] = [pc |-> pc, rel |-> r, staged |-> FALSE]]
      BY <2>1 DEF Take
    <3>2. pc \in WorkerPC
      BY DEF WorkerPC
    <3> HIDE DEF pc
    <3> QED
      BY <3>1, <3>2, WorkerTypes
  <2>2. CASE ~ Exists(r)
    BY <2>2 DEF Take, TypeOK
  <2> QED
    BY <2>1, <2>2
<1> QED
  BY <1>1, <1>2, MoveKeeps DEF TypeOK

LEMMA MovesKeep ==
  ASSUME TypeOK, RowsInv, NEW w \in Workers, Claim(w) \/ Reuse(w) \/ Index(w) \/ Check(w) \/ Mark(w)
  PROVE  TypeOK' /\ RowsInv'
<1>1. UNCHANGED <<available, cand, failed, rows, issued, search>>
  BY DEF Claim, Reuse, Index, Check, Mark
<1>2. "fetch" \in WorkerPC /\ "import" \in WorkerPC /\ "fail" \in WorkerPC /\ "check" \in WorkerPC
      /\ "publish" \in WorkerPC /\ "mark" \in WorkerPC
  BY DEF WorkerPC
<1>3. CASE Claim(w)
  <2>1. /\ queue' \in AllQueues /\ queue'.sel = queue.sel
        /\ jobs' \subseteq Releases
        /\ worker' \in AllWorkers
    <3>1. CASE Done(w) /\ queue' = queue
      BY <3>1, DoneTypes DEF TypeOK
    <3>2. CASE Goto(w, "fetch") /\ MarkSelectedReleaseFetching(worker[w].rel) /\ jobs' = jobs
      BY <1>2, <3>2, GotoTypes, FetchingTypes DEF TypeOK
    <3> QED
      BY <1>3, <3>1, <3>2 DEF Claim
  <2> QED
    BY <1>1, <2>1, MoveKeeps
<1>4. CASE Reuse(w)
  <2>1. /\ MarkSelectedReleaseFetching(worker[w].rel) /\ jobs' = jobs
        /\ worker' \in AllWorkers
    BY <1>2, <1>4, GotoTypes DEF Reuse
  <2>2. queue' \in AllQueues /\ queue'.sel = queue.sel
    BY <2>1, FetchingTypes
  <2> QED
    BY <1>1, <2>1, <2>2, MoveKeeps DEF TypeOK
<1>5. CASE Index(w) \/ Mark(w)
  <2>1. jobs' = jobs /\ worker' \in AllWorkers
    BY <1>2, <1>5, GotoTypes DEF Index, Mark
  <2>2. queue' \in AllQueues /\ queue'.sel = queue.sel
    BY <1>5 DEF Index, Mark, TypeOK, States, Working
  <2> QED
    BY <1>1, <2>1, <2>2, MoveKeeps DEF TypeOK
<1>6. CASE Check(w)
  <2>1. queue' = queue
    BY <1>6 DEF Check
  <2>2. jobs' \subseteq Releases /\ worker' \in AllWorkers
    <3>1. CASE Done(w)
      BY <3>1, DoneTypes
    <3>2. ASSUME NEW pc \in {"fail", "publish", "mark"}, worker' = [worker EXCEPT ![w].pc = pc, ![w].staged = FALSE], jobs' = jobs
          PROVE  jobs' \subseteq Releases /\ worker' \in AllWorkers
      <4>1. pc \in WorkerPC
        BY <1>2
      <4> QED
        BY <3>2, <4>1, WorkerTypes DEF TypeOK
    <3> QED
      BY <1>6, <3>1, <3>2 DEF Check
  <2> QED
    BY <1>1, <2>1, <2>2, MoveKeeps DEF TypeOK
<1> QED
  BY <1>3, <1>4, <1>5, <1>6

LEMMA FetchKeeps ==
  ASSUME TypeOK, RowsInv, NEW w \in Workers, Fetch(w)
  PROVE  TypeOK' /\ RowsInv'
<1> DEFINE r == worker[w].rel
<1>1. UNCHANGED <<queue, available, cand, failed, issued, search>>
  BY DEF Fetch
<1>2. "import" \in WorkerPC /\ "fail" \in WorkerPC
  BY DEF WorkerPC
<1>3. /\ worker' \in AllWorkers /\ jobs' \subseteq Releases
      /\ \/ rows' = rows
         \/ Exists(r) /\ \E doc \in {"none", "stored"} :
              rows' = [rows EXCEPT ![r].doc = IF rows[r].doc = "none" THEN doc ELSE rows[r].doc]
  <2>1. CASE Goto(w, "fail") /\ UNCHANGED <<rows, jobs>>
    BY <1>2, <2>1, GotoTypes DEF TypeOK
  <2>2. CASE Done(w) /\ rows' = rows
    BY <2>2, DoneTypes
  <2>3. ASSUME Exists(r), jobs' = jobs, NEW doc \in {"none", "stored"}, NEW pc \in {"import", "fail"}, Goto(w, pc),
               rows' = [rows EXCEPT ![r].doc = IF rows[r].doc = "none" THEN doc ELSE rows[r].doc]
        PROVE  worker' \in AllWorkers /\ jobs' \subseteq Releases
    <3>1. worker' \in AllWorkers
      BY <1>2, <2>3, GotoTypes
    <3> QED
      BY <2>3, <3>1 DEF TypeOK
  <2> QED
    BY <2>1, <2>2, <2>3 DEF Fetch
<1>4. rows' \in AllRows /\ (\A q \in Releases : rows'[q].cand = rows[q].cand)
      /\ (\A q \in Releases : rows[q] = NoRow => rows'[q] = NoRow)
  <2>1. CASE rows' = rows
    BY <2>1 DEF TypeOK
  <2>2. ASSUME Exists(r), NEW doc \in {"none", "stored"},
               rows' = [rows EXCEPT ![r].doc = IF rows[r].doc = "none" THEN doc ELSE rows[r].doc]
        PROVE  <1>4!1 /\ <1>4!2
    <3>1. r \in Releases /\ rows[r].cand # None
      BY <2>2, LiveFacts DEF Live
    <3>2. (IF rows[r].doc = "none" THEN doc ELSE rows[r].doc) \in {"none", "stored", "full"}
      BY <3>1 DEF TypeOK
    <3>3. \A q \in Releases : q # r => rows'[q] = rows[q]
      BY <2>2 DEF TypeOK
    <3>4. rows[r] # NoRow
      BY <3>1 DEF NoRow
    <3>5. rows' \in AllRows /\ rows'[r].cand = rows[r].cand
      BY <2>2, <3>1, <3>2 DEF TypeOK
    <3> QED
      BY <3>3, <3>4, <3>5
  <2> QED
    BY <1>3, <2>1, <2>2
<1>5. TypeOK'
  BY <1>1, <1>3, <1>4 DEF TypeOK
<1>6. RowsInv'
  BY <1>1, <1>4, RowsTypeOK, SameRowsKeep DEF RowsInv, RejectedIsNotSelected
<1> QED
  BY <1>5, <1>6

LEMMA ImportKeeps ==
  ASSUME TypeOK, RowsInv, NEW w \in Workers, Import(w)
  PROVE  TypeOK' /\ RowsInv'
<1> DEFINE r == worker[w].rel
<1>1. UNCHANGED <<available, cand, failed, issued, search>>
  BY DEF Import
<1>2. "index" \in WorkerPC /\ "check" \in WorkerPC /\ "fail" \in WorkerPC
  BY DEF WorkerPC
<1>3. ASSUME Done(w) \/ (Goto(w, "fail") /\ jobs' = jobs), UNCHANGED <<queue, rows>>
      PROVE  TypeOK' /\ RowsInv'
  <2>1. worker' \in AllWorkers /\ jobs' \subseteq Releases
    BY <1>2, <1>3, DoneTypes, GotoTypes DEF TypeOK
  <2> QED
    BY <1>1, <1>3, <2>1, MoveKeeps DEF TypeOK
<1>4. ASSUME Exists(r), NEW doc \in {"stored", "full"}, jobs' = jobs,
             rows' = [rows EXCEPT ![r].doc = doc, ![r].published = FALSE],
             queue' = IF queue.sel = r THEN [queue EXCEPT !.state = "indexing"] ELSE queue,
             worker' = [worker EXCEPT ![w].pc = IF queue.sel = r THEN "index" ELSE "check",
                                      ![w].staged = queue.sel # r]
      PROVE  TypeOK' /\ RowsInv'
  <2>1. r \in Releases /\ rows[r].cand # None
    BY <1>4, LiveFacts DEF Live
  <2>2. \A q \in Releases : q # r => rows'[q] = rows[q]
    BY <1>4 DEF TypeOK
  <2>3. rows' \in AllRows /\ rows'[r].cand = rows[r].cand
    BY <1>4, <2>1 DEF TypeOK
  <2>4. rows[r] # NoRow
    BY <2>1 DEF NoRow
  <2>5. queue' \in AllQueues /\ queue'.sel = queue.sel
    BY <1>4 DEF TypeOK, States, Working
  <2>6. worker' \in AllWorkers
    <3> DEFINE pc == IF queue.sel = r THEN "index" ELSE "check"
    <3>1. pc \in WorkerPC /\ (queue.sel # r) \in BOOLEAN
      BY <1>2
    <3>2. worker' = [worker EXCEPT ![w].pc = pc, ![w].staged = queue.sel # r]
      BY <1>4
    <3> HIDE DEF pc
    <3> QED
      BY <3>1, <3>2, WorkerTypes
  <2>7. TypeOK'
    BY <1>1, <1>4, <2>3, <2>5, <2>6 DEF TypeOK
  <2>8. RowsInv'
    BY <1>1, <2>2, <2>3, <2>4, <2>5, RowsTypeOK, SameRowsKeep DEF RowsInv, RejectedIsNotSelected
  <2> QED
    BY <2>7, <2>8
<1> QED
  BY <1>3, <1>4 DEF Import

LEMMA PublishKeeps ==
  ASSUME TypeOK, RowsInv, NEW w \in Workers, Publish(w)
  PROVE  TypeOK' /\ RowsInv'
<1> DEFINE r == worker[w].rel
<1>1. UNCHANGED <<cand, failed, search>>
  BY DEF Publish
<1>2. CASE Goto(w, "fail") /\ UNCHANGED <<queue, available, rows, issued, jobs>>
  <2>1. worker' \in AllWorkers /\ jobs' \subseteq Releases
    BY <1>2, GotoTypes DEF TypeOK, WorkerPC
  <2> QED
    BY <1>1, <1>2, <2>1, MoveKeeps DEF TypeOK
<1>3. CASE Exists(r) /\ MarkReleaseAvailable(r) /\ Done(w)
  <2>1. worker' \in AllWorkers /\ jobs' \subseteq Releases
    BY <1>3, DoneTypes
  <2>2. RowsType' /\ RowsInv' /\ available' \in BOOLEAN
    BY <1>1, <1>3, LiveFacts, PublishedAlone
  <2> QED
    BY <1>1, <2>1, <2>2 DEF TypeOK, RowsType
<1> QED
  BY <1>2, <1>3 DEF Publish

LEMMA WorkerFailKeeps ==
  ASSUME TypeOK, RowsInv, NEW w \in Workers, Fail(w)
  PROVE  TypeOK' /\ RowsInv'
<1> DEFINE r == worker[w].rel
<1>1. search' = search /\ worker' \in AllWorkers
  BY WorkerTypes DEF Fail
<1>2. CASE ~ Exists(r) /\ jobs' = jobs \ {r} /\ UNCHANGED <<queue, available, cand, failed, rows, issued>>
  <2>1. jobs' \subseteq Releases
    BY <1>2 DEF TypeOK
  <2> QED
    BY <1>1, <1>2, <2>1, MoveKeeps DEF TypeOK
<1>3. ASSUME Exists(r), NEW hard \in BOOLEAN, FailSelectedReleaseAndPromoteNext(r, hard),
             jobs' = jobs \ {r} \/ (issued' # issued /\ jobs' = (jobs \ {r}) \cup {New})
      PROVE  TypeOK' /\ RowsInv'
  <2>1. RowsType' /\ RowsInv' /\ failed' \subseteq Candidates /\ available' \in BOOLEAN
        /\ (issued' # issued => New \in Releases)
    <3> HIDE DEF r
    <3> QED
      BY <1>3, LiveFacts, FailKeeps
  <2>2. jobs' \subseteq Releases
    BY <1>3, <2>1 DEF TypeOK
  <2> QED
    BY <1>1, <2>1, <2>2 DEF TypeOK, RowsType
<1> QED
  BY <1>2, <1>3 DEF Fail

-----------------------------------------------------------------------------
(* Housekeeping and restart, and the theorems about the rows. *)

LEMMA IdleTypes ==
  /\ [w \in Workers |-> Idle] \in AllWorkers
  /\ NoSearch \in AllSearches
<1>1. Idle \in [pc : WorkerPC, rel : Releases \cup {None}, staged : BOOLEAN]
  BY DEF Idle, WorkerPC
<1>2. NoSearch \in AllSearches
  BY DEF NoSearch
<1> QED
  BY <1>1, <1>2

LEMMA HousekeepingKeeps ==
  ASSUME TypeOK, RowsInv,
         ResetStaleQueueItems \/ RequeueSelectedRelease \/ DispatchAutomaticPending \/ Restart
  PROVE  TypeOK' /\ RowsInv'
<1>1. UNCHANGED <<available, cand, failed, rows, issued>>
  BY DEF ResetStaleQueueItems, RequeueSelectedRelease, DispatchAutomaticPending, Restart
<1>2. queue' \in AllQueues /\ queue'.sel = queue.sel
  BY DEF ResetStaleQueueItems, RequeueSelectedRelease, DispatchAutomaticPending, Restart, TypeOK, States
<1>3. jobs' \subseteq Releases
  BY DEF ResetStaleQueueItems, RequeueSelectedRelease, DispatchAutomaticPending, Restart, TypeOK, Submit
<1>4. worker' \in AllWorkers
  BY IdleTypes DEF ResetStaleQueueItems, RequeueSelectedRelease, DispatchAutomaticPending, Restart, TypeOK
<1>5. search' \in AllSearches
  BY IdleTypes DEF ResetStaleQueueItems, RequeueSelectedRelease, DispatchAutomaticPending, Restart, TypeOK
<1>6. TypeOK'
  BY <1>1, <1>2, <1>3, <1>4, <1>5 DEF TypeOK
<1>7. RowsInv'
  BY <1>1, <1>2, RowsTypeOK, SameRowsKeep DEF RowsType, RowsInv, RejectedIsNotSelected
<1> QED
  BY <1>6, <1>7

LEMMA StepKeeps == TypeOK /\ RowsInv /\ [Next]_vars => TypeOK' /\ RowsInv'
<1> SUFFICES ASSUME TypeOK, RowsInv, [Next]_vars PROVE TypeOK' /\ RowsInv'
  OBVIOUS
<1>1. CASE SearchStep
  BY <1>1, SearchStartKeeps, ReplaceKeeps, PromoteExistingKeeps, MarkSearchFailedKeeps DEF SearchStep
<1>2. CASE UserStep
  BY <1>2, UserStepKeeps
<1>3. ASSUME NEW w \in Workers, WorkerStep(w) PROVE TypeOK' /\ RowsInv'
  BY <1>3, TakeKeeps, MovesKeep, FetchKeeps, ImportKeeps, PublishKeeps, WorkerFailKeeps DEF WorkerStep
<1>4. CASE UNCHANGED vars
  BY <1>4, MoveKeeps DEF TypeOK, vars
<1> QED
  BY <1>1, <1>2, <1>3, <1>4, FailReleaseKeeps, RepublishKeeps, HousekeepingKeeps DEF Next

LEMMA InitKeeps == Init => TypeOK /\ RowsInv
<1> SUFFICES ASSUME Init PROVE TypeOK /\ RowsInv
  OBVIOUS
<1> USE LifecycleAssumption
<1>1. NoRow \in Row /\ NoRow.cand = None
  BY DEF NoRow
<1>2. TypeOK
  <2>1. queue \in AllQueues /\ available \in BOOLEAN /\ cand \in [Candidates -> Flags] /\ failed \subseteq Candidates
    BY DEF Init, States
  <2>2. rows \in AllRows /\ issued \in 0 .. MaxReleases /\ jobs \subseteq Releases
    BY <1>1 DEF Init
  <2>3. worker \in AllWorkers /\ search \in AllSearches
    BY IdleTypes DEF Init
  <2> QED
    BY <2>1, <2>2, <2>3 DEF TypeOK
<1>3. Live = {}
  BY <1>1 DEF Init, Live
<1>4. RowsInv
  BY <1>3 DEF RowsInv, SelectionExists, Fresh, NoCandidateTwice, RejectedIsNotSelected, OneStagedRelease, Init
<1> QED
  BY <1>2, <1>4

LEMMA RowsConsistent == Spec => [](TypeOK /\ RowsInv)
<1>1. TypeOK /\ RowsInv /\ [Next]_vars => TypeOK' /\ RowsInv'
  BY StepKeeps
<1> QED
  BY InitKeeps, <1>1, PTL DEF Spec

\* Every variable keeps the range its columns or its place in the code have.
THEOREM TypeCorrect == Spec => []TypeOK
BY RowsConsistent, PTL

\* However many searches, failures and decisions race, no item gathers selected
\* releases beside the active one and the staged one.
THEOREM AtMostOneStaged == Spec => []OneStagedRelease
<1>1. RowsInv => OneStagedRelease
  BY DEF RowsInv
<1> QED
  BY RowsConsistent, <1>1, PTL

\* No two selected releases of an item come from the same candidate.
THEOREM CandidatesSelectedOnce == Spec => []NoCandidateTwice
<1>1. RowsInv => NoCandidateTwice
  BY DEF RowsInv
<1> QED
  BY RowsConsistent, <1>1, PTL

\* A rejected candidate has no selected release until it is restored.
THEOREM RejectedStaysOut == Spec => []RejectedIsNotSelected
<1>1. RowsInv => RejectedIsNotSelected
  BY DEF RowsInv
<1> QED
  BY RowsConsistent, <1>1, PTL

-----------------------------------------------------------------------------
(* What a worker is about to fetch. *)

Fetching(w) == worker[w].pc \in {"claim", "fetch"}

\* No two workers have the same release, and what one is about to fetch has neither
\* failed nor been stored.
FetchInv ==
  /\ \A w \in Workers : worker[w].rel <= issued
  /\ \A r \in jobs : r <= issued
  /\ \A v, w \in Workers : worker[v].rel = worker[w].rel /\ worker[w].rel # None => v = w
  /\ \A w \in Workers : Fetching(w) /\ worker[w].rel \in Live =>
       rows[worker[w].rel].doc = "none" /\ rows[worker[w].rel].cand \notin failed

\* The rows of R that a step leaves are what they were, and have not newly failed.
Kept(R) ==
  \A r \in R : r \in Live' /\ r <= issued =>
    /\ r \in Live
    /\ rows[r].doc = "none" => rows'[r].doc = "none"
    /\ rows[r].cand \notin failed => rows'[r].cand \notin failed'

LEMMA IdsOrdered ==
  ASSUME TypeOK, RowsInv
  PROVE  issued \in Nat /\ New > issued /\ None <= issued /\ \A r \in Live : r <= issued
<1>1. issued \in Nat
  BY LifecycleAssumption DEF TypeOK
<1>2. \A r \in Live : r <= issued
  <2> SUFFICES ASSUME NEW r \in Live, ~ (r <= issued) PROVE FALSE
    OBVIOUS
  <2>1. r \in Releases /\ r > issued
    BY <1>1 DEF Live, Releases
  <2> QED
    BY <2>1 DEF RowsInv, Fresh, Live, NoRow
<1> QED
  BY <1>1, <1>2 DEF New, None

LEMMA InsertKept ==
  ASSUME TypeOK, RowsInv, NEW c \in Candidates, NEW gone, Insert(c, gone),
         \A r \in Live \ gone : rows[r].cand \notin failed => rows[r].cand \notin failed'
  PROVE  Kept(Releases) /\ issued' = New
<1>1. /\ issued' = New /\ Live' = (Live \ gone) \cup {New}
      /\ \A r \in Live \ gone : rows'[r] = rows[r]
  BY InsertFacts, RowsTypeOK DEF RowsInv
<1>2. ~ (New <= issued)
  BY IdsOrdered DEF New
<1> QED
  BY <1>1, <1>2 DEF Kept

LEMMA DeleteKept ==
  ASSUME TypeOK, RowsInv, NEW gone, Delete(gone),
         \A r \in Live \ gone : rows[r].cand \notin failed => rows[r].cand \notin failed'
  PROVE  Kept(Releases) /\ issued' = issued
<1>1. Live' = Live \ gone /\ \A r \in Live \ gone : rows'[r] = rows[r]
  BY DeleteFacts, RowsTypeOK DEF RowsInv
<1> QED
  BY <1>1 DEF Kept, Delete

LEMMA FailKept ==
  ASSUME TypeOK, RowsInv, NEW r \in Live, NEW hard \in BOOLEAN, FailSelectedReleaseAndPromoteNext(r, hard)
  PROVE  Kept(Releases) /\ issued' \in {issued, New}
<1> DEFINE c == rows[r].cand
           flags == [cand EXCEPT ![c] = IF hard THEN "rejected" ELSE "free"]
<1>1. \A q \in Live \ {r} : rows[q].cand \notin failed => rows[q].cand \notin failed'
  BY DEF FailSelectedReleaseAndPromoteNext, RowsInv, NoCandidateTwice
<1>2. CASE queue.sel = r
  <2>1. PromoteNext(c, {r}, flags)
    BY <1>2 DEF FailSelectedReleaseAndPromoteNext
  <2> HIDE DEF c, flags
  <2> QED
    BY <1>1, <2>1, InsertKept, DeleteKept DEF PromoteNext, NextCandidates
<1>3. CASE queue.sel # r
  BY <1>1, <1>3, DeleteKept DEF FailSelectedReleaseAndPromoteNext
<1> QED
  BY <1>2, <1>3

LEMMA PublishKept ==
  ASSUME TypeOK, RowsInv, NEW r \in Live, MarkReleaseAvailable(r), failed' = failed
  PROVE  Kept(Releases) /\ issued' = issued
<1>1. \A q \in Releases : rows'[q] = IF q = r THEN [rows[r] EXCEPT !.published = TRUE] ELSE NoRow
  BY DEF MarkReleaseAvailable
<1>2. NoRow.cand = None
  BY DEF NoRow
<1>3. r \in Releases /\ rows'[r].doc = rows[r].doc /\ rows'[r].cand = rows[r].cand
  BY <1>1, LiveFacts DEF TypeOK
<1>4. \A q \in Live' : q = r
  BY <1>1, <1>2 DEF Live
<1> QED
  BY <1>3, <1>4 DEF Kept, MarkReleaseAvailable

\* A step of somebody else.
LEMMA BystanderKeeps ==
  ASSUME TypeOK, RowsInv, FetchInv, Kept(Releases), worker' = worker, issued' \in {issued, New},
         jobs' \subseteq jobs \cup Live \cup {issued'}
  PROVE  FetchInv'
<1>1. issued \in Nat /\ New > issued /\ New \in Nat /\ \A r \in Live : r <= issued
  BY IdsOrdered DEF New
<1>2. \A w \in Workers : worker'[w].rel <= issued'
  <2> TAKE w \in Workers
  <2>1. worker[w].rel <= issued /\ worker[w].rel \in Int
    BY DEF FetchInv, TypeOK, Releases, None
  <2> QED
    BY <1>1, <2>1
<1>3. \A r \in jobs' : r <= issued'
  <2> TAKE r \in jobs'
  <2>1. r = issued' \/ (r \in Releases /\ r <= issued)
    BY <1>1, LiveFacts DEF FetchInv, TypeOK
  <2> QED
    BY <1>1, <2>1 DEF Releases
<1>4. \A w \in Workers : Fetching(w)' /\ worker'[w].rel \in Live' =>
        rows'[worker'[w].rel].doc = "none" /\ rows'[worker'[w].rel].cand \notin failed'
  <2> SUFFICES ASSUME NEW w \in Workers, Fetching(w), worker[w].rel \in Live'
               PROVE  rows'[worker[w].rel].doc = "none" /\ rows'[worker[w].rel].cand \notin failed'
    BY DEF Fetching
  <2>1. worker[w].rel \in Releases
    BY DEF Live
  <2>2. worker[w].rel \in Live
    BY <2>1 DEF Kept, FetchInv
  <2> QED
    BY <2>1, <2>2 DEF Kept, FetchInv
<1> QED
  BY <1>2, <1>3, <1>4 DEF FetchInv

\* A step with which a worker ends what it does before, or goes on after, a fetch.
LEMMA MoverKeeps ==
  ASSUME TypeOK, RowsInv, FetchInv, NEW w \in Workers, Kept(Releases \ {worker[w].rel}),
         \A v \in Workers : v # w => worker'[v] = worker[v],
         worker'[w].rel \in {worker[w].rel, None}, worker'[w].pc \notin {"claim", "fetch"},
         issued' \in {issued, New}, jobs' \subseteq jobs \cup {issued'}
  PROVE  FetchInv'
<1>1. issued \in Nat /\ New > issued /\ New \in Nat /\ None <= issued /\ None \in Int
  BY IdsOrdered DEF New, None
<1>2. \A v \in Workers : worker'[v].rel <= issued'
  <2> TAKE v \in Workers
  <2>1. worker[v].rel <= issued /\ worker[v].rel \in Int
    BY DEF FetchInv, TypeOK, Releases, None
  <2>2. worker'[v].rel \in {worker[v].rel, None}
    OBVIOUS
  <2> QED
    BY <1>1, <2>1, <2>2
<1>3. \A r \in jobs' : r <= issued'
  <2> TAKE r \in jobs'
  <2>1. r = issued' \/ (r \in Releases /\ r <= issued)
    BY DEF FetchInv, TypeOK
  <2> QED
    BY <1>1, <2>1 DEF Releases
<1>4. \A u, v \in Workers : worker'[u].rel = worker'[v].rel /\ worker'[v].rel # None => u = v
  BY DEF FetchInv
<1>5. \A v \in Workers : Fetching(v)' /\ worker'[v].rel \in Live' =>
        rows'[worker'[v].rel].doc = "none" /\ rows'[worker'[v].rel].cand \notin failed'
  <2> SUFFICES ASSUME NEW v \in Workers, Fetching(v)', worker'[v].rel \in Live'
               PROVE  rows'[worker'[v].rel].doc = "none" /\ rows'[worker'[v].rel].cand \notin failed'
    OBVIOUS
  <2>1. v # w /\ worker'[v] = worker[v] /\ Fetching(v)
    BY DEF Fetching
  <2>2. worker[v].rel \in Releases
    BY <2>1 DEF Live
  <2>3. worker[v].rel # None
    BY <2>1, <2>2 DEF Releases, None
  <2>4. worker[v].rel \in Releases \ {worker[w].rel}
    BY <2>1, <2>2, <2>3 DEF FetchInv
  <2>5. worker[v].rel \in Live
    BY <2>1, <2>4 DEF Kept, FetchInv
  <2> QED
    BY <2>1, <2>4, <2>5 DEF Kept, FetchInv
<1> QED
  BY <1>2, <1>3, <1>4, <1>5 DEF FetchInv

LEMMA SearchKeepsFetch == TypeOK /\ RowsInv /\ FetchInv /\ SearchStep => FetchInv'
<1> SUFFICES ASSUME TypeOK, RowsInv, FetchInv, SearchStep PROVE FetchInv'
  OBVIOUS
<1>1. worker' = worker
  BY DEF SearchStep, SearchStart, ReplaceSearchCandidates, PromoteExistingCandidate, MarkLibrarySearchFailed
<1>2. CASE SearchStart
  <2>1. Kept(Releases)
    BY <1>2 DEF SearchStart, Kept, Live
  <2> QED
    BY <1>1, <1>2, <2>1, BystanderKeeps DEF SearchStart
<1>3. ASSUME NEW found \in SUBSET Candidates, NEW bad \in SUBSET found, ReplaceSearchCandidates(found, bad)
      PROVE  FetchInv'
  <2>1. PICK gone : \/ \E c \in Candidates : Insert(c, gone) /\ Submit(New)
                    \/ Delete(gone) /\ jobs' = jobs
    BY <1>3 DEF ReplaceSearchCandidates
  <2>2. failed' \subseteq failed
    BY <1>3 DEF ReplaceSearchCandidates
  <2>3. ASSUME NEW c \in Candidates, Insert(c, gone), Submit(New) PROVE FetchInv'
    <3>1. Kept(Releases) /\ issued' = New
      BY <2>2, <2>3, InsertKept
    <3> QED
      BY <1>1, <2>3, <3>1, BystanderKeeps DEF Submit
  <2>4. CASE Delete(gone) /\ jobs' = jobs
    <3>1. Kept(Releases) /\ issued' = issued
      BY <2>2, <2>4, DeleteKept
    <3> QED
      BY <1>1, <2>4, <3>1, BystanderKeeps
  <2> QED
    BY <2>1, <2>3, <2>4
<1>4. CASE PromoteExistingCandidate
  <2>1. failed' = failed
    BY <1>4 DEF PromoteExistingCandidate
  <2>2. ASSUME NEW c \in NextCandidates, Insert(c, Live), Submit(New) PROVE FetchInv'
    <3>0. c \in Candidates
      BY DEF NextCandidates
    <3>1. Kept(Releases) /\ issued' = New
      BY <2>1, <2>2, <3>0, InsertKept
    <3> QED
      BY <1>1, <2>2, <3>1, BystanderKeeps DEF Submit
  <2>3. CASE UNCHANGED <<rows, issued, jobs>>
    <3>1. Kept(Releases)
      BY <2>1, <2>3 DEF Kept, Live
    <3> QED
      BY <1>1, <2>3, <3>1, BystanderKeeps
  <2> QED
    BY <1>4, <2>2, <2>3 DEF PromoteExistingCandidate
<1>5. CASE MarkLibrarySearchFailed
  <2>1. Delete(Live) /\ jobs' = jobs /\ failed' = failed
    BY <1>5 DEF MarkLibrarySearchFailed
  <2>2. Kept(Releases) /\ issued' = issued
    BY <2>1, DeleteKept
  <2> QED
    BY <1>1, <2>1, <2>2, BystanderKeeps
<1> QED
  BY <1>2, <1>3, <1>4, <1>5 DEF SearchStep

LEMMA UserKeepsFetch == TypeOK /\ RowsInv /\ FetchInv /\ UserStep => FetchInv'
<1> SUFFICES ASSUME TypeOK, RowsInv, FetchInv, UserStep PROVE FetchInv'
  OBVIOUS
<1>1. worker' = worker /\ failed' = failed
  BY DEF UserStep, SelectReleaseCandidate, RejectReleaseCandidate, RestoreReleaseCandidate, PauseQueueItem,
         ResumeQueueItem, ClearQueueSelectedRelease, ResetLibraryItem, RetryQueueItem
<1>2. ASSUME NEW c \in Candidates, NEW flags, Activate(c, flags) PROVE FetchInv'
  <2>1. Insert(c, Live) /\ Submit(New)
    BY <1>2 DEF Activate
  <2>2. Kept(Releases) /\ issued' = New
    BY <1>1, <2>1, InsertKept
  <2> QED
    BY <1>1, <2>1, <2>2, BystanderKeeps DEF Submit
<1>3. ASSUME UNCHANGED <<rows, issued>>, jobs' \subseteq jobs \cup Live PROVE FetchInv'
  <2>1. Kept(Releases)
    BY <1>1, <1>3 DEF Kept, Live
  <2> QED
    BY <1>1, <1>3, <2>1, BystanderKeeps
<1>4. ASSUME NEW c \in Candidates, RejectReleaseCandidate(c) PROVE FetchInv'
  <2>1. CASE UNCHANGED <<rows, issued, jobs>>
    BY <1>3, <2>1
  <2>2. ASSUME NEW gone, NEW flags, PromoteNext(c, gone, flags), IF issued' # issued THEN Submit(New) ELSE jobs' = jobs
        PROVE  FetchInv'
    <3>1. Kept(Releases) /\ issued' \in {issued, New}
      BY <1>1, <2>2, InsertKept, DeleteKept DEF PromoteNext, NextCandidates
    <3>2. jobs' \subseteq jobs \cup {issued'}
      BY <2>2, <3>1 DEF Submit
    <3> QED
      BY <1>1, <3>1, <3>2, BystanderKeeps
  <2> QED
    BY <1>4, <2>1, <2>2 DEF RejectReleaseCandidate
<1>5. CASE PauseQueueItem \/ ClearQueueSelectedRelease
  <2>1. Delete({queue.sel}) /\ jobs' = jobs
    BY <1>5 DEF PauseQueueItem, ClearQueueSelectedRelease
  <2>2. Kept(Releases) /\ issued' = issued
    BY <1>1, <2>1, DeleteKept
  <2> QED
    BY <1>1, <2>1, <2>2, BystanderKeeps
<1>6. CASE ResetLibraryItem
  <2>1. /\ rows' = [r \in Releases |-> IF r = queue.sel THEN NoRow ELSE [rows[r] EXCEPT !.published = FALSE]]
        /\ UNCHANGED <<issued, jobs>>
    BY <1>6 DEF ResetLibraryItem
  <2>2. NoRow.cand = None
    BY DEF NoRow
  <2>3. ASSUME NEW r \in Releases, r \in Live'
        PROVE  r \in Live /\ rows'[r].doc = rows[r].doc /\ rows'[r].cand = rows[r].cand
    <3>1. r # queue.sel
      BY <2>1, <2>2, <2>3 DEF Live
    <3>2. rows'[r].doc = rows[r].doc /\ rows'[r].cand = rows[r].cand
      BY <2>1, <3>1 DEF TypeOK
    <3> QED
      BY <2>3, <3>2 DEF Live
  <2>4. Kept(Releases)
    BY <1>1, <2>3 DEF Kept
  <2> QED
    BY <1>1, <2>1, <2>4, BystanderKeeps
<1>7. CASE RetryQueueItem
  <2>1. CASE queue.sel # None /\ Submit(queue.sel) /\ UNCHANGED <<rows, issued>>
    BY <1>3, <2>1 DEF Submit, RowsInv, SelectionExists
  <2>2. CASE UNCHANGED <<rows, issued, jobs>>
    BY <1>3, <2>2
  <2> QED
    BY <1>2, <1>7, <2>1, <2>2 DEF RetryQueueItem, NextCandidates
<1>8. CASE ResumeQueueItem
  BY <1>3, <1>8 DEF ResumeQueueItem
<1>9. ASSUME NEW c \in Candidates, SelectReleaseCandidate(c) \/ RestoreReleaseCandidate(c) PROVE FetchInv'
  BY <1>2, <1>3, <1>9 DEF SelectReleaseCandidate, RestoreReleaseCandidate
<1> QED
  BY <1>4, <1>5, <1>6, <1>7, <1>8, <1>9 DEF UserStep

LEMMA OthersKeepFetch ==
  ASSUME TypeOK, RowsInv, FetchInv,
         \/ \E r \in Releases : FailRelease(r)
         \/ RepublishLibraryItem \/ RebuildPublications
         \/ ResetStaleQueueItems \/ RequeueSelectedRelease \/ DispatchAutomaticPending \/ Restart
  PROVE  FetchInv'
<1>1. ASSUME NEW r \in Releases, FailRelease(r) PROVE FetchInv'
  <2>1. PICK hard \in BOOLEAN : r \in Live /\ FailSelectedReleaseAndPromoteNext(r, hard)
    BY <1>1 DEF FailRelease
  <2>2. Kept(Releases) /\ issued' \in {issued, New}
    BY <2>1, FailKept
  <2>3. worker' = worker /\ jobs' \subseteq jobs \cup {issued'}
    BY <1>1, <2>2 DEF FailRelease, Submit
  <2> QED
    BY <2>2, <2>3, BystanderKeeps
<1>2. CASE RepublishLibraryItem \/ RebuildPublications
  <2>1. UNCHANGED <<failed, jobs, worker>> /\ \E r \in Live : MarkReleaseAvailable(r)
    BY <1>2 DEF RepublishLibraryItem, RebuildPublications, RowsInv, SelectionExists
  <2>2. Kept(Releases) /\ issued' = issued
    BY <2>1, PublishKept
  <2> QED
    BY <2>1, <2>2, BystanderKeeps
<1>3. CASE ResetStaleQueueItems \/ RequeueSelectedRelease \/ DispatchAutomaticPending
  <2>1. UNCHANGED <<failed, rows, issued, worker>>
    BY <1>3 DEF ResetStaleQueueItems, RequeueSelectedRelease, DispatchAutomaticPending
  <2>2. jobs' \subseteq jobs \cup Live
    BY <1>3 DEF ResetStaleQueueItems, RequeueSelectedRelease, DispatchAutomaticPending, Submit, RowsInv, SelectionExists
  <2>3. Kept(Releases)
    BY <2>1 DEF Kept, Live
  <2> QED
    BY <2>1, <2>2, <2>3, BystanderKeeps
<1>4. CASE Restart
  <2>1. jobs' = {} /\ issued' = issued /\ \A w \in Workers : worker'[w] = Idle
    BY <1>4 DEF Restart
  <2>2. \A w \in Workers : worker'[w].rel = None /\ ~ Fetching(w)'
    BY <2>1 DEF Idle, Fetching
  <2>3. None <= issued
    BY IdsOrdered
  <2> QED
    BY <2>1, <2>2, <2>3 DEF FetchInv
<1> QED
  BY <1>1, <1>2, <1>3, <1>4

LEMMA TakeKeepsFetch ==
  ASSUME TypeOK, RowsInv, FetchInv, NEW w \in Workers, NEW r \in Releases, Take(w, r)
  PROVE  FetchInv'
<1>1. UNCHANGED <<failed, rows, issued>> /\ Live' = Live /\ jobs' \subseteq jobs /\ r \in jobs
      /\ \A v \in Workers : worker[v].rel # r
  BY DEF Take, Live
<1>2. CASE ~ Exists(r)
  <2>1. worker' = worker
    BY <1>2 DEF Take
  <2>2. Kept(Releases)
    BY <1>1 DEF Kept
  <2> QED
    BY <1>1, <2>1, <2>2, BystanderKeeps
<1>3. CASE Exists(r)
  <2> DEFINE pc == IF rows[r].cand \in failed THEN "fail" ELSE IF rows[r].doc # "none" THEN "reuse" ELSE "claim"
  <2>1. worker' = [worker EXCEPT ![w] = [pc |-> pc, rel |-> r, staged |-> FALSE]]
    BY <1>3 DEF Take
  <2>2. pc \in {"claim", "fetch"} => rows[r].doc = "none" /\ rows[r].cand \notin failed
    OBVIOUS
  <2> HIDE DEF pc
  <2>3. /\ \A v \in Workers : v # w => worker'[v] = worker[v]
        /\ worker'[w].rel = r /\ worker'[w].pc = pc
    BY <2>1 DEF TypeOK
  <2>4. \A v \in Workers : worker'[v].rel <= issued'
    BY <1>1, <2>3 DEF FetchInv
  <2>5. \A u, v \in Workers : worker'[u].rel = worker'[v].rel /\ worker'[v].rel # None => u = v
    BY <1>1, <2>3 DEF FetchInv
  <2>6. \A v \in Workers : Fetching(v)' /\ worker'[v].rel \in Live' =>
          rows'[worker'[v].rel].doc = "none" /\ rows'[worker'[v].rel].cand \notin failed'
    BY <1>1, <2>2, <2>3 DEF FetchInv, Fetching
  <2> QED
    BY <1>1, <2>4, <2>5, <2>6 DEF FetchInv
<1> QED
  BY <1>2, <1>3

LEMMA WorkerKeepsFetch ==
  ASSUME TypeOK, RowsInv, FetchInv, NEW w \in Workers, WorkerStep(w)
  PROVE  FetchInv'
<1> DEFINE r == worker[w].rel
<1>1. \A v \in Workers : worker[v] \in [pc : WorkerPC, rel : Releases \cup {None}, staged : BOOLEAN]
  BY DEF TypeOK
<1>2. Idle.rel = None /\ Idle.pc = "idle"
  BY DEF Idle
\* Where a step leaves the worker.
<1>3. /\ Done(w) => (\A v \in Workers : v # w => worker'[v] = worker[v]) /\ worker'[w].rel = None
                    /\ worker'[w].pc = "idle" /\ jobs' \subseteq jobs
      /\ \A pc : Goto(w, pc) => (\A v \in Workers : v # w => worker'[v] = worker[v]) /\ worker'[w].rel = r
                                 /\ worker'[w].pc = pc
  BY <1>1, <1>2 DEF Done, Goto, TypeOK
<1>4. CASE UNCHANGED <<failed, rows, issued>> /\ jobs' \subseteq jobs
           /\ (Done(w) \/ \E pc \in {"import", "fail", "check", "publish"} : Goto(w, pc))
  <2>1. Kept(Releases \ {r})
    BY <1>4 DEF Kept, Live
  <2> QED
    BY <1>3, <1>4, <2>1, MoverKeeps
<1>5. CASE Claim(w)
  <2>1. CASE Done(w)
    BY <1>3, <1>4, <1>5, <2>1 DEF Claim
  <2>2. CASE Goto(w, "fetch") /\ jobs' = jobs
    <3>1. UNCHANGED <<failed, rows, issued, jobs>> /\ Live' = Live /\ Fetching(w)
      BY <1>5, <2>2 DEF Claim, Live, Fetching
    <3>2. \A v \in Workers : worker'[v].rel = worker[v].rel /\ (Fetching(v)' => Fetching(v))
      BY <1>3, <2>2, <3>1 DEF Fetching
    <3> QED
      BY <3>1, <3>2 DEF FetchInv
  <2> QED
    BY <1>5, <2>1, <2>2 DEF Claim
<1>6. CASE Reuse(w) \/ Index(w) \/ Mark(w)
  BY <1>4, <1>6 DEF Reuse, Index, Mark
<1>7. CASE Check(w)
  <2>1. UNCHANGED <<failed, rows, issued>> /\ (jobs' = jobs \/ Done(w))
    BY <1>7 DEF Check
  <2>2. ASSUME NEW pc \in {"fail", "publish", "mark"}, worker' = [worker EXCEPT ![w].pc = pc, ![w].staged = FALSE], jobs' = jobs
        PROVE  FetchInv'
    <3>1. (\A v \in Workers : v # w => worker'[v] = worker[v]) /\ worker'[w].rel = r /\ worker'[w].pc = pc
      BY <1>1, <2>2 DEF TypeOK
    <3>2. Kept(Releases \ {r})
      BY <2>1 DEF Kept, Live
    <3> QED
      BY <2>1, <2>2, <3>1, <3>2, MoverKeeps
  <2>3. CASE Done(w)
    BY <1>3, <1>4, <2>1, <2>3
  <2> QED
    BY <1>7, <2>2, <2>3 DEF Check
<1>8. CASE Fetch(w) \/ Import(w)
  <2>1. UNCHANGED <<failed, issued>> /\ jobs' \subseteq jobs
    BY <1>8 DEF Fetch, Import, Done
  <2>2. (\A v \in Workers : v # w => worker'[v] = worker[v]) /\ worker'[w].rel \in {r, None}
        /\ worker'[w].pc \notin {"claim", "fetch"}
    <3>1. CASE Done(w) \/ Goto(w, "fail") \/ Goto(w, "import")
      BY <1>3, <3>1
    <3>2. CASE worker' = [worker EXCEPT ![w].pc = IF queue.sel = r THEN "index" ELSE "check", ![w].staged = queue.sel # r]
      BY <1>1, <3>2 DEF TypeOK
    <3> QED
      BY <1>8, <3>1, <3>2 DEF Fetch, Import
  <2>3. \A q \in Releases \ {r} : rows'[q] = rows[q]
    BY <1>8 DEF Fetch, Import, TypeOK
  <2>4. Kept(Releases \ {r})
    BY <2>1, <2>3 DEF Kept, Live
  <2> QED
    BY <2>1, <2>2, <2>4, MoverKeeps
<1>9. CASE Publish(w)
  <2>1. CASE Goto(w, "fail") /\ UNCHANGED <<rows, issued, jobs>>
    BY <1>4, <1>9, <2>1 DEF Publish
  <2>2. CASE Exists(r) /\ MarkReleaseAvailable(r) /\ Done(w)
    <3>1. Kept(Releases) /\ issued' = issued
      BY <1>9, <2>2, LiveFacts, PublishKept DEF Publish
    <3>2. Kept(Releases \ {r})
      BY <3>1 DEF Kept
    <3> QED
      BY <1>3, <2>2, <3>1, <3>2, MoverKeeps
  <2> QED
    BY <1>9, <2>1, <2>2 DEF Publish
<1>10. CASE Fail(w)
  <2>1. worker' = [worker EXCEPT ![w] = Idle]
    BY <1>10 DEF Fail
  <2>2. (\A v \in Workers : v # w => worker'[v] = worker[v]) /\ worker'[w].rel = None /\ worker'[w].pc = "idle"
    BY <1>2, <2>1 DEF TypeOK
  <2>3. Kept(Releases) /\ issued' \in {issued, New}
    <3>1. CASE UNCHANGED <<failed, rows, issued>>
      BY <3>1 DEF Kept, Live
    <3>2. CASE Exists(r) /\ \E hard \in BOOLEAN : FailSelectedReleaseAndPromoteNext(r, hard)
      BY <3>2, LiveFacts, FailKept
    <3> QED
      BY <1>10, <3>1, <3>2 DEF Fail
  <2>4. jobs' \subseteq jobs \cup {issued'}
    BY <1>10, <2>3 DEF Fail
  <2>5. Kept(Releases \ {r})
    BY <2>3 DEF Kept
  <2> QED
    BY <2>2, <2>3, <2>4, <2>5, MoverKeeps
<1> QED
  BY <1>5, <1>6, <1>7, <1>8, <1>9, <1>10, TakeKeepsFetch DEF WorkerStep

LEMMA FetchInvariant == Spec => [](TypeOK /\ RowsInv /\ FetchInv)
<1>1. Init => FetchInv
  <2> SUFFICES ASSUME Init PROVE FetchInv
    OBVIOUS
  <2>1. \A w \in Workers : worker[w].rel = None /\ ~ Fetching(w)
    BY DEF Init, Idle, Fetching
  <2> QED
    BY <2>1 DEF Init, FetchInv, None
<1>2. TypeOK /\ RowsInv /\ FetchInv /\ [Next]_vars => FetchInv'
  <2> SUFFICES ASSUME TypeOK, RowsInv, FetchInv, [Next]_vars PROVE FetchInv'
    OBVIOUS
  <2>1. CASE UNCHANGED vars
    <3>1. Kept(Releases)
      BY <2>1 DEF vars, Kept, Live
    <3> QED
      BY <2>1, <3>1, BystanderKeeps DEF vars
  <2> QED
    BY <2>1, SearchKeepsFetch, UserKeepsFetch, OthersKeepFetch, WorkerKeepsFetch DEF Next
<1>3. TypeOK /\ RowsInv /\ [Next]_vars => TypeOK' /\ RowsInv'
  BY StepKeeps
<1> QED
  BY InitKeeps, <1>1, <1>2, <1>3, PTL DEF Spec

\* No release is fetched whose candidate has failed before or whose NZB is stored,
\* whatever happened between the decision to fetch it and the answer.
THEOREM FetchedOnce == Spec => OneFetchAttempt
<1>1. TypeOK /\ RowsInv /\ FetchInv =>
        [\A w \in Workers :
           worker[w].pc = "fetch" /\ worker'[w].pc # "fetch" /\ Exists(worker[w].rel)
           => /\ rows[worker[w].rel].doc = "none"
              /\ rows[worker[w].rel].cand \notin failed]_vars
  BY LiveFacts DEF FetchInv, Fetching
<1> QED
  BY FetchInvariant, <1>1, PTL DEF OneFetchAttempt

\* A failed upgrade never touches the queue item, its availability or the release in use.
THEOREM UpgradesFailAlone == Spec => FailedUpgradeIsHarmless
<1>1. TypeOK /\ RowsInv /\ [Next]_vars =>
        [\A w \in Workers :
           Fail(w) /\ worker[w].rel # queue.sel
           => UNCHANGED <<queue, available>> /\ (queue.sel # None => rows'[queue.sel] = rows[queue.sel])]_vars
  <2> SUFFICES ASSUME TypeOK, RowsInv, NEW w \in Workers, Fail(w), worker[w].rel # queue.sel
               PROVE  UNCHANGED <<queue, available>> /\ (queue.sel # None => rows'[queue.sel] = rows[queue.sel])
    OBVIOUS
  <2> DEFINE r == worker[w].rel
  <2>1. CASE UNCHANGED <<queue, available, rows>>
    BY <2>1
  <2>2. ASSUME NEW hard \in BOOLEAN, FailSelectedReleaseAndPromoteNext(r, hard)
        PROVE  UNCHANGED <<queue, available>> /\ (queue.sel # None => rows'[queue.sel] = rows[queue.sel])
    <3>1. Delete({r}) /\ UNCHANGED <<queue, available>>
      BY <2>2 DEF FailSelectedReleaseAndPromoteNext
    <3> QED
      BY <3>1 DEF Delete, TypeOK
  <2> QED
    BY <2>1, <2>2 DEF Fail
<1> QED
  BY RowsConsistent, <1>1, PTL DEF Spec, FailedUpgradeIsHarmless

-----------------------------------------------------------------------------
(***************************************************************************)
(* The refinement.  Each action of the lifecycle is one of                 *)
(* ReleaseSelection's, or touches none of what it names.  The steps need   *)
(* the invariants of the rows: that the queue points to a row there is,    *)
(* and that a search which keeps the candidate in use keeps one row only.  *)
(***************************************************************************)

Served == {r \in Live : rows[r].published}
Step == [Selection!Next]_(Selection!vars)

\* What the rows are of, in the words of the selection.
LEMMA AllIsLive ==
  ASSUME TypeOK, RowsInv
  PROVE  Selection!All = Live /\ Selection!None = None /\ None \notin Live
<1>1. Selection!None = None /\ None \notin Live
  BY LiveFacts DEF None, Selection!None
<1>2. queue.sel # None => queue.sel \in Live
  BY DEF RowsInv, SelectionExists
<1> QED
  BY <1>1, <1>2 DEF Selection!All

LEMMA InsertServes ==
  ASSUME TypeOK, RowsInv, NEW c \in Candidates, NEW gone, Insert(c, gone)
  PROVE  /\ New \notin Live /\ issued' = New /\ New = issued + 1
         /\ Live' = (Live \ gone) \cup {New}
         /\ Served' \subseteq Served
<1>1. /\ New \in Releases /\ issued' = New /\ New \notin Live
      /\ Live' = (Live \ gone) \cup {New}
      /\ \A r \in Live \ gone : rows'[r] = rows[r]
  BY InsertFacts, RowsTypeOK DEF RowsInv
<1>2. rows'[New].published = FALSE
  BY <1>1 DEF Insert, NoRow
<1> QED
  BY <1>1, <1>2 DEF Served, New

LEMMA DeleteServes ==
  ASSUME TypeOK, RowsInv, NEW gone, Delete(gone)
  PROVE  Live' = Live \ gone /\ issued' = issued /\ Served' \subseteq Served
<1>1. Live' = Live \ gone /\ \A r \in Live \ gone : rows'[r] = rows[r]
  BY DeleteFacts, RowsTypeOK DEF RowsInv
<1> QED
  BY <1>1 DEF Served, Delete

-----------------------------------------------------------------------------
(* The kinds of steps. *)

LEMMA Withdraws ==
  ASSUME TypeOK, RowsInv, issued' = issued, queue'.sel = queue.sel, available' = available,
         Live' \subseteq Live, Served' \subseteq Served
  PROVE  Step
<1>1. Selection!Withdraw
  BY DEF Selection!Withdraw, Selection!Same, Selection!NoneAdded, Served
<1> QED
  BY <1>1 DEF Step, Selection!Next

LEMMA Unmoved ==
  ASSUME TypeOK, RowsInv, UNCHANGED <<rows, issued, available>>, queue'.sel = queue.sel
  PROVE  Step
<1>1. Live' = Live
  BY DEF Live
<1>2. Served' = Served
  BY <1>1 DEF Served
<1> QED
  BY <1>1, <1>2, Withdraws

LEMMA Selects ==
  ASSUME TypeOK, RowsInv, NEW c \in Candidates, NEW gone, Insert(c, gone), Live \subseteq gone,
         queue'.sel = New, available' \in {available, FALSE}
  PROVE  Step
<1>1. issued' = issued + 1 /\ queue'.sel = issued' /\ Live' \ {queue'.sel} = {} /\ Served' \subseteq Served
  BY InsertServes
<1>2. Selection!Select
  BY <1>1 DEF Selection!Select, Selection!Leave, Selection!MayWithdraw, Selection!NoneAdded, Served
<1> QED
  BY <1>2 DEF Step, Selection!Next

LEMMA Drops ==
  ASSUME TypeOK, RowsInv, NEW gone, Delete(gone), queue'.sel = None, queue.sel # None => queue.sel \in gone,
         available' \in {available, FALSE}
  PROVE  Step
<1>1. issued' = issued /\ Live' \subseteq Live \ {queue.sel} /\ Served' \subseteq Served
  BY DeleteServes, AllIsLive
<1>2. Selection!Drop
  BY <1>1, AllIsLive DEF Selection!Drop, Selection!MayWithdraw, Selection!NoneAdded, Served
<1> QED
  BY <1>2 DEF Step, Selection!Next

LEMMA GivesWay ==
  ASSUME TypeOK, RowsInv, NEW c, NEW gone, NEW r \in Live, Live \cap gone = {r}, NEW flags,
         PromoteNext(c, gone, flags), available' \in {available, FALSE}
  PROVE  Step
<1>1. ASSUME NEW n \in Candidates, Insert(n, gone), queue' = [queue EXCEPT !.state = "selected", !.sel = New]
      PROVE  Selection!GiveWay
  <2>1. queue'.sel = issued + 1 /\ issued' = issued + 1 /\ Served' \subseteq Served
    BY <1>1, InsertServes DEF TypeOK
  <2>2. Live' \ {queue'.sel} = Live \ {r}
    BY <1>1, <2>1, InsertServes
  <2>3. issued + 1 # None
    BY LifecycleAssumption DEF None, TypeOK
  <2> QED
    BY <2>1, <2>2, <2>3, AllIsLive
    DEF Selection!GiveWay, Selection!Leave, Selection!MayWithdraw, Selection!NoneAdded, Served
<1>2. ASSUME Delete(gone), queue' = [queue EXCEPT !.state = "failed", !.sel = None]
      PROVE  Selection!GiveWay
  <2>1. queue'.sel = None /\ issued' = issued /\ Served' \subseteq Served
    BY <1>2, DeleteServes DEF TypeOK
  <2>2. Live' \ {queue'.sel} = Live \ {r}
    BY <1>2, <2>1, DeleteServes, AllIsLive
  <2> QED
    BY <2>1, <2>2, AllIsLive
    DEF Selection!GiveWay, Selection!Leave, Selection!MayWithdraw, Selection!NoneAdded, Served
<1>3. Selection!GiveWay
  BY <1>1, <1>2 DEF PromoteNext, NextCandidates
<1> QED
  BY <1>3 DEF Step, Selection!Next

LEMMA Publishes ==
  ASSUME TypeOK, RowsInv, NEW r \in Live, MarkReleaseAvailable(r)
  PROVE  Step
<1>1. r \in Releases /\ NoRow.cand = None /\ rows[r].cand # None
  BY DEF Live, NoRow
<1>2. rows'[r] = [rows[r] EXCEPT !.published = TRUE] /\ \A q \in Releases : q # r => rows'[q] = NoRow
  BY <1>1 DEF MarkReleaseAvailable
<1>3. rows'[r].cand = rows[r].cand /\ rows'[r].published = TRUE
  BY <1>1, <1>2 DEF TypeOK
<1>4. Live' = {r} /\ Served' = {r}
  BY <1>1, <1>2, <1>3 DEF Live, Served
<1>5. queue'.sel = r /\ available' = TRUE /\ issued' = issued
  BY DEF MarkReleaseAvailable, TypeOK
<1>6. Selection!Publish
  BY <1>4, <1>5, AllIsLive DEF Selection!Publish, Served
<1> QED
  BY <1>6 DEF Step, Selection!Next

-----------------------------------------------------------------------------
(* The actions. *)

LEMMA ReplaceImplements ==
  ASSUME TypeOK, RowsInv, NEW found \in SUBSET Candidates, NEW bad \in SUBSET found,
         ReplaceSearchCandidates(found, bad)
  PROVE  Step
<1> DEFINE existing == search.upgrade /\ queue.sel # None
           kept == IF existing THEN {rows[queue.sel].cand} ELSE {}
           gone == {r \in Live : rows[r].cand \notin kept}
<1>1. \/ \E c \in Candidates : Insert(c, gone) /\ StageOrSelect(existing, New)
      \/ /\ Delete(gone)
         /\ queue' = IF existing THEN [queue EXCEPT !.state = "available"]
                     ELSE [queue EXCEPT !.state = "failed", !.sel = None]
         /\ available' = available
  BY DEF ReplaceSearchCandidates
<1>2. existing => queue.sel \in Live /\ Live \ gone = {queue.sel}
  BY DEF RowsInv, SelectionExists, NoCandidateTwice
<1>3. ~ existing => gone = Live
  OBVIOUS
<1> HIDE DEF gone, kept
<1>4. ASSUME NEW c \in Candidates, Insert(c, gone), StageOrSelect(existing, New) PROVE Step
  <2>1. CASE existing
    <3>1. queue'.sel = queue.sel /\ available' = available /\ queue.sel # New /\ queue.sel # None
      BY <1>2, <1>4, <2>1, InsertServes DEF StageOrSelect
    <3>2. issued' = issued + 1 /\ Live' \ {queue'.sel} = {issued'} /\ Served' \subseteq Served
      BY <1>2, <1>4, <2>1, <3>1, InsertServes
    <3>3. Selection!Stage
      BY <3>1, <3>2, AllIsLive DEF Selection!Stage, Selection!Leave, Selection!NoneAdded, Served
    <3> QED
      BY <3>3 DEF Step, Selection!Next
  <2>2. CASE ~ existing
    <3>1. queue'.sel = New /\ available' = FALSE
      BY <1>4, <2>2 DEF StageOrSelect, TypeOK
    <3> QED
      BY <1>3, <1>4, <2>2, <3>1, Selects
  <2> QED
    BY <2>1, <2>2
<1>5. CASE Delete(gone) /\ available' = available
           /\ queue' = IF existing THEN [queue EXCEPT !.state = "available"]
                       ELSE [queue EXCEPT !.state = "failed", !.sel = None]
  <2>1. CASE existing
    <3>1. queue'.sel = queue.sel
      BY <1>5, <2>1 DEF TypeOK
    <3>2. Live' \subseteq Live /\ issued' = issued /\ Served' \subseteq Served
      BY <1>5, DeleteServes
    <3> QED
      BY <1>5, <3>1, <3>2, Withdraws
  <2>2. CASE ~ existing
    <3>1. queue'.sel = None
      BY <1>5, <2>2 DEF TypeOK
    <3>2. queue.sel # None => queue.sel \in gone
      BY <1>3, <2>2 DEF RowsInv, SelectionExists
    <3> QED
      BY <1>5, <3>1, <3>2, Drops
  <2> QED
    BY <2>1, <2>2
<1> QED
  BY <1>1, <1>4, <1>5

LEMMA SearchImplements == TypeOK /\ RowsInv /\ SearchStep => Step
<1> SUFFICES ASSUME TypeOK, RowsInv, SearchStep PROVE Step
  OBVIOUS
<1>1. CASE SearchStart
  BY <1>1, Unmoved DEF SearchStart
<1>2. CASE PromoteExistingCandidate
  <2>1. ASSUME NEW c \in NextCandidates, Insert(c, Live), queue' = [queue EXCEPT !.state = "selected", !.sel = New],
               available' = available
        PROVE  Step
    <3>1. c \in Candidates /\ queue'.sel = New
      BY <2>1 DEF NextCandidates, TypeOK
    <3> QED
      BY <2>1, <3>1, Selects
  <2> QED
    BY <1>2, <2>1, Unmoved DEF PromoteExistingCandidate
<1>3. CASE MarkLibrarySearchFailed
  <2>1. Delete(Live) /\ queue'.sel = None /\ available' = available
    BY <1>3 DEF MarkLibrarySearchFailed, TypeOK
  <2> QED
    BY <2>1, Drops DEF RowsInv, SelectionExists
<1> QED
  BY <1>1, <1>2, <1>3, ReplaceImplements DEF SearchStep

LEMMA UserImplements == TypeOK /\ RowsInv /\ UserStep => Step
<1> SUFFICES ASSUME TypeOK, RowsInv, UserStep PROVE Step
  OBVIOUS
<1>1. ASSUME NEW c \in Candidates, NEW flags, Activate(c, flags), available' = available PROVE Step
  <2>1. Insert(c, Live) /\ queue'.sel = New
    BY <1>1 DEF Activate, TypeOK
  <2> QED
    BY <1>1, <2>1, Selects
<1>2. ASSUME NEW c \in Candidates, RejectReleaseCandidate(c) PROVE Step
  <2> DEFINE gone == {r \in Live : rows[r].cand = c}
             flags == [cand EXCEPT ![c] = "rejected"]
  <2>1. available' = available
    BY <1>2 DEF RejectReleaseCandidate
  <2>2. CASE gone = {}
    BY <1>2, <2>1, <2>2, Unmoved DEF RejectReleaseCandidate
  <2>3. CASE gone # {}
    <3>1. PICK r \in Live : rows[r].cand = c
      BY <2>3
    <3>2. Live \cap gone = {r}
      BY <3>1 DEF RowsInv, NoCandidateTwice
    <3>3. PromoteNext(c, gone, flags)
      BY <1>2, <2>3 DEF RejectReleaseCandidate
    <3> HIDE DEF gone, flags
    <3> QED
      BY <2>1, <3>2, <3>3, GivesWay
  <2> QED
    BY <2>2, <2>3
<1>3. CASE PauseQueueItem \/ ClearQueueSelectedRelease
  <2>1. Delete({queue.sel}) /\ available' = available /\ queue'.sel = None
    BY <1>3 DEF PauseQueueItem, ClearQueueSelectedRelease, TypeOK
  <2> QED
    BY <2>1, Drops
<1>4. CASE ResetLibraryItem
  <2>1. /\ rows' = [r \in Releases |-> IF r = queue.sel THEN NoRow ELSE [rows[r] EXCEPT !.published = FALSE]]
        /\ queue'.sel = None /\ available' = FALSE /\ issued' = issued
    BY <1>4 DEF ResetLibraryItem, TypeOK
  <2>2. NoRow.cand = None
    BY DEF NoRow
  <2>3. ASSUME NEW r \in Releases, r \in Live' PROVE r \in Live \ {queue.sel} /\ rows'[r].published = FALSE
    <3>1. r # queue.sel
      BY <2>1, <2>2, <2>3 DEF Live
    <3>2. rows'[r].cand = rows[r].cand /\ rows'[r].published = FALSE
      BY <2>1, <3>1 DEF TypeOK
    <3> QED
      BY <2>3, <3>1, <3>2 DEF Live
  <2>4. Live' \subseteq Live \ {queue.sel} /\ Served' = {}
    BY <2>3 DEF Live, Served
  <2>5. Selection!Drop
    BY <2>1, <2>4, AllIsLive DEF Selection!Drop, Selection!MayWithdraw, Selection!NoneAdded, Served
  <2> QED
    BY <2>5 DEF Step, Selection!Next
<1>5. CASE RetryQueueItem
  <2>1. ASSUME NEW c \in NextCandidates, NEW flags, Activate(c, flags) PROVE Step
    BY <1>1, <1>5, <2>1 DEF RetryQueueItem, NextCandidates
  <2> QED
    BY <1>5, <2>1, Unmoved DEF RetryQueueItem
<1>6. CASE ResumeQueueItem
  BY <1>6, Unmoved DEF ResumeQueueItem, TypeOK
<1>7. ASSUME NEW c \in Candidates, SelectReleaseCandidate(c) \/ RestoreReleaseCandidate(c) PROVE Step
  BY <1>1, <1>7, Unmoved DEF SelectReleaseCandidate, RestoreReleaseCandidate
<1> QED
  BY <1>2, <1>3, <1>4, <1>5, <1>6, <1>7 DEF UserStep

\* A release that fails gives way if it was the active one, and just goes if not.
LEMMA FailImplements ==
  ASSUME TypeOK, RowsInv, NEW r \in Live, NEW hard, FailSelectedReleaseAndPromoteNext(r, hard)
  PROVE  Step
<1>1. CASE queue.sel = r
  <2>1. PICK flags : PromoteNext(rows[r].cand, {r}, flags) /\ available' = FALSE
    BY <1>1 DEF FailSelectedReleaseAndPromoteNext
  <2> QED
    BY <2>1, GivesWay
<1>2. CASE queue.sel # r
  <2>1. Delete({r}) /\ UNCHANGED <<queue, available>>
    BY <1>2 DEF FailSelectedReleaseAndPromoteNext
  <2>2. Live' \subseteq Live /\ issued' = issued /\ Served' \subseteq Served
    BY <2>1, DeleteServes
  <2> QED
    BY <2>1, <2>2, Withdraws
<1> QED
  BY <1>1, <1>2

LEMMA WorkerImplements ==
  ASSUME TypeOK, RowsInv, NEW w \in Workers, WorkerStep(w)
  PROVE  Step
<1> DEFINE r == worker[w].rel
<1>1. CASE (\E q \in Releases : Take(w, q)) \/ Claim(w) \/ Reuse(w) \/ Index(w) \/ Check(w) \/ Mark(w)
  <2>1. UNCHANGED <<rows, issued, available>> /\ queue'.sel = queue.sel
    BY <1>1 DEF Take, Claim, Reuse, Index, Check, Mark, MarkSelectedReleaseFetching, TypeOK
  <2> QED
    BY <2>1, Unmoved
<1>2. CASE Fetch(w) \/ Import(w)
  <2>1. UNCHANGED <<issued, available>> /\ queue'.sel = queue.sel
    BY <1>2 DEF Fetch, Import, TypeOK
  <2>2. \A q \in Releases : rows'[q].cand = rows[q].cand /\ (rows'[q].published => rows[q].published)
    <3>1. CASE rows' = rows
      BY <3>1
    <3>2. ASSUME NEW doc, rows' = [rows EXCEPT ![r].doc = doc] \/ rows' = [rows EXCEPT ![r].doc = doc, ![r].published = FALSE]
          PROVE  \A q \in Releases : rows'[q].cand = rows[q].cand /\ (rows'[q].published => rows[q].published)
      BY <3>2 DEF TypeOK
    <3> QED
      BY <1>2, <3>1, <3>2 DEF Fetch, Import
  <2>3. Live' = Live /\ Served' \subseteq Served
    BY <2>2 DEF Live, Served
  <2> QED
    BY <2>1, <2>3, Withdraws
<1>3. CASE Publish(w)
  BY <1>3, LiveFacts, Publishes, Unmoved DEF Publish
<1>4. CASE Fail(w)
  BY <1>4, LiveFacts, FailImplements, Unmoved DEF Fail
<1> QED
  BY <1>1, <1>2, <1>3, <1>4 DEF WorkerStep

LEMMA StepImplements == TypeOK /\ RowsInv /\ [Next]_vars => Step
<1> SUFFICES ASSUME TypeOK, RowsInv, [Next]_vars PROVE Step
  OBVIOUS
<1>1. ASSUME NEW r \in Releases, FailRelease(r) PROVE Step
  BY <1>1, FailImplements DEF FailRelease
<1>2. CASE RepublishLibraryItem \/ RebuildPublications
  <2>1. \E r \in Live : MarkReleaseAvailable(r)
    BY <1>2 DEF RepublishLibraryItem, RebuildPublications, RowsInv, SelectionExists
  <2> QED
    BY <2>1, Publishes
<1>3. CASE ResetStaleQueueItems \/ RequeueSelectedRelease \/ DispatchAutomaticPending \/ Restart
  <2>1. UNCHANGED <<rows, issued, available>> /\ queue'.sel = queue.sel
    BY <1>3 DEF ResetStaleQueueItems, RequeueSelectedRelease, DispatchAutomaticPending, Restart, TypeOK
  <2> QED
    BY <2>1, Unmoved
<1>4. CASE UNCHANGED vars
  BY <1>4, Unmoved DEF vars
<1> QED
  BY <1>1, <1>2, <1>3, <1>4, SearchImplements, UserImplements, WorkerImplements DEF Next

\* The rows of an item never change in a way ReleaseSelection does not allow: a
\* staged upgrade becomes active only by publication, and deleted releases stay gone.
THEOREM SelectionImplemented == Spec => ImplementsSelection
<1>1. Init => Selection!Init
  <2> SUFFICES ASSUME Init PROVE Selection!Init
    OBVIOUS
  <2>1. Live = {}
    BY DEF Init, Live, NoRow
  <2> QED
    BY <2>1 DEF Init, Selection!Init, None, Selection!None
<1>2. TypeOK /\ RowsInv /\ [Next]_vars => [Selection!Next]_(Selection!vars)
  BY StepImplements DEF Step
<1> QED
  BY RowsConsistent, <1>1, <1>2, PTL DEF Spec, ImplementsSelection, Selection!Spec

OneServed == \A q, r \in Served : q = r

\* The files of at most one release of an item are published at a time, which only
\* needs what ReleaseSelection promises.
THEOREM ServedAlone == Spec => []OneServed
<1>1. Init => OneServed
  BY DEF Init, OneServed, Served, Live, NoRow
<1>2. OneServed /\ [Selection!Next]_(Selection!vars) => OneServed'
  <2> SUFFICES ASSUME OneServed, [Selection!Next]_(Selection!vars) PROVE OneServed'
    OBVIOUS
  <2>1. Served' \subseteq Served \/ \E r : Served' = {r}
    BY DEF Selection!vars, Selection!Next, Selection!Withdraw, Selection!Select, Selection!Stage, Selection!Drop,
           Selection!GiveWay, Selection!Publish, Selection!Leave, Selection!NoneAdded, Served
  <2> QED
    BY <2>1 DEF OneServed
<1>3. TypeOK /\ RowsInv /\ [Next]_vars => [Selection!Next]_(Selection!vars)
  BY StepImplements DEF Step
<1> QED
  BY RowsConsistent, <1>1, <1>2, <1>3, PTL DEF Spec
=============================================================================
