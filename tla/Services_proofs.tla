--------------------------- MODULE Services_proofs ---------------------------
(***************************************************************************)
(* What the services promise, for instances of every size.  Each of them   *)
(* runs alone: the lemmas about its steps, here those of SeasonPack,       *)
(* FailedRetries and EpisodeBackfill and in CoreServices_proofs those of   *)
(* the others, are all that is needed.                                     *)
(***************************************************************************)
EXTENDS MCServices, CoreServices_proofs

-----------------------------------------------------------------------------
(* SeasonPack: an episode without a link is found *)

\* No release.
LEMMA NoRowIsNone == Packs!NoRow \in Packs!Rows({0}) /\ ~Packs!NoRow.files /\ ~Packs!NoRow.own
BY DEF Packs!NoRow, Packs!Rows

\* There is no release to begin with.
LEMMA PacksBegin == ASSUME Packs!Init PROVE Packs!PackInv
<1>1. v2 = [i \in Packs!Ids |-> Packs!NoRow] /\ v3 = 0
  BY DEF Packs!Init
<1>2. v2 \in [Packs!Ids -> Packs!Rows({0})] /\ \A i \in Packs!Ids : v2[i] = Packs!NoRow
  BY <1>1, NoRowIsNone
<1> QED
  BY <1>1, <1>2, NoRowIsNone DEF Packs!PackInv, Packs!Shapes, Packs!FilesAreOwners

\* Rows go, come without files, or get the files of a release of their own.
LEMMA PackRowsMove ==
  ASSUME Packs!PackInv, v3' \in Nat, NEW S, v2' \in [Packs!Ids -> Packs!Rows(S)],
         \A i \in Packs!Ids : \/ v2'[i] = v2[i]
                              \/ ~v2'[i].own /\ ~v2'[i].files
                              \/ /\ v2'[i].own /\ v2'[i].candidate \in Packs!Candidates
                                 /\ PackOwner[v2'[i].candidate] = v2'[i].item
  PROVE  Packs!PackInv'
BY DEF Packs!PackInv, Packs!Shapes, Packs!FilesAreOwners

\* Rows are deleted.
LEMMA PackRowsGone ==
  ASSUME Packs!PackInv, NEW S, NEW z, z = Packs!RowsWithout(S)
  PROVE  /\ \E T : z \in [Packs!Ids -> Packs!Rows(T)]
         /\ \A i \in Packs!Ids : z[i] = v2[i] \/ (~z[i].own /\ ~z[i].files)
<1>1. PICK T : v2 \in [Packs!Ids -> Packs!Rows(T)]
  BY DEF Packs!PackInv, Packs!Shapes
<1>2. Packs!Rows(T) \subseteq Packs!Rows(T \cup {0}) /\ Packs!Rows({0}) \subseteq Packs!Rows(T \cup {0})
  BY DEF Packs!Rows
<1>3. z \in [Packs!Ids -> Packs!Rows(T \cup {0})]
  BY <1>1, <1>2, NoRowIsNone DEF Packs!RowsWithout
<1> QED
  BY <1>3, NoRowIsNone DEF Packs!RowsWithout

\* ... and nothing else.
LEMMA PackRowsGo == ASSUME Packs!PackInv, NEW S, v2' = Packs!RowsWithout(S), v3' = v3 PROVE Packs!PackInv'
<1>1. v3' \in Nat
  BY DEF Packs!PackInv, Packs!Shapes
<1> QED
  BY <1>1, PackRowsGone, PackRowsMove

\* A row comes, of a candidate of the episode's own or of another's.
LEMMA PackRowComes ==
  ASSUME Packs!PackInv, NEW S, NEW e, NEW c \in Packs!Candidates \cup {"none"}, NEW own \in BOOLEAN,
         own => c \in Packs!Candidates /\ PackOwner[c] = e, v3' = v3 + 1,
         v2' = [Packs!RowsWithout(S) EXCEPT ![v3 + 1] = Packs!NewRow(e, c, own)]
  PROVE  Packs!PackInv'
<1> DEFINE x == Packs!NewRow(e, c, own)
           z == Packs!RowsWithout(S)
<1>1. x \in Packs!Rows({e}) /\ ~x.files /\ x.own = own /\ x.candidate = c /\ x.item = e
  BY DEF Packs!NewRow, Packs!Rows
<1> HIDE DEF x, z
<1>2. v2' = [z EXCEPT ![v3 + 1] = x]
  BY DEF x, z
<1>3. PICK T : z \in [Packs!Ids -> Packs!Rows(T)] /\ \A i \in Packs!Ids : z[i] = v2[i] \/ (~z[i].own /\ ~z[i].files)
  BY PackRowsGone DEF z
<1>4. Packs!Rows(T) \subseteq Packs!Rows(T \cup {e}) /\ Packs!Rows({e}) \subseteq Packs!Rows(T \cup {e})
  BY DEF Packs!Rows
<1>5. v2' \in [Packs!Ids -> Packs!Rows(T \cup {e})] /\ \A i \in Packs!Ids : v2'[i] = z[i] \/ v2'[i] = x
  BY <1>1, <1>2, <1>3, <1>4
<1>6. v3' \in Nat
  BY DEF Packs!PackInv, Packs!Shapes
<1> QED
  BY <1>1, <1>3, <1>5, <1>6, PackRowsMove

\* A row beside those there are.
LEMMA PackRowIsAdded ==
  ASSUME Packs!PackInv, NEW e, NEW c \in Packs!Candidates \cup {"none"}, NEW own \in BOOLEAN,
         own => c \in Packs!Candidates /\ PackOwner[c] = e, v3' = v3 + 1,
         v2' = [v2 EXCEPT ![v3 + 1] = Packs!NewRow(e, c, own)]
  PROVE  Packs!PackInv'
<1>1. v2 \in [Packs!Ids -> {v2[i] : i \in Packs!Ids}]
  BY DEF Packs!PackInv, Packs!Shapes
<1>2. Packs!RowsWithout({}) = v2
  BY <1>1 DEF Packs!RowsWithout
<1> QED
  BY <1>2, PackRowComes

\* Steps that write no row.
LEMMA PacksStay == ASSUME Packs!PackInv, UNCHANGED <<v2, v3>> PROVE Packs!PackInv'
BY DEF Packs!PackInv, Packs!Shapes, Packs!FilesAreOwners

\* A search selects.
LEMMA PacksSearch == ASSUME Packs!PackInv, NEW e \in PackEpisodes, NEW c \in Packs!Candidates, Packs!Search(e, c) PROVE Packs!PackInv'
<1>1. /\ PackOwner[c] = e /\ v3' = v3 + 1
      /\ \/ v2' = [v2 EXCEPT ![v3 + 1] = Packs!NewRow(e, c, TRUE)]
         \/ v2' = [Packs!RowsWithout(Packs!RowsOf(e)) EXCEPT ![v3 + 1] = Packs!NewRow(e, c, TRUE)]
  BY DEF Packs!Search
<1>2. PICK own \in BOOLEAN : own = TRUE
  OBVIOUS
<1>3. CASE v2' = [v2 EXCEPT ![v3 + 1] = Packs!NewRow(e, c, TRUE)]
  BY <1>1, <1>2, <1>3, PackRowIsAdded
<1>4. CASE v2' = [Packs!RowsWithout(Packs!RowsOf(e)) EXCEPT ![v3 + 1] = Packs!NewRow(e, c, TRUE)]
  BY <1>1, <1>2, <1>4, PackRowComes
<1> QED
  BY <1>1, <1>3, <1>4

\* A release gets its files.
LEMMA PacksImport == ASSUME Packs!PackInv, NEW i \in Packs!Ids, Packs!Import(i) PROVE Packs!PackInv'
<1>1. /\ v2[i].own /\ v2' = [v2 EXCEPT ![i].files = TRUE] /\ v3' = v3
  BY DEF Packs!Import
<1> DEFINE x == [v2[i] EXCEPT !.files = TRUE]
<1>6. PICK T : v2 \in [Packs!Ids -> Packs!Rows(T)]
  BY DEF Packs!PackInv, Packs!Shapes
<1>2. x \in Packs!Rows(T) /\ x.own = v2[i].own /\ x.candidate = v2[i].candidate /\ x.item = v2[i].item
  BY <1>6 DEF Packs!Rows
<1>3. v2' = [v2 EXCEPT ![i] = x]
  BY <1>1
<1> HIDE DEF x
<1>4. v2' \in [Packs!Ids -> Packs!Rows(T)] /\ v2'[i] = x /\ \A j \in Packs!Ids : j # i => v2'[j] = v2[j]
  BY <1>2, <1>3, <1>6
<1>5. x.own /\ x.candidate \in Packs!Candidates /\ PackOwner[x.candidate] = x.item /\ v3' \in Nat
  BY <1>1, <1>2 DEF Packs!PackInv, Packs!Shapes, Packs!FilesAreOwners
<1> QED
  BY <1>4, <1>5, PackRowsMove

\* An episode is given a row of a release that lives.
LEMMA PacksFulfil ==
  ASSUME Packs!PackInv, NEW i, Packs!Live(i), NEW e, v3' = v3 + 1,
         v2' = [v2 EXCEPT ![v3 + 1] = Packs!NewRow(e, v2[i].candidate, FALSE)]
  PROVE  Packs!PackInv'
<1>1. v2[i].candidate \in Packs!Candidates \cup {"none"}
  BY DEF Packs!Live, Packs!PackInv, Packs!Shapes, Packs!Rows
<1>2. PICK own \in BOOLEAN : own = FALSE
  OBVIOUS
<1> QED
  BY <1>1, <1>2, PackRowIsAdded

\* Every step.
LEMMA PacksStep == ASSUME Packs!PackInv, Packs!Next PROVE Packs!PackInv'
<1>1. ASSUME NEW e \in PackEpisodes, NEW c \in Packs!Candidates, Packs!Search(e, c) PROVE Packs!PackInv'
  BY <1>1, PacksSearch
<1>2. ASSUME NEW e \in PackEpisodes, Packs!ResetOrphanedAvailableItems(e) PROVE Packs!PackInv'
  BY <1>2, PackRowsGo DEF Packs!ResetOrphanedAvailableItems
<1>3. ASSUME NEW i \in Packs!Ids, Packs!Import(i) \/ Packs!Fail(i) PROVE Packs!PackInv'
  <2>1. CASE Packs!Import(i)
    BY <2>1, PacksImport
  <2>2. CASE Packs!Fail(i)
    BY <2>2, PackRowsGo DEF Packs!Fail
  <2> QED
    BY <1>3, <2>1, <2>2
<1>4. ASSUME NEW w, NEW i, NEW new, Packs!Publish(w, i, new) PROVE Packs!PackInv'
  <2>1. v2' = Packs!RowsWithout(Packs!RowsOf(v2[i].item) \ {i}) /\ v3' = v3
    BY <1>4 DEF Packs!Publish, Packs!MarkReleaseAvailable
  <2> QED
    BY <2>1, PackRowsGo
<1>5. ASSUME NEW w \in PackWorkers, NEW i \in Packs!Ids, Packs!PublishSelectedRelease(w, i) PROVE Packs!PackInv'
  <2>1. PICK b \in BOOLEAN : b = TRUE
    OBVIOUS
  <2> QED
    BY <1>4, <1>5, <2>1 DEF Packs!PublishSelectedRelease
<1>6. ASSUME NEW w \in PackWorkers, NEW e \in PackEpisodes, Packs!RepublishLibraryItem(w, e) PROVE Packs!PackInv'
  <2>1. PICK b \in BOOLEAN : b = FALSE
    OBVIOUS
  <2>2. (\E i : Packs!Publish(w, i, b)) \/ UNCHANGED <<v2, v3>>
    BY <1>6, <2>1 DEF Packs!RepublishLibraryItem
  <2> QED
    BY <1>4, <2>2, PacksStay
<1>7. ASSUME NEW w \in PackWorkers, Packs!FindSeasonPackMatches(w) \/ Packs!fulfillSeasonPackEpisodes(w) \/ Packs!MatchesDone(w)
                                \/ Packs!CreateSeasonPackEpisodeItems(w)
      PROVE  Packs!PackInv'
  <2>1. UNCHANGED <<v2, v3>>
    BY <1>7 DEF Packs!FindSeasonPackMatches, Packs!fulfillSeasonPackEpisodes, Packs!MatchesDone,
      Packs!CreateSeasonPackEpisodeItems
  <2> QED
    BY <2>1, PacksStay
<1>8. ASSUME NEW w \in PackWorkers, Packs!FulfillEpisodeLibraryItem(w) PROVE Packs!PackInv'
  <2>1. \/ UNCHANGED <<v2, v3>>
        \/ /\ Packs!Live(v5[w].row) /\ v3' = v3 + 1
           /\ v2' = [v2 EXCEPT ![v3 + 1] = Packs!NewRow(v5[w].at, v2[v5[w].row].candidate, FALSE)]
    BY <1>8 DEF Packs!FulfillEpisodeLibraryItem
  <2> QED
    BY <2>1, PacksStay, PacksFulfil
<1>9. ASSUME NEW w \in PackWorkers, Packs!createSeasonPackEpisodeItem(w) PROVE Packs!PackInv'
  <2>1. PICK t \in v5[w].todo :
        \/ UNCHANGED <<v2, v3>>
        \/ /\ Packs!Live(v5[w].row) /\ v3' = v3 + 1
           /\ v2' = [v2 EXCEPT ![v3 + 1] = Packs!NewRow(t.episode, v2[v5[w].row].candidate, FALSE)]
    BY <1>9 DEF Packs!createSeasonPackEpisodeItem
  <2> QED
    BY <2>1, PacksStay, PacksFulfil
<1> QED
  BY <1>1, <1>2, <1>3, <1>5, <1>6, <1>7, <1>8, <1>9 DEF Packs!Next

\* An episode's own release with files has one for it, and so has a way back where another has.
LEMMA PacksForgetNone == ASSUME Packs!PackInv PROVE Packs!NoEpisodeForgotten
<1>1. ASSUME NEW e \in PackEpisodes, Packs!Recoverable(e) PROVE Packs!Linkable(e)
  <2> DEFINE mine == {i \in Packs!RowsOf(e) : v2[i].files}
  <2>1. CASE mine # {}
    <3>1. PICK i \in mine : TRUE
      BY <2>1
    <3>2. i \in Packs!Ids /\ v2[i].item = e /\ v2[i].candidate \in Packs!Candidates /\ PackOwner[v2[i].candidate] = e
      BY <3>1 DEF Packs!RowsOf, Packs!PackInv, Packs!FilesAreOwners
    <3>3. Packs!OwnFiles(e, v2[i].candidate) # {}
      BY <3>2, PacksAssumption
    <3> QED
      BY <2>1, <3>1, <3>3 DEF Packs!Linkable
  <2>2. CASE mine = {}
    <3>1. ~ \E i \in Packs!RowsOf(e) : v2[i].files
      BY <2>2
    <3>2. \E i \in Packs!Sources(e) : \E f \in PackFiles[v2[i].candidate] : Packs!Fits(e, f)
      BY <1>1, <3>1 DEF Packs!Recoverable
    <3> QED
      BY <2>2, <3>2 DEF Packs!Linkable
  <2> QED
    BY <2>1, <2>2
<1> QED
  BY <1>1 DEF Packs!NoEpisodeForgotten, Packs!ListUnrecoverableLibraryItems

-----------------------------------------------------------------------------
(* FailedRetries: a failed item is taken up again *)

\* Nothing has failed.
LEMMA RetriesBegin == ASSUME Retries!Init PROVE Retries!RetryInv
<1>1. v1 \in Retries!Rows({Retries!None}) /\ v1.state = "requested"
  BY DEF Retries!Init, Retries!Rows, Retries!Reasons
<1> QED
  BY <1>1 DEF Retries!RetryInv, Retries!Interrupted

\* Steps that leave the row alone.
LEMMA RetriesStay == ASSUME Retries!RetryInv, v1' = v1 PROVE Retries!RetryInv'
BY DEF Retries!RetryInv, Retries!Interrupted

\* A row that fails has no release any more, or fails by a restart.
LEMMA RetryRowIsLeft ==
  ASSUME NEW S, v1' \in Retries!Rows(S), v1'.state = "failed" => v1'.sel = Retries!None \/ v1'.reason = "restart"
  PROVE  Retries!RetryInv'
BY DEF Retries!RetryInv, Retries!Interrupted

\* What the lists, the downloads and the user make of a row.
LEMMA RetryRowChanges ==
  ASSUME Retries!RetryInv, NEW x, NEW r \in Retries!Reasons,
         \/ v1' = [v1 EXCEPT !.state = "available"]
         \/ v1' = [v1 EXCEPT !.state = "available", !.available = TRUE, !.reason = ""]
         \/ v1' = [v1 EXCEPT !.state = "selected", !.sel = x, !.reason = ""]
         \/ v1' = [v1 EXCEPT !.state = "selected", !.available = FALSE, !.reason = "", !.sel = x]
         \/ v1' = [v1 EXCEPT !.state = "working"]
         \/ v1' = [v1 EXCEPT !.state = "requested"]
         \/ v1' = [v1 EXCEPT !.state = "requested", !.reason = ""]
         \/ v1' = [v1 EXCEPT !.sel = Retries!None]
         \/ v1' = [v1 EXCEPT !.held = FALSE]
         \/ v1' = [v1 EXCEPT !.held = TRUE, !.state = "requested", !.sel = Retries!None]
         \/ v1' = [v1 EXCEPT !.state = "failed", !.reason = "restart"]
         \/ v1' = [v1 EXCEPT !.state = "failed", !.sel = Retries!None, !.reason = r]
         \/ v1' = [v1 EXCEPT !.state = "failed", !.sel = Retries!None, !.available = FALSE, !.reason = r]
  PROVE  Retries!RetryInv'
<1>0. PICK S : v1 \in Retries!Rows(S)
  BY DEF Retries!RetryInv
<1> DEFINE T == S \cup {x, Retries!None}
<1>r. "" \in Retries!Reasons /\ "restart" \in Retries!Reasons
  BY DEF Retries!Reasons
<1>1. CASE v1' = [v1 EXCEPT !.state = "available"]
  <2>1. v1' \in Retries!Rows(T) /\ (v1'.state = "failed" => v1'.sel = Retries!None \/ v1'.reason = "restart")
    BY <1>0, <1>r, <1>1 DEF Retries!Rows
  <2> QED
    BY <2>1, RetryRowIsLeft
<1>2. CASE v1' = [v1 EXCEPT !.state = "available", !.available = TRUE, !.reason = ""]
  <2>1. v1' \in Retries!Rows(T) /\ (v1'.state = "failed" => v1'.sel = Retries!None \/ v1'.reason = "restart")
    BY <1>0, <1>r, <1>2 DEF Retries!Rows
  <2> QED
    BY <2>1, RetryRowIsLeft
<1>3. CASE v1' = [v1 EXCEPT !.state = "selected", !.sel = x, !.reason = ""]
  <2>1. v1' \in Retries!Rows(T) /\ (v1'.state = "failed" => v1'.sel = Retries!None \/ v1'.reason = "restart")
    BY <1>0, <1>r, <1>3 DEF Retries!Rows
  <2> QED
    BY <2>1, RetryRowIsLeft
<1>4. CASE v1' = [v1 EXCEPT !.state = "selected", !.available = FALSE, !.reason = "", !.sel = x]
  <2>1. v1' \in Retries!Rows(T) /\ (v1'.state = "failed" => v1'.sel = Retries!None \/ v1'.reason = "restart")
    BY <1>0, <1>r, <1>4 DEF Retries!Rows
  <2> QED
    BY <2>1, RetryRowIsLeft
<1>5. CASE v1' = [v1 EXCEPT !.state = "working"]
  <2>1. v1' \in Retries!Rows(T) /\ (v1'.state = "failed" => v1'.sel = Retries!None \/ v1'.reason = "restart")
    BY <1>0, <1>r, <1>5 DEF Retries!Rows
  <2> QED
    BY <2>1, RetryRowIsLeft
<1>6. CASE v1' = [v1 EXCEPT !.state = "requested"]
  <2>1. v1' \in Retries!Rows(T) /\ (v1'.state = "failed" => v1'.sel = Retries!None \/ v1'.reason = "restart")
    BY <1>0, <1>r, <1>6 DEF Retries!Rows
  <2> QED
    BY <2>1, RetryRowIsLeft
<1>7. CASE v1' = [v1 EXCEPT !.state = "requested", !.reason = ""]
  <2>1. v1' \in Retries!Rows(T) /\ (v1'.state = "failed" => v1'.sel = Retries!None \/ v1'.reason = "restart")
    BY <1>0, <1>r, <1>7 DEF Retries!Rows
  <2> QED
    BY <2>1, RetryRowIsLeft
<1>8. CASE v1' = [v1 EXCEPT !.sel = Retries!None]
  <2>1. v1' \in Retries!Rows(T) /\ (v1'.state = "failed" => v1'.sel = Retries!None \/ v1'.reason = "restart")
    BY <1>0, <1>r, <1>8 DEF Retries!Rows
  <2> QED
    BY <2>1, RetryRowIsLeft
<1>9. CASE v1' = [v1 EXCEPT !.held = FALSE]
  <2>1. v1' \in Retries!Rows(T)
    BY <1>0, <1>r, <1>9 DEF Retries!Rows
  <2>2. v1'.state = v1.state /\ v1'.sel = v1.sel /\ v1'.reason = v1.reason
    BY <1>0, <1>9 DEF Retries!Rows
  <2> QED
    BY <2>1, <2>2, RetryRowIsLeft DEF Retries!RetryInv, Retries!Interrupted
<1>10. CASE v1' = [v1 EXCEPT !.held = TRUE, !.state = "requested", !.sel = Retries!None]
  <2>1. v1' \in Retries!Rows(T) /\ (v1'.state = "failed" => v1'.sel = Retries!None \/ v1'.reason = "restart")
    BY <1>0, <1>r, <1>10 DEF Retries!Rows
  <2> QED
    BY <2>1, RetryRowIsLeft
<1>11. CASE v1' = [v1 EXCEPT !.state = "failed", !.reason = "restart"]
  <2>1. v1' \in Retries!Rows(T) /\ (v1'.state = "failed" => v1'.sel = Retries!None \/ v1'.reason = "restart")
    BY <1>0, <1>r, <1>11 DEF Retries!Rows
  <2> QED
    BY <2>1, RetryRowIsLeft
<1>12. CASE v1' = [v1 EXCEPT !.state = "failed", !.sel = Retries!None, !.reason = r]
  <2>1. v1' \in Retries!Rows(T) /\ (v1'.state = "failed" => v1'.sel = Retries!None \/ v1'.reason = "restart")
    BY <1>0, <1>r, <1>12 DEF Retries!Rows
  <2> QED
    BY <2>1, RetryRowIsLeft
<1>13. CASE v1' = [v1 EXCEPT !.state = "failed", !.sel = Retries!None, !.available = FALSE, !.reason = r]
  <2>1. v1' \in Retries!Rows(T) /\ (v1'.state = "failed" => v1'.sel = Retries!None \/ v1'.reason = "restart")
    BY <1>0, <1>r, <1>13 DEF Retries!Rows
  <2> QED
    BY <2>1, RetryRowIsLeft
<1> QED
  BY <1>1, <1>2, <1>3, <1>4, <1>5, <1>6, <1>7, <1>8, <1>9, <1>10, <1>11, <1>12, <1>13

\* A search ends.
LEMMA RetriesFound == ASSUME Retries!RetryInv, Retries!SearchEnds PROVE Retries!RetryInv'
<1>0. PICK r \in Retries!Reasons : r = "none"
  BY DEF Retries!Reasons
<1>1. PICK q \in Retries!Reasons : q = "rejected"
  BY DEF Retries!Reasons
<1>2. \/ v1' = [v1 EXCEPT !.state = "available"]
      \/ \E x : v1' = [v1 EXCEPT !.state = "selected", !.available = FALSE, !.reason = "", !.sel = x]
      \/ v1' = [v1 EXCEPT !.state = "failed", !.sel = Retries!None, !.reason = r]
      \/ v1' = [v1 EXCEPT !.state = "failed", !.sel = Retries!None, !.reason = q]
  BY <1>0, <1>1 DEF Retries!SearchEnds, Retries!PromoteOrFail
<1> QED
  BY <1>2, RetryRowChanges

\* A decision on what was listed.
LEMMA RetriesDecide == ASSUME Retries!RetryInv, Retries!Decide PROVE Retries!RetryInv'
<1>0. PICK r \in Retries!Reasons : r = ""
  BY DEF Retries!Reasons
<1>1. \/ v1' = v1
      \/ Retries!RequeueSelectedRelease
      \/ Retries!RetryQueueItem
  BY DEF Retries!Decide
<1>2. CASE Retries!RequeueSelectedRelease
  BY <1>0, <1>2, RetryRowChanges, RetriesStay DEF Retries!RequeueSelectedRelease
<1>3. CASE Retries!RetryQueueItem
  <2>1. v1' = v1 \/ (Retries!Viable \ {v1.sel} # {} /\ Retries!PromoteOrFail(Retries!Viable \ {v1.sel}, ""))
    BY <1>3 DEF Retries!RetryQueueItem
  <2>2. v1' = v1 \/ \E x : v1' = [v1 EXCEPT !.state = "selected", !.sel = x, !.reason = ""]
    BY <2>1 DEF Retries!PromoteOrFail, Retries!Take
  <2> QED
    BY <1>0, <2>2, RetryRowChanges, RetriesStay
<1> QED
  BY <1>1, <1>2, <1>3, RetriesStay

\* A download.
LEMMA RetriesDownload == ASSUME Retries!RetryInv, Retries!Download PROVE Retries!RetryInv'
<1>0. PICK r \in Retries!Reasons : r = ""
  BY DEF Retries!Reasons
<1>1. PICK c \in RetryCandidates :
        Retries!JobEnds(c) \/ Retries!Fetch(c) \/ Retries!Published(c) \/ \E q \in {"missing", "forbidden", "unknown"} : Retries!Failed(c, q)
  BY DEF Retries!Download
<1>2. CASE Retries!JobEnds(c) \/ Retries!Fetch(c) \/ Retries!Published(c)
  BY <1>0, <1>2, RetryRowChanges, RetriesStay DEF Retries!JobEnds, Retries!Fetch, Retries!Published
<1>3. ASSUME NEW q \in {"missing", "forbidden", "unknown"}, Retries!Failed(c, q) PROVE Retries!RetryInv'
  <2>1. \/ \E x : v1' = [v1 EXCEPT !.state = "selected", !.available = FALSE, !.reason = "", !.sel = x]
        \/ v1' = [v1 EXCEPT !.state = "failed", !.sel = Retries!None, !.available = FALSE, !.reason = q]
    BY <1>3 DEF Retries!Failed
  <2>2. q \in Retries!Reasons
    BY DEF Retries!Reasons
  <2> QED
    BY <2>1, <2>2, RetryRowChanges
<1> QED
  BY <1>1, <1>2, <1>3

\* The user, the clock and the restart.
LEMMA RetriesRest == ASSUME Retries!RetryInv, Retries!Clear \/ Retries!User \/ Retries!ResetStaleQueueItems \/ Retries!Restart PROVE Retries!RetryInv'
<1>0. PICK r \in Retries!Reasons : r = "restart"
  BY DEF Retries!Reasons
<1>1. CASE Retries!Clear
  BY <1>0, <1>1, RetryRowChanges, RetriesStay DEF Retries!Clear, Retries!ClearQueueSelectedRelease
<1>2. CASE Retries!User
  BY <1>0, <1>2, RetryRowChanges, RetriesStay DEF Retries!User, Retries!SelectReleaseCandidate, Retries!Hold,
    Retries!ClearFailedQueue
<1>3. CASE Retries!ResetStaleQueueItems
  BY <1>0, <1>3, RetryRowChanges DEF Retries!ResetStaleQueueItems
<1>4. CASE Retries!Restart
  BY <1>0, <1>4, RetryRowChanges, RetriesStay DEF Retries!Restart
<1> QED
  BY <1>1, <1>2, <1>3, <1>4

\* Every step.
LEMMA RetriesStep == ASSUME Retries!RetryInv, Retries!Next PROVE Retries!RetryInv'
<1>1. CASE Retries!SearchPendingLibrary \/ Retries!ProcessLibraryItem \/ Retries!TouchWork \/ Retries!List \/ Retries!Block
           \/ Retries!SearchAgain \/ Retries!TouchPass \/ Retries!SearchFails
           \/ Retries!UpdatePolicy \/ Retries!Wait
  BY <1>1, RetriesStay DEF Retries!SearchPendingLibrary, Retries!ProcessLibraryItem, Retries!TouchWork, Retries!List,
    Retries!Block, Retries!SearchAgain, Retries!TouchPass,
    Retries!SearchFails, Retries!UpdatePolicy, Retries!Wait
<1> QED
  BY <1>1, RetriesFound, RetriesDecide, RetriesDownload, RetriesRest DEF Retries!Next

\* What failed with its release is of those the policy always takes up.
LEMMA RetriesForgetNone == ASSUME Retries!RetryInv PROVE Retries!NothingForgotten
<1> SUFFICES ASSUME ~v1.available, ~v1.held, v1.state # "available", v1.state # "working", ~Retries!PendingTarget(Retries!AllOver)
             PROVE  Retries!FailedTarget(Retries!AllOver) /\ Retries!decideRetryQueueAction(Retries!AsListed) # "nothing"
  BY DEF Retries!NothingForgotten
<1>1. v1.state \in {"requested", "selected", "working", "failed", "available"}
  BY DEF Retries!RetryInv, Retries!Rows
<1>2. v1.state = "failed" /\ v1.sel # Retries!None
  BY <1>1 DEF Retries!PendingTarget, Retries!AllOver
<1>3. v1.reason = "restart"
  BY <1>2 DEF Retries!RetryInv, Retries!Interrupted
<1>4. Retries!FailedTarget(Retries!AllOver)
  BY <1>2 DEF Retries!FailedTarget, Retries!AllOver
<1>5. Retries!AsListed.reason = "restart"
  BY <1>2, <1>3 DEF Retries!AsListed
<1>6. Retries!DecideFromReason(Retries!AsListed.reason) = "search"
  BY <1>5 DEF Retries!DecideFromReason
<1> QED
  BY <1>4, <1>6 DEF Retries!decideRetryQueueAction

-----------------------------------------------------------------------------
(* EpisodeBackfill: what TMDB lists is kept, what is asked for waits *)

\* The instance counts as this module does.
LEMMA BackfillCount == \A S : Backfill!Cardinality(S) = Cardinality(S)
BY DEF Backfill!Cardinality, Cardinality

\* Seasons are numbers as the episodes are.
LEMMA SeasonsAreNumbers == ASSUME NEW e \in BackfillEpisodes PROVE Backfill!Season(e) \in Nat
BY BackfillAssumption DEF Backfill!Season

\* What TMDB lists of a season.
LEMMA SeasonIsRead == 
  ASSUME Backfill!Shapes, NEW s
  PROVE  /\ Backfill!IsListing(Backfill!Listed(s)) /\ \A e \in DOMAIN Backfill!Listed(s) : Backfill!Listed(s)[e] = v1[e]
         /\ \A e \in BackfillEpisodes : e \in DOMAIN Backfill!Listed(s) <=> Backfill!Season(e) = s /\ v1[e] # Backfill!Unlisted
BY DEF Backfill!Shapes, Backfill!Tables, Backfill!IsListing, Backfill!Listed, Backfill!Unlisted

\* The seasons TMDB lists are finitely many, and one that has an episode stays.
LEMMA SeasonsAreFinite ==
    IsFiniteSet(Backfill!TVSeasonNumbers) /\ Backfill!Cardinality(Backfill!TVSeasonNumbers) \in Nat
         /\ Backfill!Cardinality({e \in BackfillEpisodes : v1[e] # Backfill!Unlisted}) \in Nat
<1> DEFINE f == [e \in BackfillEpisodes |-> Backfill!Season(e)]
<1>0. f \in Surjection(BackfillEpisodes, Backfill!Seasons)
  BY DEF Surjection, Backfill!Seasons
<1>1. IsFiniteSet(Backfill!Seasons)
  BY <1>0, FS_Surjection, BackfillAssumption
<1>2. IsFiniteSet(Backfill!TVSeasonNumbers) /\ IsFiniteSet({e \in BackfillEpisodes : v1[e] # Backfill!Unlisted})
  BY <1>1, FS_Subset, BackfillAssumption DEF Backfill!TVSeasonNumbers
<1> QED
  BY <1>2, BackfillCount, FS_CardinalityType

\* A season TMDB lists has an episode there.
LEMMA SeasonHasEpisode ==
  \A s : Backfill!Listed(s) # Backfill!Nothing <=> \E e \in BackfillEpisodes : Backfill!Season(e) = s /\ v1[e] # Backfill!Unlisted
<1> TAKE s
<1>1. CASE \E e \in BackfillEpisodes : Backfill!Season(e) = s /\ v1[e] # Backfill!Unlisted
  <2>1. DOMAIN Backfill!Listed(s) # {}
    BY <1>1 DEF Backfill!Listed
  <2>2. DOMAIN Backfill!Nothing = {}
    BY DEF Backfill!Nothing
  <2> QED
    BY <1>1, <2>1, <2>2
<1>2. CASE ~ \E e \in BackfillEpisodes : Backfill!Season(e) = s /\ v1[e] # Backfill!Unlisted
  <2>1. {f \in BackfillEpisodes : Backfill!Season(f) = s /\ v1[f] # Backfill!Unlisted} = {}
    BY <1>2
  <2> QED
    BY <1>2, <2>1 DEF Backfill!Listed, Backfill!Nothing
<1> QED
  BY <1>1, <1>2

\* As long as TMDB takes nothing back there are no fewer seasons.
LEMMA SeasonsGrow ==
  ASSUME \A e \in BackfillEpisodes : v1[e] # Backfill!Unlisted => v1'[e] # Backfill!Unlisted
  PROVE  Backfill!Cardinality(Backfill!TVSeasonNumbers) <= Backfill!Cardinality(Backfill!TVSeasonNumbers)'
<1>1. (\A s : Backfill!Listed(s) # Backfill!Nothing <=> \E e \in BackfillEpisodes : Backfill!Season(e) = s /\ v1[e] # Backfill!Unlisted)'
  BY SeasonHasEpisode, PTL
<1>2. Backfill!TVSeasonNumbers \subseteq Backfill!TVSeasonNumbers'
  BY <1>1, SeasonHasEpisode DEF Backfill!TVSeasonNumbers
<1>3. IsFiniteSet(Backfill!TVSeasonNumbers)'
  BY SeasonsAreFinite, PTL
<1>4. IsFiniteSet(Backfill!TVSeasonNumbers')
  BY <1>3, BackfillAssumption
<1> QED
  BY <1>2, <1>4, BackfillCount, FS_Subset

\* Nothing has begun.
LEMMA BackfillBegins == ASSUME Backfill!Init PROVE Backfill!BackfillInv
<1>1. Backfill!IsListing(Backfill!Nothing) /\ DOMAIN Backfill!Nothing = {}
  BY DEF Backfill!IsListing, Backfill!Nothing
<1>2. /\ v1 \in [BackfillEpisodes -> Int] /\ \A e \in BackfillEpisodes : v1[e] >= Backfill!Unlisted
      /\ v3 \in [BackfillEpisodes -> [item : {"none", "row", "pending", "taken"}, date : Nat]]
      /\ v4 \in [BackfillEpisodes -> {"none", "now", "later", "active"}]
      /\ DOMAIN v5 = {} /\ v9 = {}
  BY DEF Backfill!Init, Backfill!Unlisted, Backfill!Undated
<1>3. v2 \in [here : BOOLEAN, seasons : Nat, episodes : Nat] /\ v2.seasons = Backfill!Cardinality(Backfill!TVSeasonNumbers)
  BY SeasonsAreFinite DEF Backfill!Init, Backfill!Counts
<1>4. /\ {"pc", "todo", "got", "made", "read", "known", "flawed", "met"} \subseteq DOMAIN v6
      /\ Backfill!IsListing(v6.got) /\ v6.known = 0 /\ v6.flawed \in BOOLEAN /\ v6.met \in BOOLEAN /\ v6.pc = "idle"
      /\ v6.read \in [BackfillEpisodes -> Int] /\ \A e \in BackfillEpisodes : v6.read[e] = Backfill!Unlisted
  BY <1>1 DEF Backfill!Init, Backfill!FillIdle, Backfill!Unread, Backfill!Unlisted
<1>5. /\ {"pc", "todo", "got", "made"} \subseteq DOMAIN v7
      /\ Backfill!IsListing(v7.got) /\ v7.made \subseteq BackfillEpisodes /\ v7.pc = "idle"
  BY <1>1 DEF Backfill!Init, Backfill!Idle
<1>6. {"rows", "got"} \subseteq DOMAIN v8 /\ Backfill!IsListing(v8.got) /\ v8.rows \subseteq DOMAIN v8.got
  BY <1>1 DEF Backfill!Init, Backfill!ViewIdle
<1>7. Backfill!Shapes
  <2>1. Backfill!Tables
    BY <1>2, <1>3 DEF Backfill!Tables
  <2>2. Backfill!Passing
    BY <1>4 DEF Backfill!Passing, Backfill!Unlisted
  <2>3. Backfill!Asking /\ Backfill!Viewing
    BY <1>2, <1>5, <1>6 DEF Backfill!Asking, Backfill!Viewing
  <2> QED
    BY <2>1, <2>2, <2>3 DEF Backfill!Shapes
<1>8. Backfill!SeasonsOnlyGrow /\ Backfill!PassesMeet /\ Backfill!AskedWaits
  BY <1>2, <1>3, <1>4, <1>5 DEF Backfill!SeasonsOnlyGrow, Backfill!PassesMeet, Backfill!AskedWaits
<1>9. Backfill!WholeSoFar
  BY <1>4 DEF Backfill!WholeSoFar, Backfill!Told
<1> QED
  BY <1>7, <1>8, <1>9 DEF Backfill!BackfillInv

\* What a statement writes.
LEMMA BatchIsWritten ==
  ASSUME Backfill!Shapes, NEW b, Backfill!IsListing(b), Backfill!EnsureEpisodeLibraryItemsBatch(b)
  PROVE  /\ v3' \in [BackfillEpisodes -> [item : {"none", "row", "pending", "taken"}, date : Nat]]
         /\ \A e \in BackfillEpisodes \ Backfill!Input(b) : v3'[e] = v3[e]
         /\ \A e \in Backfill!Input(b) : /\ v3'[e].item \in {"pending", "taken"}
                                         /\ v3'[e].date = IF b[e] # Backfill!Undated THEN b[e] ELSE v3[e].date
         /\ Backfill!Input(b) \subseteq DOMAIN b /\ Backfill!Created(b) \subseteq BackfillEpisodes
<1>1. Backfill!Input(b) \subseteq DOMAIN b /\ DOMAIN b \subseteq BackfillEpisodes /\ Backfill!Created(b) \subseteq Backfill!Input(b)
  BY DEF Backfill!Input, Backfill!Created, Backfill!IsListing
<1> DEFINE w(e) == [item |-> IF e \in Backfill!Created(b) THEN "pending" ELSE v3[e].item,
                    date |-> IF b[e] # Backfill!Undated THEN b[e] ELSE v3[e].date]
<1>2. v3' = [e \in BackfillEpisodes |-> IF e \notin Backfill!Input(b) THEN v3[e] ELSE w(e)]
  BY DEF Backfill!EnsureEpisodeLibraryItemsBatch
<1>3. ASSUME NEW e \in BackfillEpisodes, e \in Backfill!Input(b)
      PROVE  /\ w(e) \in [item : {"none", "row", "pending", "taken"}, date : Nat] /\ w(e).item \in {"pending", "taken"}
             /\ w(e).date = IF b[e] # Backfill!Undated THEN b[e] ELSE v3[e].date
  <2>1. b[e] \in Nat /\ v3[e] \in [item : {"none", "row", "pending", "taken"}, date : Nat]
    BY <1>1, <1>3 DEF Backfill!IsListing, Backfill!Shapes, Backfill!Tables
  <2>2. e \notin Backfill!Created(b) => v3[e].item \in {"pending", "taken"}
    BY <1>3, <2>1 DEF Backfill!Created
  <2> QED
    BY <2>1, <2>2
<1> HIDE DEF w
<1>4. \A e \in BackfillEpisodes : v3'[e] = IF e \notin Backfill!Input(b) THEN v3[e] ELSE w(e)
  BY <1>2
<1>5. \A e \in BackfillEpisodes : v3[e] \in [item : {"none", "row", "pending", "taken"}, date : Nat]
  BY DEF Backfill!Shapes, Backfill!Tables
<1>6. v3' \in [BackfillEpisodes -> [item : {"none", "row", "pending", "taken"}, date : Nat]]
  BY <1>2, <1>3, <1>5
<1> QED
  BY <1>1, <1>3, <1>4, <1>6

\* A pass keeps what it has done while others date what has none, and take what waits.
LEMMA FillStaysWhole ==
  ASSUME Backfill!Shapes, Backfill!WholeSoFar, v6'.pc = v6.pc, v6'.got = v6.got, v6'.read = v6.read,
         v6'.known = v6.known, v6'.flawed = v6.flawed, v6'.met \in BOOLEAN, v6.met => v6'.met,
         v2'.here => v2.here,
         v2'.here => \A e \in BackfillEpisodes :
           /\ v3[e].item \in {"pending", "taken"} => v3'[e].item \in {"pending", "taken"}
           /\ v3[e].date >= 1 => v3'[e].date >= (IF v6'.met THEN 1 ELSE v3[e].date),
         \A e \in BackfillEpisodes : v3'[e].date \in Nat
  PROVE  Backfill!WholeSoFar'
<1>1. Backfill!Due' = Backfill!Due
  BY DEF Backfill!Due, Backfill!Part
<1>2. ASSUME NEW e \in BackfillEpisodes, v2'.here, Backfill!Told(e), Backfill!Kept(e) PROVE Backfill!Kept(e)'
  <2>1. v6.read[e] \in Int /\ v6.read[e] >= Backfill!Unlisted /\ v3[e].date \in Nat /\ v3'[e].date \in Nat /\ v6.met \in BOOLEAN
    BY DEF Backfill!Shapes, Backfill!Tables, Backfill!Passing
  <2> DEFINE r == v6.read[e]
             d == v3[e].date
             n == v3'[e].date
  <2>2. v3'[e].item \in {"pending", "taken"}
    BY <1>2 DEF Backfill!Kept
  <2>3. ASSUME r # Backfill!Undated PROVE n >= (IF v6'.met THEN 1 ELSE r)
    <3>1. r >= 1 /\ d >= (IF v6.met THEN 1 ELSE r)
      BY <1>2, <2>1, <2>3 DEF Backfill!Kept, Backfill!Told, Backfill!Undated, Backfill!Unlisted
    <3>2. d >= 1
      BY <2>1, <3>1
    <3>3. n >= (IF v6'.met THEN 1 ELSE d)
      BY <1>2, <3>2
    <3> HIDE DEF r, d, n
    <3>4. r \in Int /\ d \in Nat /\ n \in Nat
      BY <2>1 DEF r, d, n
    <3> QED
      BY <2>1, <3>1, <3>3, <3>4
  <2> QED
    BY <2>2, <2>3 DEF Backfill!Kept
<1>3. \A e \in BackfillEpisodes : Backfill!Told(e)' <=> Backfill!Told(e)
  BY DEF Backfill!Told
<1> QED
  BY <1>1, <1>2, <1>3 DEF Backfill!WholeSoFar

\* A pass begins: it was told nothing yet.
LEMMA FillBegins == ASSUME Backfill!BackfillInv, Backfill!FillStart PROVE Backfill!BackfillInv'
<1> DEFINE met == v7.pc # "idle"
           x == [Backfill!FillIdle EXCEPT !.pc = "season", !.todo = Backfill!TVSeasonNumbers, !.known = v2.seasons, !.met = met]
<1>1. v2.seasons \in Nat /\ met \in BOOLEAN
  BY DEF Backfill!BackfillInv, Backfill!Shapes, Backfill!Tables
<1>2. Backfill!IsListing(Backfill!Nothing)
  BY DEF Backfill!IsListing, Backfill!Nothing
<1>3. /\ {"pc", "todo", "got", "made", "read", "known", "flawed", "met"} \subseteq DOMAIN x
      /\ Backfill!IsListing(x.got) /\ x.known = v2.seasons /\ x.flawed \in BOOLEAN /\ x.met = met /\ x.pc = "season"
      /\ x.read \in [BackfillEpisodes -> Int] /\ \A e \in BackfillEpisodes : x.read[e] = Backfill!Unlisted /\ x.read[e] >= Backfill!Unlisted
  BY <1>2 DEF Backfill!FillIdle, Backfill!Unread, Backfill!Unlisted
<1>4. v6' = x /\ UNCHANGED <<v1, v2, v3, v4, v5, v7, v8, v9>>
  BY DEF Backfill!FillStart
<1> HIDE DEF x
<1>5. Backfill!Shapes'
  <2>1. Backfill!Passing'
    BY <1>1, <1>3, <1>4 DEF Backfill!Passing
  <2>2. (Backfill!Tables /\ Backfill!Asking /\ Backfill!Viewing)'
    BY <1>4 DEF Backfill!BackfillInv, Backfill!Shapes, Backfill!Tables, Backfill!Asking, Backfill!Viewing
  <2> QED
    BY <2>1, <2>2 DEF Backfill!Shapes
<1>6. Backfill!SeasonsOnlyGrow'
  <2>1. Backfill!Cardinality(Backfill!TVSeasonNumbers)' = Backfill!Cardinality(Backfill!TVSeasonNumbers)
    BY <1>4 DEF Backfill!TVSeasonNumbers, Backfill!Listed
  <2> QED
    BY <1>1, <1>3, <1>4, <2>1 DEF Backfill!BackfillInv, Backfill!SeasonsOnlyGrow
<1>7. Backfill!PassesMeet' /\ Backfill!AskedWaits'
  BY <1>3, <1>4 DEF Backfill!BackfillInv, Backfill!PassesMeet, Backfill!AskedWaits
<1>8. Backfill!WholeSoFar'
  BY <1>3, <1>4 DEF Backfill!WholeSoFar, Backfill!Told
<1> QED
  BY <1>5, <1>6, <1>7, <1>8 DEF Backfill!BackfillInv

\* What a step of the pass leaves alone.
LEMMA FillMoves ==
  ASSUME Backfill!BackfillInv, NEW x, v6' = x, UNCHANGED <<v1, v2, v5, v7, v8, v9>>,
         {"pc", "todo", "got", "made", "read", "known", "flawed", "met"} \subseteq DOMAIN x,
         Backfill!IsListing(x.got), x.known = v6.known, x.flawed \in BOOLEAN, x.met = v6.met,
         x.read \in [BackfillEpisodes -> Int], \A e \in BackfillEpisodes : x.read[e] >= Backfill!Unlisted,
         v3' \in [BackfillEpisodes -> [item : {"none", "row", "pending", "taken"}, date : Nat]],
         v4' \in [BackfillEpisodes -> {"none", "now", "later", "active"}],
         \A e \in BackfillEpisodes : v4[e] \in {"now", "later"} => v4'[e] = v4[e],
         Backfill!WholeSoFar'
  PROVE  Backfill!BackfillInv'
<1>1. Backfill!Passing'
  BY DEF Backfill!BackfillInv, Backfill!Shapes, Backfill!Passing
<1>2. (Backfill!Tables /\ Backfill!Asking /\ Backfill!Viewing)'
  BY DEF Backfill!BackfillInv, Backfill!Shapes, Backfill!Tables, Backfill!Asking, Backfill!Viewing
<1>3. Backfill!SeasonsOnlyGrow'
  <2>1. Backfill!Cardinality(Backfill!TVSeasonNumbers)' = Backfill!Cardinality(Backfill!TVSeasonNumbers)
    BY DEF Backfill!TVSeasonNumbers, Backfill!Listed
  <2> QED
    BY <2>1 DEF Backfill!BackfillInv, Backfill!SeasonsOnlyGrow
<1>4. Backfill!PassesMeet' /\ Backfill!AskedWaits'
  BY DEF Backfill!BackfillInv, Backfill!Shapes, Backfill!Tables, Backfill!PassesMeet, Backfill!AskedWaits
<1> QED
  BY <1>1, <1>2, <1>3, <1>4 DEF Backfill!BackfillInv, Backfill!Shapes

\* It reads a season, or is past the last.
LEMMA FillReads == ASSUME Backfill!BackfillInv, Backfill!FillRead PROVE Backfill!BackfillInv'
<1> DEFINE s == Backfill!Lowest(v6.todo)
           rest == v6.todo \ {s}
           b == Backfill!Listed(s)
           heard == [e \in BackfillEpisodes |-> IF e \in DOMAIN b THEN b[e] ELSE v6.read[e]]
<1>0. UNCHANGED <<v1, v2, v5, v7, v8, v9>> /\ UNCHANGED <<v3, v4>> /\ v6.pc = "season"
  BY DEF Backfill!FillRead
<1>1. /\ {"pc", "todo", "got", "made", "read", "known", "flawed", "met"} \subseteq DOMAIN v6
      /\ Backfill!IsListing(v6.got) /\ v6.known \in Nat /\ v6.flawed \in BOOLEAN /\ v6.met \in BOOLEAN
      /\ v6.read \in [BackfillEpisodes -> Int] /\ \A e \in BackfillEpisodes : v6.read[e] >= Backfill!Unlisted
  BY DEF Backfill!BackfillInv, Backfill!Shapes, Backfill!Passing
<1>2. /\ v3 \in [BackfillEpisodes -> [item : {"none", "row", "pending", "taken"}, date : Nat]]
      /\ v4 \in [BackfillEpisodes -> {"none", "now", "later", "active"}]
      /\ v1 \in [BackfillEpisodes -> Int] /\ \A e \in BackfillEpisodes : v1[e] >= Backfill!Unlisted
  BY DEF Backfill!BackfillInv, Backfill!Shapes, Backfill!Tables
<1>3. ~v6.flawed /\ v2.here => \A e \in BackfillEpisodes : Backfill!Told(e) => Backfill!Kept(e)
  <2>1. Backfill!Due = {}
    BY <1>0 DEF Backfill!Due
  <2> QED
    BY <2>1 DEF Backfill!BackfillInv, Backfill!WholeSoFar
<1>4. Backfill!IsListing(b) /\ \A e \in DOMAIN b : b[e] = v1[e]
  BY SeasonIsRead DEF Backfill!BackfillInv
<1>5. DOMAIN b \subseteq BackfillEpisodes
  BY <1>4 DEF Backfill!IsListing
<1>6. \/ v6' = [v6 EXCEPT !.pc = "push"]
      \/ v6' = [v6 EXCEPT !.todo = rest, !.flawed = TRUE]
      \/ v6' = [v6 EXCEPT !.todo = rest, !.pc = "recent", !.got = b, !.read = heard]
  BY DEF Backfill!FillRead
<1> HIDE DEF s, rest, b
<1>7. CASE v6' = [v6 EXCEPT !.pc = "push"] \/ v6' = [v6 EXCEPT !.todo = rest, !.flawed = TRUE]
  <2>1. /\ {"pc", "todo", "got", "made", "read", "known", "flawed", "met"} \subseteq DOMAIN v6'
        /\ v6'.got = v6.got /\ v6'.read = v6.read /\ v6'.known = v6.known /\ v6'.met = v6.met
        /\ v6'.flawed \in BOOLEAN /\ v6'.pc \in {"push", "season"} /\ (v6'.flawed = v6.flawed \/ v6'.flawed)
    BY <1>0, <1>1, <1>7
  <2>2. Backfill!WholeSoFar'
    BY <1>0, <1>3, <2>1 DEF Backfill!WholeSoFar, Backfill!Told, Backfill!Kept
  <2> QED
    BY <1>0, <1>1, <1>2, <2>1, <2>2, FillMoves
<1>8. CASE v6' = [v6 EXCEPT !.todo = rest, !.pc = "recent", !.got = b, !.read = heard]
  <2> DEFINE x == [v6 EXCEPT !.todo = rest, !.pc = "recent", !.got = b, !.read = heard]
  <2>1. /\ heard \in [BackfillEpisodes -> Int]
        /\ \A e \in BackfillEpisodes : heard[e] = (IF e \in DOMAIN b THEN b[e] ELSE v6.read[e]) /\ heard[e] >= Backfill!Unlisted
    BY <1>1, <1>2, <1>4
  <2> HIDE DEF heard
  <2>2. /\ {"pc", "todo", "got", "made", "read", "known", "flawed", "met"} \subseteq DOMAIN x
        /\ x.got = b /\ x.read = heard /\ x.known = v6.known /\ x.met = v6.met /\ x.flawed = v6.flawed /\ x.pc = "recent"
    BY <1>1
  <2>3. v6' = x
    BY <1>8
  <2> HIDE DEF x
  <2>4. Backfill!Due' = DOMAIN b
    BY <2>2, <2>3 DEF Backfill!Due
  <2>5. Backfill!WholeSoFar'
    <3>1. \A e \in DOMAIN b : b[e] = heard[e]
      BY <1>5, <2>1
    <3>2. ASSUME ~v6.flawed, v2.here, NEW e \in BackfillEpisodes, e \notin DOMAIN b, Backfill!Told(e)' PROVE Backfill!Kept(e)'
      <4>1. heard[e] = v6.read[e]
        BY <2>1, <3>2
      <4>2. Backfill!Kept(e)
        BY <1>3, <2>2, <2>3, <3>2, <4>1 DEF Backfill!Told
      <4> QED
        BY <1>0, <2>2, <2>3, <4>1, <4>2 DEF Backfill!Kept
    <3> QED
      BY <1>0, <2>2, <2>3, <2>4, <3>1, <3>2 DEF Backfill!WholeSoFar
  <2> QED
    BY <1>0, <1>1, <1>2, <1>4, <2>1, <2>2, <2>3, <2>5, FillMoves
<1> QED
  BY <1>6, <1>7, <1>8

\* What it writes of what it was told is kept.
LEMMA WrittenIsKept ==
  ASSUME Backfill!BackfillInv, NEW b, Backfill!IsListing(b), Backfill!EnsureEpisodeLibraryItemsBatch(b), v2' = v2,
         v6'.read = v6.read, v6'.known = v6.known, v6'.met = v6.met, v6'.flawed = v6.flawed,
         \A e \in DOMAIN b : b[e] = v6.read[e], Backfill!Due \subseteq Backfill!Due' \cup DOMAIN b,
         v6'.pc \in {"recent", "older"} => \A e \in DOMAIN v6'.got : v6'.got[e] = v6'.read[e]
  PROVE  Backfill!WholeSoFar'
<1>1. ASSUME ~v6.flawed, v2.here, NEW e \in BackfillEpisodes, e \notin Backfill!Due', Backfill!Told(e) PROVE Backfill!Kept(e)'
  <2>1. CASE e \in DOMAIN b
    <3>1. Backfill!Season(e) \in Nat /\ v6.known \in Nat /\ v2.seasons \in Nat /\ v6.known <= v2.seasons
      BY SeasonsAreNumbers DEF Backfill!BackfillInv, Backfill!Shapes, Backfill!Tables, Backfill!Passing, Backfill!SeasonsOnlyGrow
    <3>2. Backfill!Season(e) <= v2.seasons + 1
      BY <1>1, <3>1 DEF Backfill!Told
    <3>3. e \in Backfill!Input(b)
      BY <1>1, <2>1, <3>2 DEF Backfill!Input
    <3>4. v3'[e].item \in {"pending", "taken"} /\ v3'[e].date = IF b[e] # Backfill!Undated THEN b[e] ELSE v3[e].date
      BY <3>3, BatchIsWritten DEF Backfill!BackfillInv
    <3>5. b[e] \in Nat /\ b[e] = v6.read[e] /\ v6.met \in BOOLEAN
      BY <2>1 DEF Backfill!IsListing, Backfill!BackfillInv, Backfill!Shapes, Backfill!Passing
    <3> QED
      BY <3>4, <3>5 DEF Backfill!Kept, Backfill!Undated
  <2>2. CASE e \notin DOMAIN b
    <3>1. Backfill!Kept(e)
      BY <1>1, <2>2 DEF Backfill!BackfillInv, Backfill!WholeSoFar
    <3>2. v3'[e] = v3[e]
      BY <2>2, BatchIsWritten DEF Backfill!BackfillInv
    <3> QED
      BY <3>1, <3>2 DEF Backfill!Kept
  <2> QED
    BY <2>1, <2>2
<1> QED
  BY <1>1 DEF Backfill!WholeSoFar, Backfill!Told

\* It writes the recent episodes.
LEMMA FillWritesRecent == ASSUME Backfill!BackfillInv, Backfill!FillRecent PROVE Backfill!BackfillInv'
<1> DEFINE b == Backfill!Part(TRUE)
           made == v6.made \cup Backfill!Created(b)
<1>0. UNCHANGED <<v1, v2, v5, v7, v8, v9>> /\ UNCHANGED v4 /\ v6.pc = "recent"
  BY DEF Backfill!FillRecent
<1>1. /\ {"pc", "todo", "got", "made", "read", "known", "flawed", "met"} \subseteq DOMAIN v6
      /\ Backfill!IsListing(v6.got) /\ v6.known \in Nat /\ v6.flawed \in BOOLEAN /\ v6.met \in BOOLEAN
      /\ v6.read \in [BackfillEpisodes -> Int] /\ \A e \in BackfillEpisodes : v6.read[e] >= Backfill!Unlisted
  BY DEF Backfill!BackfillInv, Backfill!Shapes, Backfill!Passing
<1>2. /\ v3 \in [BackfillEpisodes -> [item : {"none", "row", "pending", "taken"}, date : Nat]]
      /\ v4 \in [BackfillEpisodes -> {"none", "now", "later", "active"}]
  BY DEF Backfill!BackfillInv, Backfill!Shapes, Backfill!Tables
<1>3. \A e \in DOMAIN v6.got : v6.got[e] = v6.read[e]
  BY <1>0 DEF Backfill!BackfillInv, Backfill!WholeSoFar
<1>4. Backfill!IsListing(b) /\ DOMAIN b = {e \in DOMAIN v6.got : v6.got[e] \in Backfill!Recent} /\ \A e \in DOMAIN b : b[e] = v6.read[e]
  BY <1>1, <1>3 DEF Backfill!Part, Backfill!IsListing
<1>5. \/ Backfill!EnsureEpisodeLibraryItemsBatch(b) /\ v6' = [v6 EXCEPT !.pc = "older", !.made = made]
      \/ UNCHANGED v3 /\ v6' = [v6 EXCEPT !.pc = "older", !.flawed = TRUE]
  BY DEF Backfill!FillRecent
<1> HIDE DEF b, made
<1>6. CASE Backfill!EnsureEpisodeLibraryItemsBatch(b) /\ v6' = [v6 EXCEPT !.pc = "older", !.made = made]
  <2>1. /\ {"pc", "todo", "got", "made", "read", "known", "flawed", "met"} \subseteq DOMAIN v6'
        /\ v6'.got = v6.got /\ v6'.read = v6.read /\ v6'.known = v6.known /\ v6'.met = v6.met
        /\ v6'.flawed = v6.flawed /\ v6'.pc = "older"
    BY <1>1, <1>6
  <2>2. Backfill!Due = DOMAIN v6.got /\ Backfill!Due' = {e \in DOMAIN v6.got : v6.got[e] \notin Backfill!Recent}
    BY <1>0, <2>1 DEF Backfill!Due, Backfill!Part
  <2>3. Backfill!WholeSoFar'
    BY <1>0, <1>3, <1>4, <1>6, <2>1, <2>2, WrittenIsKept
  <2>4. v3' \in [BackfillEpisodes -> [item : {"none", "row", "pending", "taken"}, date : Nat]]
    BY <1>4, <1>6, BatchIsWritten DEF Backfill!BackfillInv
  <2> QED
    BY <1>0, <1>1, <1>2, <2>1, <2>3, <2>4, FillMoves
<1>7. CASE UNCHANGED v3 /\ v6' = [v6 EXCEPT !.pc = "older", !.flawed = TRUE]
  <2>1. /\ {"pc", "todo", "got", "made", "read", "known", "flawed", "met"} \subseteq DOMAIN v6'
        /\ v6'.got = v6.got /\ v6'.read = v6.read /\ v6'.known = v6.known /\ v6'.met = v6.met
        /\ v6'.flawed /\ v6'.flawed \in BOOLEAN /\ v6'.pc = "older"
    BY <1>1, <1>7
  <2>2. Backfill!WholeSoFar'
    BY <1>3, <2>1 DEF Backfill!WholeSoFar
  <2> QED
    BY <1>0, <1>1, <1>2, <1>7, <2>1, <2>2, FillMoves
<1> QED
  BY <1>5, <1>6, <1>7

\* It writes the older ones, and is through with the season.
LEMMA FillWritesOlder == ASSUME Backfill!BackfillInv, Backfill!FillOlder PROVE Backfill!BackfillInv'
<1> DEFINE b == Backfill!Part(FALSE)
<1>0. UNCHANGED <<v1, v2, v5, v7, v8, v9>> /\ UNCHANGED v4 /\ v6.pc = "older"
  BY DEF Backfill!FillOlder
<1>1. /\ {"pc", "todo", "got", "made", "read", "known", "flawed", "met"} \subseteq DOMAIN v6
      /\ Backfill!IsListing(v6.got) /\ v6.known \in Nat /\ v6.flawed \in BOOLEAN /\ v6.met \in BOOLEAN
      /\ v6.read \in [BackfillEpisodes -> Int] /\ \A e \in BackfillEpisodes : v6.read[e] >= Backfill!Unlisted
  BY DEF Backfill!BackfillInv, Backfill!Shapes, Backfill!Passing
<1>2. /\ v3 \in [BackfillEpisodes -> [item : {"none", "row", "pending", "taken"}, date : Nat]]
      /\ v4 \in [BackfillEpisodes -> {"none", "now", "later", "active"}]
  BY DEF Backfill!BackfillInv, Backfill!Shapes, Backfill!Tables
<1>3. \A e \in DOMAIN v6.got : v6.got[e] = v6.read[e]
  BY <1>0 DEF Backfill!BackfillInv, Backfill!WholeSoFar
<1>4. Backfill!IsListing(b) /\ \A e \in DOMAIN b : b[e] = v6.read[e]
  BY <1>1, <1>3 DEF Backfill!Part, Backfill!IsListing
<1>5. Backfill!Due = DOMAIN b
  BY <1>0 DEF Backfill!Due
<1>6. \/ Backfill!EnsureEpisodeLibraryItemsBatch(b) /\ v6' = [v6 EXCEPT !.pc = "season", !.got = Backfill!Nothing]
      \/ UNCHANGED v3 /\ v6' = [v6 EXCEPT !.pc = "season", !.got = Backfill!Nothing, !.flawed = TRUE]
  BY DEF Backfill!FillOlder
<1>7. Backfill!IsListing(Backfill!Nothing)
  BY DEF Backfill!IsListing, Backfill!Nothing
<1> HIDE DEF b
<1>8. CASE Backfill!EnsureEpisodeLibraryItemsBatch(b) /\ v6' = [v6 EXCEPT !.pc = "season", !.got = Backfill!Nothing]
  <2>1. /\ {"pc", "todo", "got", "made", "read", "known", "flawed", "met"} \subseteq DOMAIN v6'
        /\ v6'.got = Backfill!Nothing /\ v6'.read = v6.read /\ v6'.known = v6.known /\ v6'.met = v6.met
        /\ v6'.flawed = v6.flawed /\ v6'.pc = "season"
    BY <1>1, <1>8
  <2>2. Backfill!WholeSoFar'
    BY <1>0, <1>4, <1>5, <1>8, <2>1, WrittenIsKept
  <2>3. v3' \in [BackfillEpisodes -> [item : {"none", "row", "pending", "taken"}, date : Nat]]
    BY <1>4, <1>8, BatchIsWritten DEF Backfill!BackfillInv
  <2> QED
    BY <1>0, <1>1, <1>2, <1>7, <2>1, <2>2, <2>3, FillMoves
<1>9. CASE UNCHANGED v3 /\ v6' = [v6 EXCEPT !.pc = "season", !.got = Backfill!Nothing, !.flawed = TRUE]
  <2>1. /\ {"pc", "todo", "got", "made", "read", "known", "flawed", "met"} \subseteq DOMAIN v6'
        /\ v6'.got = Backfill!Nothing /\ v6'.read = v6.read /\ v6'.known = v6.known /\ v6'.met = v6.met
        /\ v6'.flawed /\ v6'.flawed \in BOOLEAN /\ v6'.pc = "season"
    BY <1>1, <1>9
  <2>2. Backfill!WholeSoFar'
    BY <2>1 DEF Backfill!WholeSoFar
  <2> QED
    BY <1>0, <1>1, <1>2, <1>7, <1>9, <2>1, <2>2, FillMoves
<1> QED
  BY <1>6, <1>8, <1>9

\* Whoever pushes takes no job away.
LEMMA PushTakesNone ==
  ASSUME Backfill!Shapes, NEW S, NEW p \in {"now", "later"}, Backfill!Push(S, p)
  PROVE  /\ v4' \in [BackfillEpisodes -> {"none", "now", "later", "active"}]
         /\ \A e \in BackfillEpisodes : v4'[e] = IF e \in S /\ v4[e] = "none" THEN p ELSE v4[e]
BY DEF Backfill!Shapes, Backfill!Tables, Backfill!Push

\* It tells the queue, and is done.
LEMMA FillPushes == ASSUME Backfill!BackfillInv, Backfill!FillPush PROVE Backfill!BackfillInv'
<1>0. UNCHANGED <<v1, v2, v5, v7, v8, v9>> /\ UNCHANGED v3 /\ v6.pc = "push"
      /\ v6' = [v6 EXCEPT !.pc = "done", !.made = {}]
  BY DEF Backfill!FillPush
<1>1. /\ {"pc", "todo", "got", "made", "read", "known", "flawed", "met"} \subseteq DOMAIN v6
      /\ Backfill!IsListing(v6.got) /\ v6.known \in Nat /\ v6.flawed \in BOOLEAN /\ v6.met \in BOOLEAN
      /\ v6.read \in [BackfillEpisodes -> Int] /\ \A e \in BackfillEpisodes : v6.read[e] >= Backfill!Unlisted
  BY DEF Backfill!BackfillInv, Backfill!Shapes, Backfill!Passing
<1>2. v3 \in [BackfillEpisodes -> [item : {"none", "row", "pending", "taken"}, date : Nat]]
  BY DEF Backfill!BackfillInv, Backfill!Shapes, Backfill!Tables
<1>3. v4' \in [BackfillEpisodes -> {"none", "now", "later", "active"}]
      /\ \A e \in BackfillEpisodes : v4[e] \in {"now", "later"} => v4'[e] = v4[e]
  <2>1. PICK p \in {"now", "later"} : p = "later"
    OBVIOUS
  <2>2. Backfill!Push(v6.made, p) \/ v4' = v4
    BY <2>1 DEF Backfill!FillPush
  <2>3. CASE v4' = v4
    BY <2>3 DEF Backfill!BackfillInv, Backfill!Shapes, Backfill!Tables
  <2>4. CASE Backfill!Push(v6.made, p)
    BY <2>4, PushTakesNone DEF Backfill!BackfillInv
  <2> QED
    BY <2>2, <2>3, <2>4
<1>4. /\ {"pc", "todo", "got", "made", "read", "known", "flawed", "met"} \subseteq DOMAIN v6'
      /\ v6'.got = v6.got /\ v6'.read = v6.read /\ v6'.known = v6.known /\ v6'.met = v6.met
      /\ v6'.flawed = v6.flawed /\ v6'.pc = "done"
  BY <1>0, <1>1
<1>5. Backfill!WholeSoFar'
  <2>1. Backfill!Due = {} /\ Backfill!Due' = {}
    BY <1>0, <1>4 DEF Backfill!Due
  <2>2. \A e \in BackfillEpisodes : (Backfill!Told(e)' <=> Backfill!Told(e)) /\ (Backfill!Kept(e)' <=> Backfill!Kept(e))
    BY <1>0, <1>4 DEF Backfill!Told, Backfill!Kept
  <2> QED
    BY <1>0, <1>4, <2>1, <2>2 DEF Backfill!WholeSoFar, Backfill!BackfillInv
<1> QED
  BY <1>0, <1>1, <1>2, <1>3, <1>4, <1>5, FillMoves

\* The others leave the pass alone, or tell it that they have met.
LEMMA FillWaits ==
  ASSUME Backfill!BackfillInv, UNCHANGED <<v1, v2>>, v6' = v6 \/ v6' = [v6 EXCEPT !.met = TRUE],
         (Backfill!Tables /\ Backfill!Asking /\ Backfill!Viewing)', Backfill!PassesMeet', Backfill!AskedWaits',
         \A e \in BackfillEpisodes :
           /\ v3[e].item \in {"pending", "taken"} => v3'[e].item \in {"pending", "taken"}
           /\ v3[e].date >= 1 => v3'[e].date >= (IF v6'.met THEN 1 ELSE v3[e].date)
  PROVE  Backfill!BackfillInv'
<1>1. /\ {"pc", "todo", "got", "made", "read", "known", "flawed", "met"} \subseteq DOMAIN v6
      /\ Backfill!IsListing(v6.got) /\ v6.known \in Nat /\ v6.flawed \in BOOLEAN /\ v6.met \in BOOLEAN
      /\ v6.read \in [BackfillEpisodes -> Int] /\ \A e \in BackfillEpisodes : v6.read[e] >= Backfill!Unlisted
  BY DEF Backfill!BackfillInv, Backfill!Shapes, Backfill!Passing
<1>2. /\ {"pc", "todo", "got", "made", "read", "known", "flawed", "met"} \subseteq DOMAIN v6'
      /\ v6'.pc = v6.pc /\ v6'.got = v6.got /\ v6'.read = v6.read /\ v6'.known = v6.known
      /\ v6'.flawed = v6.flawed /\ v6'.met \in BOOLEAN /\ (v6.met => v6'.met)
  BY <1>1
<1>3. Backfill!Passing'
  BY <1>1, <1>2 DEF Backfill!Passing
<1>4. Backfill!SeasonsOnlyGrow'
  <2>1. Backfill!Cardinality(Backfill!TVSeasonNumbers)' = Backfill!Cardinality(Backfill!TVSeasonNumbers)
    BY DEF Backfill!TVSeasonNumbers, Backfill!Listed
  <2> QED
    BY <1>2, <2>1 DEF Backfill!BackfillInv, Backfill!SeasonsOnlyGrow
<1>5. Backfill!WholeSoFar'
  <2>1. \A e \in BackfillEpisodes : v3'[e].date \in Nat
    BY DEF Backfill!Tables
  <2> QED
    BY <1>2, <2>1, FillStaysWhole DEF Backfill!BackfillInv
<1> QED
  BY <1>3, <1>4, <1>5 DEF Backfill!BackfillInv, Backfill!Shapes

\* TMDB grows, the row of the show is written anew, and the show goes.
LEMMA ListGrows == ASSUME Backfill!BackfillInv, NEW e \in BackfillEpisodes, Backfill!Announce(e) PROVE Backfill!BackfillInv'
<1>1. UNCHANGED <<v2, v3, v4, v5, v6, v7, v8, v9>>
  BY DEF Backfill!Announce
<1>2. v1 \in [BackfillEpisodes -> Int] /\ \A f \in BackfillEpisodes : v1[f] >= Backfill!Unlisted
  BY DEF Backfill!BackfillInv, Backfill!Shapes, Backfill!Tables
<1>3. PICK d \in v1[e] + 1 .. BackfillDates : v1' = [v1 EXCEPT ![e] = d]
  BY DEF Backfill!Announce
<1>4. d \in Int /\ d > Backfill!Unlisted
  BY <1>2, <1>3, BackfillAssumption DEF Backfill!Unlisted
<1>5. v1' \in [BackfillEpisodes -> Int]
      /\ \A f \in BackfillEpisodes : v1'[f] >= Backfill!Unlisted /\ (v1[f] # Backfill!Unlisted => v1'[f] # Backfill!Unlisted)
  BY <1>2, <1>3, <1>4 DEF Backfill!Unlisted
<1>6. Backfill!Shapes'
  BY <1>1, <1>5 DEF Backfill!BackfillInv, Backfill!Shapes, Backfill!Tables, Backfill!Passing, Backfill!Asking, Backfill!Viewing
<1>7. Backfill!SeasonsOnlyGrow'
  <2>1. (Backfill!Cardinality(Backfill!TVSeasonNumbers) \in Nat)'
    BY SeasonsAreFinite, PTL
  <2>2. Backfill!Cardinality(Backfill!TVSeasonNumbers) \in Nat /\ Backfill!Cardinality(Backfill!TVSeasonNumbers)' \in Nat
    BY <2>1, SeasonsAreFinite, BackfillAssumption
  <2>3. Backfill!Cardinality(Backfill!TVSeasonNumbers) <= Backfill!Cardinality(Backfill!TVSeasonNumbers)'
    BY <1>5, SeasonsGrow
  <2>4. v2.seasons \in Nat /\ v2.seasons <= Backfill!Cardinality(Backfill!TVSeasonNumbers) /\ v6.known <= v2.seasons
    BY DEF Backfill!BackfillInv, Backfill!Shapes, Backfill!Tables, Backfill!SeasonsOnlyGrow
  <2> QED
    BY <1>1, <2>2, <2>3, <2>4 DEF Backfill!SeasonsOnlyGrow
<1>8. Backfill!WholeSoFar' /\ Backfill!PassesMeet' /\ Backfill!AskedWaits'
  <2>1. Backfill!Due' = Backfill!Due
        /\ \A f \in BackfillEpisodes : (Backfill!Told(f)' <=> Backfill!Told(f)) /\ (Backfill!Kept(f)' <=> Backfill!Kept(f))
    BY <1>1 DEF Backfill!Due, Backfill!Part, Backfill!Told, Backfill!Kept
  <2> QED
    BY <1>1, <2>1 DEF Backfill!BackfillInv, Backfill!WholeSoFar, Backfill!PassesMeet, Backfill!AskedWaits
<1> QED
  BY <1>6, <1>7, <1>8 DEF Backfill!BackfillInv

\* The row of the show is written anew, with TMDB's counts.
LEMMA ShowIsWritten == ASSUME Backfill!BackfillInv, Backfill!EnrichTVFull PROVE Backfill!BackfillInv'
<1>1. UNCHANGED <<v1, v3, v4, v5, v6, v7, v8, v9>> /\ v2' = Backfill!Counts /\ v2.here
  BY DEF Backfill!EnrichTVFull
<1>2. v2' \in [here : BOOLEAN, seasons : Nat, episodes : Nat] /\ v2'.seasons = Backfill!Cardinality(Backfill!TVSeasonNumbers)
  BY <1>1, SeasonsAreFinite DEF Backfill!Counts
<1>3. Backfill!Shapes'
  BY <1>1, <1>2 DEF Backfill!BackfillInv, Backfill!Shapes, Backfill!Tables, Backfill!Passing, Backfill!Asking, Backfill!Viewing
<1>4. Backfill!SeasonsOnlyGrow'
  <2>1. Backfill!Cardinality(Backfill!TVSeasonNumbers)' = Backfill!Cardinality(Backfill!TVSeasonNumbers)
        /\ Backfill!Cardinality(Backfill!TVSeasonNumbers) \in Nat
    BY <1>1, SeasonsAreFinite DEF Backfill!TVSeasonNumbers, Backfill!Listed
  <2>2. v6.known \in Nat /\ v2.seasons \in Nat /\ v6.known <= v2.seasons /\ v2.seasons <= Backfill!Cardinality(Backfill!TVSeasonNumbers)
    BY DEF Backfill!BackfillInv, Backfill!Shapes, Backfill!Tables, Backfill!Passing, Backfill!SeasonsOnlyGrow
  <2> QED
    BY <1>1, <1>2, <2>1, <2>2 DEF Backfill!SeasonsOnlyGrow
<1>5. Backfill!WholeSoFar' /\ Backfill!PassesMeet' /\ Backfill!AskedWaits'
  <2>1. Backfill!Due' = Backfill!Due
        /\ \A f \in BackfillEpisodes : (Backfill!Told(f)' <=> Backfill!Told(f)) /\ (Backfill!Kept(f)' <=> Backfill!Kept(f))
    BY <1>1 DEF Backfill!Due, Backfill!Part, Backfill!Told, Backfill!Kept
  <2> QED
    BY <1>1, <2>1 DEF Backfill!BackfillInv, Backfill!WholeSoFar, Backfill!PassesMeet, Backfill!AskedWaits
<1> QED
  BY <1>3, <1>4, <1>5 DEF Backfill!BackfillInv

\* The show is deleted.
LEMMA ShowGoes == ASSUME Backfill!BackfillInv, Backfill!DeleteShow PROVE Backfill!BackfillInv'
<1>1. UNCHANGED <<v1, v4, v5, v6, v7, v8>> /\ v9' = {}
  BY DEF Backfill!DeleteShow
<1>2. v2 \in [here : BOOLEAN, seasons : Nat, episodes : Nat]
  BY DEF Backfill!BackfillInv, Backfill!Shapes, Backfill!Tables
<1>3. v2' \in [here : BOOLEAN, seasons : Nat, episodes : Nat] /\ v2'.seasons = v2.seasons /\ ~v2'.here
  BY <1>2 DEF Backfill!DeleteShow
<1>4. v3' \in [BackfillEpisodes -> [item : {"none", "row", "pending", "taken"}, date : Nat]]
  BY DEF Backfill!DeleteShow, Backfill!Undated
<1>5. Backfill!Shapes'
  BY <1>1, <1>3, <1>4 DEF Backfill!BackfillInv, Backfill!Shapes, Backfill!Tables, Backfill!Passing, Backfill!Asking,
    Backfill!Viewing
<1>6. Backfill!SeasonsOnlyGrow'
  <2>1. Backfill!Cardinality(Backfill!TVSeasonNumbers)' = Backfill!Cardinality(Backfill!TVSeasonNumbers)
    BY <1>1 DEF Backfill!TVSeasonNumbers, Backfill!Listed
  <2> QED
    BY <1>1, <1>3, <2>1 DEF Backfill!BackfillInv, Backfill!SeasonsOnlyGrow
<1>7. Backfill!WholeSoFar' /\ Backfill!PassesMeet' /\ Backfill!AskedWaits'
  BY <1>1, <1>3 DEF Backfill!BackfillInv, Backfill!WholeSoFar, Backfill!PassesMeet, Backfill!AskedWaits
<1> QED
  BY <1>5, <1>6, <1>7 DEF Backfill!BackfillInv

\* The pass the user asks for: only its own record moves.
LEMMA AskMoves ==
  ASSUME Backfill!BackfillInv, UNCHANGED <<v1, v2, v3, v5, v8>>,
         v6' = [v6 EXCEPT !.met = TRUE] \/ (v6' = v6 /\ v7.pc # "idle"), NEW x, v7' = x,
         {"pc", "todo", "got", "made"} \subseteq DOMAIN x, Backfill!IsListing(x.got), x.made \subseteq BackfillEpisodes,
         x.pc \in {"remove", "push"} => x.todo \subseteq BackfillEpisodes,
         v4' \in [BackfillEpisodes -> {"none", "now", "later", "active"}], v9' \subseteq BackfillEpisodes, Backfill!AskedWaits'
  PROVE  Backfill!BackfillInv'
<1>1. (Backfill!Tables /\ Backfill!Asking /\ Backfill!Viewing)'
  BY DEF Backfill!BackfillInv, Backfill!Shapes, Backfill!Tables, Backfill!Asking, Backfill!Viewing
<1>2. {"pc", "todo", "got", "made", "read", "known", "flawed", "met"} \subseteq DOMAIN v6
      /\ v6.met \in BOOLEAN /\ \A e \in BackfillEpisodes : v3[e].date \in Nat
  BY DEF Backfill!BackfillInv, Backfill!Shapes, Backfill!Passing, Backfill!Tables
<1>3. v6'.met /\ (v6' = v6 \/ v6' = [v6 EXCEPT !.met = TRUE])
  BY <1>2 DEF Backfill!BackfillInv, Backfill!PassesMeet
<1>4. Backfill!PassesMeet'
  BY <1>3 DEF Backfill!PassesMeet
<1> QED
  BY <1>1, <1>2, <1>3, <1>4, FillWaits

\* It begins, and the other pass may meet it.
LEMMA AskBegins == ASSUME Backfill!BackfillInv, Backfill!AskStart PROVE Backfill!BackfillInv'
<1> DEFINE x == [Backfill!Idle EXCEPT !.pc = "season", !.todo = Backfill!TVSeasonNumbers]
<1>1. UNCHANGED <<v1, v2, v3, v4, v5, v8, v9>> /\ v6' = [v6 EXCEPT !.met = TRUE] /\ v7' = x /\ v7.pc = "idle"
  BY DEF Backfill!AskStart
<1>2. /\ {"pc", "todo", "got", "made"} \subseteq DOMAIN x /\ Backfill!IsListing(x.got) /\ x.made \subseteq BackfillEpisodes
      /\ x.pc = "season"
  BY DEF Backfill!Idle, Backfill!IsListing, Backfill!Nothing
<1> HIDE DEF x
<1>3. Backfill!AskedWaits'
  BY <1>1 DEF Backfill!BackfillInv, Backfill!AskedWaits
<1>4. v4 \in [BackfillEpisodes -> {"none", "now", "later", "active"}] /\ v9 \subseteq BackfillEpisodes
  BY DEF Backfill!BackfillInv, Backfill!Shapes, Backfill!Tables
<1> QED
  BY <1>1, <1>2, <1>3, <1>4, AskMoves

\* It reads a season, or is past the last.
LEMMA AskReads == ASSUME Backfill!BackfillInv, Backfill!AskRead PROVE Backfill!BackfillInv'
<1> DEFINE s == Backfill!Lowest(v7.todo)
           rest == v7.todo \ {s}
           b == Backfill!Listed(s)
<1>1. UNCHANGED <<v1, v2, v3, v4, v5, v6, v8, v9>> /\ v7.pc = "season"
  BY DEF Backfill!AskRead
<1>2. {"pc", "todo", "got", "made"} \subseteq DOMAIN v7 /\ Backfill!IsListing(v7.got) /\ v7.made \subseteq BackfillEpisodes
  BY DEF Backfill!BackfillInv, Backfill!Shapes, Backfill!Asking
<1>3. Backfill!IsListing(b)
  BY SeasonIsRead DEF Backfill!BackfillInv
<1>4. \/ v7' = [v7 EXCEPT !.pc = "list"]
      \/ v7' = [v7 EXCEPT !.todo = rest, !.pc = "write", !.got = b]
      \/ v7' = [v7 EXCEPT !.todo = rest]
  BY DEF Backfill!AskRead
<1> HIDE DEF s, rest, b
<1>5. /\ {"pc", "todo", "got", "made"} \subseteq DOMAIN v7' /\ Backfill!IsListing(v7'.got) /\ v7'.made \subseteq BackfillEpisodes
      /\ v7'.pc \in {"list", "write", "season"}
  BY <1>1, <1>2, <1>3, <1>4
<1>6. Backfill!AskedWaits'
  BY <1>1 DEF Backfill!BackfillInv, Backfill!AskedWaits
<1>7. v4 \in [BackfillEpisodes -> {"none", "now", "later", "active"}] /\ v9 \subseteq BackfillEpisodes
  BY DEF Backfill!BackfillInv, Backfill!Shapes, Backfill!Tables
<1> QED
  BY <1>1, <1>5, <1>6, <1>7, AskMoves

\* It writes what it was told, which may be older than what the other wrote.
LEMMA AskWrites == ASSUME Backfill!BackfillInv, Backfill!AskWrite PROVE Backfill!BackfillInv'
<1> DEFINE made == v7.made \cup Backfill!Created(v7.got)
           x == [v7 EXCEPT !.pc = "season", !.got = Backfill!Nothing, !.made = made]
           y == [v7 EXCEPT !.pc = "season", !.got = Backfill!Nothing]
<1>1. UNCHANGED <<v1, v2, v4, v5, v6, v8, v9>> /\ v7.pc = "write"
  BY DEF Backfill!AskWrite
<1>2. {"pc", "todo", "got", "made"} \subseteq DOMAIN v7 /\ Backfill!IsListing(v7.got) /\ v7.made \subseteq BackfillEpisodes
  BY DEF Backfill!BackfillInv, Backfill!Shapes, Backfill!Asking
<1>3. v4 \in [BackfillEpisodes -> {"none", "now", "later", "active"}] /\ v9 \subseteq BackfillEpisodes
      /\ v3 \in [BackfillEpisodes -> [item : {"none", "row", "pending", "taken"}, date : Nat]]
  BY DEF Backfill!BackfillInv, Backfill!Shapes, Backfill!Tables
<1>4. Backfill!IsListing(Backfill!Nothing)
  BY DEF Backfill!IsListing, Backfill!Nothing
<1>5. (Backfill!EnsureEpisodeLibraryItemsBatch(v7.got) /\ v7' = x) \/ (UNCHANGED v3 /\ v7' = y)
  BY DEF Backfill!AskWrite
<1>6. CASE Backfill!EnsureEpisodeLibraryItemsBatch(v7.got) /\ v7' = x
  <2>1. /\ v3' \in [BackfillEpisodes -> [item : {"none", "row", "pending", "taken"}, date : Nat]]
        /\ \A e \in BackfillEpisodes \ Backfill!Input(v7.got) : v3'[e] = v3[e]
        /\ \A e \in Backfill!Input(v7.got) : /\ v3'[e].item \in {"pending", "taken"}
                                             /\ v3'[e].date = IF v7.got[e] # Backfill!Undated THEN v7.got[e] ELSE v3[e].date
        /\ Backfill!Input(v7.got) \subseteq DOMAIN v7.got /\ made \subseteq BackfillEpisodes
    BY <1>2, <1>6, BatchIsWritten DEF Backfill!BackfillInv
  <2> HIDE DEF made
  <2>2. {"pc", "todo", "got", "made"} \subseteq DOMAIN x /\ Backfill!IsListing(x.got) /\ x.made \subseteq BackfillEpisodes /\ x.pc = "season"
    BY <1>2, <1>4, <2>1
  <2> HIDE DEF x
  <2>3. Backfill!AskedWaits' /\ Backfill!PassesMeet' /\ v6'.met
    BY <1>1, <1>6, <2>2 DEF Backfill!BackfillInv, Backfill!AskedWaits, Backfill!PassesMeet
  <2>4. (Backfill!Tables /\ Backfill!Asking /\ Backfill!Viewing)'
    BY <1>1, <1>6, <2>1, <2>2 DEF Backfill!BackfillInv, Backfill!Shapes, Backfill!Tables, Backfill!Asking, Backfill!Viewing
  <2>5. ASSUME NEW e \in BackfillEpisodes
        PROVE  /\ v3[e].item \in {"pending", "taken"} => v3'[e].item \in {"pending", "taken"}
               /\ v3[e].date >= 1 => v3'[e].date >= 1
    <3>1. CASE e \in Backfill!Input(v7.got)
      <4>1. v7.got[e] \in Nat
        BY <1>2, <2>1, <3>1 DEF Backfill!IsListing
      <4> QED
        BY <2>1, <3>1, <4>1 DEF Backfill!Undated
    <3>2. CASE e \notin Backfill!Input(v7.got)
      BY <2>1, <3>2
    <3> QED
      BY <3>1, <3>2
  <2> QED
    BY <1>1, <2>3, <2>4, <2>5, FillWaits
<1>7. CASE UNCHANGED v3 /\ v7' = y
  <2>1. {"pc", "todo", "got", "made"} \subseteq DOMAIN y /\ Backfill!IsListing(y.got) /\ y.made \subseteq BackfillEpisodes /\ y.pc = "season"
    BY <1>2, <1>4
  <2> HIDE DEF y, x, made
  <2>2. Backfill!AskedWaits'
    BY <1>1, <1>7, <2>1 DEF Backfill!BackfillInv, Backfill!AskedWaits
  <2> QED
    BY <1>1, <1>3, <1>7, <2>1, <2>2, AskMoves
<1> QED
  BY <1>5, <1>6, <1>7

\* It lists what waits for a release.
LEMMA AskLists == ASSUME Backfill!BackfillInv, Backfill!ListPendingTVShowLibraryItemIDs PROVE Backfill!BackfillInv'
<1> DEFINE ids == v7.made \cup {e \in BackfillEpisodes : v3[e].item = "pending"}
<1>1. UNCHANGED <<v1, v2, v3, v4, v5, v6, v8>> /\ v7.pc = "list"
  BY DEF Backfill!ListPendingTVShowLibraryItemIDs
<1>2. {"pc", "todo", "got", "made"} \subseteq DOMAIN v7 /\ Backfill!IsListing(v7.got) /\ v7.made \subseteq BackfillEpisodes
  BY DEF Backfill!BackfillInv, Backfill!Shapes, Backfill!Asking
<1>3. v4 \in [BackfillEpisodes -> {"none", "now", "later", "active"}] /\ v9 \subseteq BackfillEpisodes
  BY DEF Backfill!BackfillInv, Backfill!Shapes, Backfill!Tables
<1>4. ids \subseteq BackfillEpisodes
  BY <1>2
<1>5. \/ v7' = [v7 EXCEPT !.pc = "remove", !.todo = ids, !.made = {}] /\ v9' = v9 \cup ids
      \/ v7' = Backfill!Idle /\ UNCHANGED v9
  BY DEF Backfill!ListPendingTVShowLibraryItemIDs
<1> HIDE DEF ids
<1>6. CASE v7' = [v7 EXCEPT !.pc = "remove", !.todo = ids, !.made = {}] /\ v9' = v9 \cup ids
  <2>1. /\ {"pc", "todo", "got", "made"} \subseteq DOMAIN v7' /\ Backfill!IsListing(v7'.got) /\ v7'.made \subseteq BackfillEpisodes
        /\ v7'.pc = "remove" /\ v7'.todo = ids
    BY <1>2, <1>6
  <2>2. Backfill!AskedWaits'
    BY <1>1, <1>6, <2>1 DEF Backfill!BackfillInv, Backfill!AskedWaits
  <2> QED
    BY <1>1, <1>3, <1>4, <1>6, <2>1, <2>2, AskMoves
<1>7. CASE v7' = Backfill!Idle /\ UNCHANGED v9
  <2>1. {"pc", "todo", "got", "made"} \subseteq DOMAIN v7' /\ Backfill!IsListing(v7'.got) /\ v7'.made \subseteq BackfillEpisodes /\ v7'.pc = "idle"
    BY <1>7 DEF Backfill!Idle, Backfill!IsListing, Backfill!Nothing
  <2>2. Backfill!AskedWaits'
    BY <1>1, <1>7, <2>1 DEF Backfill!BackfillInv, Backfill!AskedWaits
  <2> QED
    BY <1>1, <1>3, <1>7, <2>1, <2>2, AskMoves
<1> QED
  BY <1>5, <1>6, <1>7

\* It takes a job out of the queue, which its own list remembers.
LEMMA AskRemoves == ASSUME Backfill!BackfillInv, Backfill!Remove PROVE Backfill!BackfillInv'
<1>1. UNCHANGED <<v1, v2, v3, v5, v8, v9>> /\ v6' = v6 /\ v7.pc = "remove"
  BY DEF Backfill!Remove
<1>2. {"pc", "todo", "got", "made"} \subseteq DOMAIN v7 /\ Backfill!IsListing(v7.got) /\ v7.made \subseteq BackfillEpisodes
      /\ v7.todo \subseteq BackfillEpisodes
  BY <1>1 DEF Backfill!BackfillInv, Backfill!Shapes, Backfill!Asking
<1>3. v4 \in [BackfillEpisodes -> {"none", "now", "later", "active"}] /\ v9 \subseteq BackfillEpisodes
  BY DEF Backfill!BackfillInv, Backfill!Shapes, Backfill!Tables
<1>4. CASE v7.todo = {} /\ v7' = Backfill!Idle /\ UNCHANGED v4
  <2>1. {"pc", "todo", "got", "made"} \subseteq DOMAIN v7' /\ Backfill!IsListing(v7'.got) /\ v7'.made \subseteq BackfillEpisodes /\ v7'.pc = "idle"
    BY <1>4 DEF Backfill!Idle, Backfill!IsListing, Backfill!Nothing
  <2>2. Backfill!AskedWaits'
    BY <1>1, <1>4, <2>1 DEF Backfill!BackfillInv, Backfill!AskedWaits
  <2> QED
    BY <1>1, <1>3, <1>4, <2>1, <2>2, AskMoves
<1>5. ASSUME NEW e \in v7.todo, v4' = [v4 EXCEPT ![e] = IF v4[e] = "active" THEN v4[e] ELSE "none"],
             v7' = [v7 EXCEPT !.pc = "push", !.made = {e}]
      PROVE  Backfill!BackfillInv'
  <2>1. /\ {"pc", "todo", "got", "made"} \subseteq DOMAIN v7' /\ Backfill!IsListing(v7'.got) /\ v7'.made \subseteq BackfillEpisodes
        /\ v7'.pc = "push" /\ v7'.todo = v7.todo
    BY <1>2, <1>5
  <2>2. v4' \in [BackfillEpisodes -> {"none", "now", "later", "active"}] /\ \A f \in BackfillEpisodes : f # e => v4'[f] = v4[f]
    BY <1>3, <1>5
  <2>3. Backfill!AskedWaits'
    BY <1>1, <1>3, <2>1, <2>2 DEF Backfill!BackfillInv, Backfill!AskedWaits
  <2> QED
    BY <1>1, <1>2, <1>3, <2>1, <2>2, <2>3, AskMoves
<1> QED
  BY <1>4, <1>5 DEF Backfill!Remove

\* It puts the job back at the front.
LEMMA AskPushes == ASSUME Backfill!BackfillInv, Backfill!PushFirst PROVE Backfill!BackfillInv'
<1> DEFINE rest == v7.todo \ v7.made
<1>1. UNCHANGED <<v1, v2, v3, v5, v6, v8>> /\ v7.pc = "push"
      /\ v7' = [v7 EXCEPT !.pc = "remove", !.todo = rest, !.made = {}]
      /\ v9' = {e \in v9 : e \notin v7.made \/ v4[e] # "active"}
  BY DEF Backfill!PushFirst
<1>2. {"pc", "todo", "got", "made"} \subseteq DOMAIN v7 /\ Backfill!IsListing(v7.got) /\ v7.made \subseteq BackfillEpisodes
      /\ v7.todo \subseteq BackfillEpisodes
  BY <1>1 DEF Backfill!BackfillInv, Backfill!Shapes, Backfill!Asking
<1>3. v4 \in [BackfillEpisodes -> {"none", "now", "later", "active"}] /\ v9 \subseteq BackfillEpisodes
  BY DEF Backfill!BackfillInv, Backfill!Shapes, Backfill!Tables
<1>4. /\ {"pc", "todo", "got", "made"} \subseteq DOMAIN v7' /\ Backfill!IsListing(v7'.got) /\ v7'.made \subseteq BackfillEpisodes
      /\ v7'.pc = "remove" /\ v7'.todo = rest
  BY <1>1, <1>2
<1>5. /\ v4' \in [BackfillEpisodes -> {"none", "now", "later", "active"}]
      /\ \A e \in BackfillEpisodes : v4'[e] = IF e \in v7.made /\ v4[e] = "none" THEN "now" ELSE v4[e]
  <2>1. PICK p \in {"now", "later"} : p = "now"
    OBVIOUS
  <2>2. Backfill!Push(v7.made, p)
    BY <2>1 DEF Backfill!PushFirst
  <2> QED
    BY <2>1, <2>2, PushTakesNone DEF Backfill!BackfillInv
<1>6. Backfill!AskedWaits'
  BY <1>1, <1>3, <1>4, <1>5 DEF Backfill!BackfillInv, Backfill!AskedWaits
<1> QED
  BY <1>1, <1>2, <1>3, <1>4, <1>5, <1>6, AskMoves

\* The page keeps what it has read, and writes a date only where there is none.
LEMMA PageReads == ASSUME Backfill!BackfillInv, Backfill!buildTVSeasons PROVE Backfill!BackfillInv'
<1>1. UNCHANGED <<v1, v2, v3, v4, v6, v7, v9>>
  BY DEF Backfill!buildTVSeasons
<1> DEFINE c(s) == Backfill!cachedTVSeason(s)
           G(S) == {f \in BackfillEpisodes : Backfill!Season(f) \in S /\ f \in DOMAIN c(Backfill!Season(f))}
           g(S) == [e \in G(S) |-> c(Backfill!Season(e))[e]]
           R(S) == {e \in DOMAIN g(S) : v3[e].item # "none" /\ v3[e].date = Backfill!Undated /\ g(S)[e] # Backfill!Undated}
<1>2. PICK S : v5' = [s \in S \cup DOMAIN v5 |-> c(s)] /\ v8' = [got |-> g(S), rows |-> R(S)]
  BY DEF Backfill!buildTVSeasons
<1>3. \A s \in DOMAIN v5 : Backfill!IsListing(v5[s])
  BY DEF Backfill!BackfillInv, Backfill!Shapes, Backfill!Viewing
<1>4. ASSUME NEW s PROVE Backfill!IsListing(c(s))
  BY <1>3, SeasonIsRead DEF Backfill!cachedTVSeason, Backfill!BackfillInv
<1> HIDE DEF c
<1>5. \A s \in DOMAIN v5' : Backfill!IsListing(v5'[s])
  BY <1>2, <1>4
<1>6. Backfill!IsListing(g(S)) /\ R(S) \subseteq DOMAIN g(S)
  BY <1>4 DEF Backfill!IsListing
<1> HIDE DEF g, R, G
<1>7. {"rows", "got"} \subseteq DOMAIN v8' /\ Backfill!IsListing(v8'.got) /\ v8'.rows \subseteq DOMAIN v8'.got
  BY <1>2, <1>6
<1>8. (Backfill!Tables /\ Backfill!Asking /\ Backfill!Viewing)' /\ Backfill!PassesMeet' /\ Backfill!AskedWaits'
  BY <1>1, <1>5, <1>7 DEF Backfill!BackfillInv, Backfill!Shapes, Backfill!Tables, Backfill!Asking, Backfill!Viewing,
    Backfill!PassesMeet, Backfill!AskedWaits
<1>9. v6.met \in BOOLEAN /\ \A e \in BackfillEpisodes : v3[e].date \in Nat
  BY DEF Backfill!BackfillInv, Backfill!Shapes, Backfill!Passing, Backfill!Tables
<1> QED
  BY <1>1, <1>8, <1>9, FillWaits

\* Another view finds nothing of this one.
LEMMA PageCloses == ASSUME Backfill!BackfillInv, Backfill!CloseView PROVE Backfill!BackfillInv'
<1>1. UNCHANGED <<v1, v2, v3, v4, v5, v6, v7, v9>> /\ v8' = Backfill!ViewIdle
  BY DEF Backfill!CloseView
<1>2. {"rows", "got"} \subseteq DOMAIN v8' /\ Backfill!IsListing(v8'.got) /\ v8'.rows \subseteq DOMAIN v8'.got
  BY <1>1 DEF Backfill!ViewIdle, Backfill!IsListing, Backfill!Nothing
<1>3. (Backfill!Tables /\ Backfill!Asking /\ Backfill!Viewing)' /\ Backfill!PassesMeet' /\ Backfill!AskedWaits'
  BY <1>1, <1>2 DEF Backfill!BackfillInv, Backfill!Shapes, Backfill!Tables, Backfill!Asking, Backfill!Viewing,
    Backfill!PassesMeet, Backfill!AskedWaits
<1>4. v6.met \in BOOLEAN /\ \A e \in BackfillEpisodes : v3[e].date \in Nat
  BY DEF Backfill!BackfillInv, Backfill!Shapes, Backfill!Passing, Backfill!Tables
<1> QED
  BY <1>1, <1>3, <1>4, FillWaits

\* It writes a date.
LEMMA PageWrites == ASSUME Backfill!BackfillInv, NEW e \in BackfillEpisodes, Backfill!WriteBack(e) PROVE Backfill!BackfillInv'
<1> DEFINE rest == v8.rows \ {e}
           g == v8.got[e]
<1>1. UNCHANGED <<v1, v2, v4, v5, v6, v7, v9>> /\ e \in v8.rows
      /\ (v8' = Backfill!ViewIdle \/ v8' = [v8 EXCEPT !.rows = rest])
  BY DEF Backfill!WriteBack
<1>2. {"rows", "got"} \subseteq DOMAIN v8 /\ Backfill!IsListing(v8.got) /\ v8.rows \subseteq DOMAIN v8.got
  BY DEF Backfill!BackfillInv, Backfill!Shapes, Backfill!Viewing
<1>3. {"rows", "got"} \subseteq DOMAIN v8' /\ Backfill!IsListing(v8'.got) /\ v8'.rows \subseteq DOMAIN v8'.got
  <2>1. CASE v8' = Backfill!ViewIdle
    BY <2>1 DEF Backfill!ViewIdle, Backfill!IsListing, Backfill!Nothing
  <2>2. CASE v8' = [v8 EXCEPT !.rows = rest]
    BY <1>2, <2>2
  <2> QED
    BY <1>1, <2>1, <2>2
<1>4. v3 \in [BackfillEpisodes -> [item : {"none", "row", "pending", "taken"}, date : Nat]] /\ g \in Nat /\ v6.met \in BOOLEAN
  BY <1>1, <1>2 DEF Backfill!BackfillInv, Backfill!Shapes, Backfill!Tables, Backfill!Passing, Backfill!IsListing
<1>5. v3' = v3 \/ (v3[e].date = Backfill!Undated /\ v3' = [v3 EXCEPT ![e].date = g])
  BY DEF Backfill!WriteBack, Backfill!UpdateEpisodeAirDate
<1> HIDE DEF g
<1>6. /\ v3' \in [BackfillEpisodes -> [item : {"none", "row", "pending", "taken"}, date : Nat]]
      /\ \A f \in BackfillEpisodes : v3'[f].item = v3[f].item /\ (v3[f].date >= 1 => v3'[f].date = v3[f].date)
  BY <1>4, <1>5 DEF Backfill!Undated
<1>7. (Backfill!Tables /\ Backfill!Asking /\ Backfill!Viewing)' /\ Backfill!PassesMeet' /\ Backfill!AskedWaits'
  BY <1>1, <1>3, <1>6 DEF Backfill!BackfillInv, Backfill!Shapes, Backfill!Tables, Backfill!Asking, Backfill!Viewing,
    Backfill!PassesMeet, Backfill!AskedWaits
<1> QED
  BY <1>1, <1>4, <1>6, <1>7, FillWaits

\* The catalogue forgets a season.
LEMMA SeasonExpires == ASSUME Backfill!BackfillInv, NEW s \in Backfill!Seasons, Backfill!Expire(s) PROVE Backfill!BackfillInv'
<1>1. UNCHANGED <<v1, v2, v3, v4, v6, v7, v8, v9>> /\ v5' = [t \in DOMAIN v5 \ {s} |-> v5[t]]
  BY DEF Backfill!Expire
<1>2. (Backfill!Tables /\ Backfill!Asking /\ Backfill!Viewing)' /\ Backfill!PassesMeet' /\ Backfill!AskedWaits'
  BY <1>1 DEF Backfill!BackfillInv, Backfill!Shapes, Backfill!Tables, Backfill!Asking, Backfill!Viewing,
    Backfill!PassesMeet, Backfill!AskedWaits
<1>3. v6.met \in BOOLEAN /\ \A e \in BackfillEpisodes : v3[e].date \in Nat
  BY DEF Backfill!BackfillInv, Backfill!Shapes, Backfill!Passing, Backfill!Tables
<1> QED
  BY <1>1, <1>2, <1>3, FillWaits

\* A worker takes what waits, and is done with it.
LEMMA JobIsTaken == ASSUME Backfill!BackfillInv, NEW e \in BackfillEpisodes, Backfill!Take(e) PROVE Backfill!BackfillInv'
<1>1. UNCHANGED <<v1, v2, v3, v5, v6, v7, v8>> /\ v9' = v9 \ {e} /\ v4' = [v4 EXCEPT ![e] = "active"]
  BY DEF Backfill!Take
<1>2. v4 \in [BackfillEpisodes -> {"none", "now", "later", "active"}] /\ v9 \subseteq BackfillEpisodes
      /\ v6.met \in BOOLEAN /\ \A f \in BackfillEpisodes : v3[f].date \in Nat
  BY DEF Backfill!BackfillInv, Backfill!Shapes, Backfill!Tables, Backfill!Passing
<1>3. v4' \in [BackfillEpisodes -> {"none", "now", "later", "active"}] /\ \A f \in BackfillEpisodes : f # e => v4'[f] = v4[f]
  BY <1>1, <1>2
<1>4. (Backfill!Tables /\ Backfill!Asking /\ Backfill!Viewing)' /\ Backfill!PassesMeet'
  BY <1>1, <1>3 DEF Backfill!BackfillInv, Backfill!Shapes, Backfill!Tables, Backfill!Asking, Backfill!Viewing, Backfill!PassesMeet
<1>5. Backfill!AskedWaits'
  BY <1>1, <1>2, <1>3 DEF Backfill!BackfillInv, Backfill!AskedWaits
<1> QED
  BY <1>1, <1>2, <1>4, <1>5, FillWaits

\* It ends with a release, or without.
LEMMA JobIsDone == ASSUME Backfill!BackfillInv, NEW e \in BackfillEpisodes, Backfill!ProcessLibraryItem(e) PROVE Backfill!BackfillInv'
<1>1. UNCHANGED <<v1, v2, v5, v6, v7, v8, v9>> /\ v4[e] = "active" /\ v4' = [v4 EXCEPT ![e] = "none"]
      /\ (v3' = v3 \/ (v3[e].item = "pending" /\ v3' = [v3 EXCEPT ![e].item = "taken"]))
  BY DEF Backfill!ProcessLibraryItem
<1>2. v4 \in [BackfillEpisodes -> {"none", "now", "later", "active"}] /\ v9 \subseteq BackfillEpisodes /\ v6.met \in BOOLEAN
      /\ v3 \in [BackfillEpisodes -> [item : {"none", "row", "pending", "taken"}, date : Nat]]
  BY DEF Backfill!BackfillInv, Backfill!Shapes, Backfill!Tables, Backfill!Passing
<1>3. v4' \in [BackfillEpisodes -> {"none", "now", "later", "active"}] /\ \A f \in BackfillEpisodes : f # e => v4'[f] = v4[f]
  BY <1>1, <1>2
<1>4. /\ v3' \in [BackfillEpisodes -> [item : {"none", "row", "pending", "taken"}, date : Nat]]
      /\ \A f \in BackfillEpisodes : v3'[f].date = v3[f].date
                             /\ (v3[f].item \in {"pending", "taken"} => v3'[f].item \in {"pending", "taken"})
  BY <1>1, <1>2
<1>5. (Backfill!Tables /\ Backfill!Asking /\ Backfill!Viewing)' /\ Backfill!PassesMeet'
  BY <1>1, <1>3, <1>4 DEF Backfill!BackfillInv, Backfill!Shapes, Backfill!Tables, Backfill!Asking, Backfill!Viewing,
    Backfill!PassesMeet
<1>6. Backfill!AskedWaits'
  BY <1>1, <1>2, <1>3 DEF Backfill!BackfillInv, Backfill!AskedWaits
<1> QED
  BY <1>1, <1>2, <1>4, <1>5, <1>6, FillWaits

\* A step that changes nothing.
LEMMA BackfillStays == ASSUME Backfill!BackfillInv, UNCHANGED <<v1, v2, v3, v4, v5, v6, v7, v8, v9, v10>> PROVE Backfill!BackfillInv'
BY DEF Backfill!BackfillInv, Backfill!Shapes, Backfill!Tables, Backfill!Passing, Backfill!Asking, Backfill!Viewing,
  Backfill!IsListing, Backfill!SeasonsOnlyGrow,
       Backfill!TVSeasonNumbers, Backfill!Listed, Backfill!PassesMeet, Backfill!WholeSoFar, Backfill!Due,
       Backfill!Part, Backfill!Told, Backfill!Kept, Backfill!AskedWaits

\* Every step.
LEMMA BackfillStep == ASSUME Backfill!BackfillInv, Backfill!Next PROVE Backfill!BackfillInv'
<1>1. CASE Backfill!FillStart \/ Backfill!FillRead \/ Backfill!FillRecent \/ Backfill!FillOlder \/ Backfill!FillPush
  BY <1>1, FillBegins, FillReads, FillWritesRecent, FillWritesOlder, FillPushes
<1>2. CASE Backfill!AskStart \/ Backfill!AskRead \/ Backfill!AskWrite
           \/ Backfill!ListPendingTVShowLibraryItemIDs \/ Backfill!Remove \/ Backfill!PushFirst
  BY <1>2, AskBegins, AskReads, AskWrites, AskLists, AskRemoves, AskPushes
<1>3. CASE Backfill!EnrichTVFull \/ Backfill!DeleteShow \/ Backfill!buildTVSeasons \/ Backfill!CloseView
  BY <1>3, ShowIsWritten, ShowGoes, PageReads, PageCloses
<1>4. CASE \E e \in BackfillEpisodes : Backfill!Announce(e) \/ Backfill!WriteBack(e) \/ Backfill!Take(e) \/ Backfill!ProcessLibraryItem(e)
  BY <1>4, ListGrows, PageWrites, JobIsTaken, JobIsDone
<1>5. CASE \E s \in Backfill!Seasons : Backfill!Expire(s)
  BY <1>5, SeasonExpires
<1> QED
  BY <1>1, <1>2, <1>3, <1>4, <1>5 DEF Backfill!Next

\* Between passes nothing is due, so that all of it is kept.
LEMMA BackfillLeavesNone == ASSUME Backfill!BackfillInv PROVE Backfill!FilledIsWhole /\ Backfill!AskedIsQueued
<1>1. Backfill!FilledIsWhole
  <2>1. v6.pc = "done" => Backfill!Due = {}
    BY DEF Backfill!Due
  <2> QED
    BY <2>1 DEF Backfill!BackfillInv, Backfill!WholeSoFar, Backfill!FilledIsWhole, Backfill!Told, Backfill!Kept
<1>2. Backfill!AskedIsQueued
  BY DEF Backfill!BackfillInv, Backfill!Shapes, Backfill!Tables, Backfill!AskedWaits, Backfill!AskedIsQueued
<1> QED
  BY <1>1, <1>2

-----------------------------------------------------------------------------
(* Every service *)

\* The service that runs is in a state its invariant allows.
ServicesInv ==
  /\ at = "session" => Session!SessionInv
  /\ at = "import" => Import!ImportInv
  /\ at = "stat" => Stat!SegmentInv
  /\ at = "offsets" => Offsets!CalibrationInv
  /\ at = "backup" => Backup!RestoreInv
  /\ at = "lanes" => Lanes!SchedulerInv
  /\ at = "shared" => Shared!SchedulerInv
  /\ at = "requests" => Films!RequestsInv
  /\ at = "seasons" => Seasons!RequestsInv
  /\ at = "hydra" => Hydra!HydraInv
  /\ at = "profiles" => Profiles!ProfilesInv
  /\ at = "sweep" => Sweep!SweepInv
  /\ at = "tasks" => Schedule!ScheduleInv
  /\ at = "accounts" => Users!UsersInv
  /\ at = "subtitles" => Subs!SearchInv
  /\ at = "packs" => Packs!PackInv
  /\ at = "retries" => Retries!RetryInv
  /\ at = "episodes" => Backfill!BackfillInv

\* Only a service's own steps change its state, and no behaviour leaves its service.
LEMMA ServicesHold == Spec => []ServicesInv
<1>1. Init => ServicesInv
  <2> SUFFICES ASSUME Init PROVE ServicesInv
    OBVIOUS
  <2>1. /\ at = "session" => Session!Init
        /\ at = "import" => Import!Init
        /\ at = "stat" => Stat!Init
        /\ at = "offsets" => Offsets!Init
        /\ at = "backup" => Backup!Init
        /\ at = "lanes" => Lanes!Init
        /\ at = "shared" => Shared!Init
        /\ at = "requests" => Films!Init
        /\ at = "seasons" => Seasons!Init
        /\ at = "hydra" => Hydra!Init
        /\ at = "profiles" => Profiles!Init
        /\ at = "sweep" => Sweep!Init
        /\ at = "tasks" => Schedule!Init
        /\ at = "accounts" => Users!Init
        /\ at = "subtitles" => Subs!Init
        /\ at = "packs" => Packs!Init
        /\ at = "retries" => Retries!Init
        /\ at = "episodes" => Backfill!Init
    BY DEF Init
  <2> QED
    BY <2>1, SessionBegins, ImportBegins, StatBegins, OffsetsBegin, BackupBegins, Lanes!SchedulerBegins,
      Shared!SchedulerBegins, Films!RequestsBegin, Seasons!RequestsBegin, RequestsAssumption, HydraBegins, ProfilesBegin, SweepBegins,
      ScheduleBegins, UsersBegin, SearchBegins, PacksBegin, RetriesBegin, BackfillBegins DEF ServicesInv
<1>2. ServicesInv /\ [Next]_vars => ServicesInv'
  <2> SUFFICES ASSUME ServicesInv, [Next]_vars PROVE ServicesInv'
    OBVIOUS
  <2>1. CASE Next
    <3>1. at' = at
      BY <2>1 DEF Next
    <3>2. /\ at = "session" => Session!Next
          /\ at = "import" => Import!Next
          /\ at = "stat" => Stat!Next
          /\ at = "offsets" => Offsets!Next
          /\ at = "backup" => Backup!Next
          /\ at = "lanes" => Lanes!Next
          /\ at = "shared" => Shared!Next
          /\ at = "requests" => Films!Next
          /\ at = "seasons" => Seasons!Next
          /\ at = "hydra" => Hydra!Next
          /\ at = "profiles" => Profiles!Next
          /\ at = "sweep" => Sweep!Next
          /\ at = "tasks" => Schedule!Next
          /\ at = "accounts" => Users!Next
          /\ at = "subtitles" => Subs!Next
          /\ at = "packs" => Packs!Next
          /\ at = "retries" => Retries!Next
          /\ at = "episodes" => Backfill!Next
      BY <2>1 DEF Next
    <3> QED
      BY <3>1, <3>2, SessionSteps, ImportSteps, StatSteps, OffsetsStep, BackupSteps, Lanes!SchedulerSteps,
        Shared!SchedulerSteps, Films!RequestsStep, Seasons!RequestsStep, RequestsAssumption, HydraSteps, ProfilesSteps, SweepSteps,
        ScheduleSteps, UsersStep, SearchSteps, PacksStep, RetriesStep, BackfillStep DEF ServicesInv
  <2>2. CASE UNCHANGED vars
    <3>1. at' = at /\ UNCHANGED <<v1, v2, v3, v4, v5, v6, v7, v8, v9, v10, v11, v12, v13, v14, v15>>
      BY <2>2 DEF vars
    <3>2. UNCHANGED Films!requestVars /\ UNCHANGED Seasons!requestVars
      BY <3>1 DEF Films!requestVars, Seasons!requestVars
    <3> QED
      BY <3>1, <3>2, SessionStays, ImportStays, StatStays, OffsetsStay, BackupStays, Lanes!SchedulerStays,
        Shared!SchedulerStays, Films!RequestsStay, Seasons!RequestsStay, HydraStays, ProfilesStay, SweepStays, ScheduleStays,
        UsersStay, SearchStays, PacksStay, RetriesStay, BackfillStays DEF ServicesInv
  <2> QED
    BY <2>1, <2>2
<1> QED
  BY <1>1, <1>2, PTL DEF Spec

\* Whatever the connection has left on its stream, a call returns the article it asked
\* for, and says the provider has an article only when it has.
THEOREM AnswersAreOwn == Spec => []AnswerIsOwn
<1>1. ServicesInv => AnswerIsOwn
  BY DEF ServicesInv, AnswerIsOwn, Session!SessionInv
<1> QED
  BY <1>1, ServicesHold, PTL

\* However many clients hand in a document at once, it is imported by one chain, and its
\* URL is fetched once in a cooldown.
THEOREM DocumentsAreImportedOnce == Spec => []ImportedOnce
<1>1. ServicesInv => ImportedOnce
  BY DEF ServicesInv, ImportedOnce, Import!ImportInv
<1> QED
  BY <1>1, ServicesHold, PTL

\* However many articles a check samples and however many ask at once, it gives a
\* document up only for an article that was missing.
THEOREM VerdictsAreProven == Spec => []VerdictIsProven
<1>1. ServicesInv => VerdictIsProven
  BY DEF ServicesInv, VerdictIsProven, Stat!SegmentInv
<1> QED
  BY <1>1, ServicesHold, PTL

\* A file is calibrated on sizes that were decoded, or on an article beyond doubt.
THEOREM CalibrationsRestOnEvidence == Spec => []CalibratedOnEvidence
<1>1. ServicesInv => CalibratedOnEvidence
  BY DEF ServicesInv, CalibratedOnEvidence, Offsets!CalibrationInv
<1> QED
  BY <1>1, ServicesHold, PTL

\* As long as no restore dies, one that fails leaves the database and the settings as
\* they were, and a service without its links is told to put them back.
THEOREM FailuresAreUndone == Spec => []FailureIsUndone
<1>1. ServicesInv => FailureIsUndone
  <2> SUFFICES ASSUME ServicesInv, at = "backup" PROVE Backup!FailureIsUndone /\ Backup!LinksComeBack
    BY DEF FailureIsUndone
  <2>1. Backup!Shapes /\ (v9.crashes = BackupCrashes => Backup!DbIsKept /\ Backup!SettingsAreKept /\ Backup!LinksAreMarked)
    BY DEF ServicesInv, Backup!RestoreInv
  <2>2. Backup!FailureIsUndone
    BY <2>1 DEF Backup!Shapes, Backup!FailureIsUndone, Backup!HandledIsIntact, Backup!At, Backup!DbIsKept, Backup!SettingsAreKept
  <2>3. Backup!LinksComeBack
    BY <2>1 DEF Backup!LinksComeBack, Backup!Serving, Backup!LinksAreMarked
  <2> QED
    BY <2>2, <2>3
<1> QED
  BY <1>1, ServicesHold, PTL

\* In lanes and in a shared pool of any size, a caller that waits has its request queued
\* or at one worker; and whoever waits for a pass waits for one under way.
THEOREM RequestsAreNotLost == Spec => []NoLostRequest
<1>1. ServicesInv => NoLostRequest
  BY DEF ServicesInv, NoLostRequest, Lanes!SchedulerInv, Shared!SchedulerInv, Films!RequestsInv
<1> QED
  BY <1>1, ServicesHold, PTL

\* However passes, deletions, cleanups and restarts meet, a deleted title comes back for a
\* new request only, and what a pass creates is queued.
THEOREM DeletedStaysAway == Spec => []DeletedStaysDeleted
<1>1. ServicesInv => DeletedStaysDeleted
  BY DEF ServicesInv, DeletedStaysDeleted, Films!RequestsInv, Seasons!RequestsInv
<1> QED
  BY <1>1, ServicesHold, PTL

\* Whatever edits, restarts of the server and other calls come between, a caller gets no
\* result that was out of date when it called, and what was saved of a profile holds.
THEOREM ResultsAreOfTheirTime == Spec => []ResultNotOlderThanCall
<1>1. ServicesInv => (at = "hydra" => Hydra!ResultNotOlderThanCall)
  BY DEF ServicesInv, Hydra!ResultNotOlderThanCall, Hydra!HydraInv, Hydra!IsOfItsTime
<1>2. ServicesInv => (at = "profiles" => Profiles!SavedTakesHold)
  BY DEF ServicesInv, Profiles!ProfilesInv
<1>3. ServicesInv => ResultNotOlderThanCall
  BY <1>1, <1>2 DEF ResultNotOlderThanCall
<1> QED
  BY <1>3, ServicesHold, PTL

\* With any number of rows, pages of any size and any stops, a health sweep leaves no row
\* out; and no recurring task starves, runs twice for one due time or beside itself.
THEOREM SweepsAreWhole == Spec => []SweepLeavesNoneOut
<1>1. ServicesInv => SweepLeavesNoneOut
  BY ScheduleKeepsTime DEF ServicesInv, SweepLeavesNoneOut, Sweep!SweepInv, Schedule!ScheduleInv
<1> QED
  BY <1>1, ServicesHold, PTL

\* However many attempts, searches and first set-ups there are at once, a place of the
\* throttle comes back, there is one first account, and the budget of calls is kept.
THEOREM SlotsComeBack == Spec => []SlotsAreReturned
<1>1. ServicesInv => SlotsAreReturned
  BY UsersKeepCount, SearchKeepsBudget DEF ServicesInv, SlotsAreReturned
<1> QED
  BY <1>1, ServicesHold, PTL

\* However publications, failures and restarts of the work meet, an episode that counts as
\* available is linked or one of the passes finds it, a failed item is one the lists take
\* up, and what TMDB listed and the user asked for is in the library and on the queue.
THEOREM NoEpisodeIsForgotten == Spec => []NoEpisodeForgotten
<1>1. ServicesInv => NoEpisodeForgotten
  BY PacksForgetNone, RetriesForgetNone, BackfillLeavesNone DEF ServicesInv, NoEpisodeForgotten
<1> QED
  BY <1>1, ServicesHold, PTL
=============================================================================
