------------------------------ MODULE Subtitles ------------------------------
(***************************************************************************)
(* Subtitles of one library item (subtitles/service.go and its tables,     *)
(* database/subtitle_repository.go): searches at the providers under their *)
(* daily budget, downloads, uploads, deletion, and the republication after *)
(* the item's files moved.  Searches, API calls and the hook after a       *)
(* publication run at the same time, each in several steps.                *)
(*                                                                         *)
(* A subtitle file lies beside the publication it belongs to and is named  *)
(* for its language only.  Scores decide the order of candidates and are   *)
(* left out, as are the texts and the correction of their timing.          *)
(***************************************************************************)
EXTENDS Integers, Sequences, FiniteSets

CONSTANTS
  Setups,     \* what the service may be set up with
  Languages,  \* the default languages
  Item,       \* the item's id
  Budget,     \* calls a day to one provider
  Ids         \* bound on the candidates stored

VARIABLES
  today,
  usage,   \* the app setting: per provider the day and the count of its calls
  calls,   \* calls made to each provider today
  cands,   \* subtitle_candidates
  rows,    \* subtitle_files: provider, language, publication
  files,   \* the subtitle files on disk
  pubs,    \* publications of the item
  nextId, faults,
  work,    \* per worker: where it is
  setup    \* the set-up, which stays

subtitleVars == <<today, usage, calls, cands, rows, files, pubs, nextId, faults, work, setup>>

Workers == setup.workers  \* what runs at once
Names == setup.names      \* the providers, a sorted sequence
Places == setup.places    \* possible publications of the item
Days == setup.days        \* bounds: days, failures of the database
Faults == setup.faults

Providers == {Names[i] : i \in DOMAIN Names}
NoUsage == [p \in Providers |-> [day |-> 0, count |-> 0]]
Idle == [pc |-> "idle",
         todo |-> <<>>,     \* providers yet to ask
         langs |-> {},      \* languages still missing
         answer |-> {},     \* what the provider has, or whether it failed
         list |-> {},       \* candidates, or rows, read at the start
         key |-> <<>>,      \* provider and language of the group at work
         places |-> {}]     \* publications read for it

TypeOK ==
  /\ today \in 1 .. Days /\ nextId \in 1 .. Ids + 1 /\ faults \in 0 .. Faults
  /\ \A p \in Providers : usage[p].day \in 0 .. today /\ usage[p].count \in Nat /\ calls[p] \in Nat
  /\ \A c \in cands : c.id < nextId /\ c.provider \in Providers /\ c.language \in Languages
  /\ rows \subseteq (Providers \cup {"manual"}) \X Languages \X Places
  /\ files \subseteq Languages \X Places /\ pubs \subseteq Places
  /\ \A w \in Workers : /\ work[w].langs \subseteq Languages
                        /\ work[w].pc \in {"idle", "ask", "call", "record", "store", "list", "pick", "publish", "replace", "unlink", "move", "moved"}

Init ==
  /\ setup \in Setups
  /\ today = 1
  /\ usage = NoUsage
  /\ calls = [p \in Providers |-> 0]
  /\ cands = {} /\ rows = {} /\ files = {}
  /\ pubs \in SUBSET Places
  /\ nextId = 1 /\ faults = 0
  /\ work = [w \in Workers |-> Idle]

At(w, pc) == work[w].pc = pc
Fault == faults < Faults /\ faults' = faults + 1
tables == <<cands, rows, files, pubs>>

\* The day turns; the item's files are published elsewhere.
Tomorrow == /\ today < Days
            /\ today' = today + 1 /\ calls' = [p \in Providers |-> 0]
            /\ UNCHANGED <<usage, cands, rows, files, pubs, nextId, faults, work>>

Publish == /\ pubs' \in SUBSET Places
           /\ UNCHANGED <<today, usage, calls, cands, rows, files, nextId, faults, work>>

-----------------------------------------------------------------------------
\* Searching.

\* Items are dealt to the providers by their id; the others follow in turn.
assignedProviderOrder(names, id) ==
  [i \in 1 .. Len(names) |-> names[((id + i - 1) % Len(names)) + 1]]

Missing == Languages \ {r[2] : r \in rows}

SearchCandidates(w) ==
  /\ At(w, "idle") /\ Missing # {}
  /\ work' = [work EXCEPT ![w] = [Idle EXCEPT !.pc = "ask", !.langs = Missing, !.todo = assignedProviderOrder(Names, Item)]]
  /\ UNCHANGED <<today, usage, calls, tables, nextId, faults>>

allowProviderCall(p) == usage[p].day # today \/ usage[p].count < Budget

Ask(w) ==
  /\ At(w, "ask")
  /\ IF work[w].langs = {} \/ work[w].todo = <<>> THEN work' = [work EXCEPT ![w].pc = "list"]
     ELSE IF allowProviderCall(Head(work[w].todo)) THEN work' = [work EXCEPT ![w].pc = "call"]
     ELSE work' = [work EXCEPT ![w].todo = Tail(@)]
  /\ UNCHANGED <<today, usage, calls, tables, nextId, faults>>

\* The provider answers for some of the languages, or fails.
ProviderSearch(w) ==
  /\ At(w, "call")
  /\ calls' = [calls EXCEPT ![Head(work[w].todo)] = @ + 1]
  /\ \E answer \in SUBSET work[w].langs \cup {{"failed"}} :
       work' = [work EXCEPT ![w].pc = "record", ![w].answer = answer]
  /\ UNCHANGED <<today, usage, tables, nextId, faults>>

\* The count is read, raised and stored under usageMu.  A failed write loses this
\* call, a failed read all of them.
Failed(w) == work[w].answer = {"failed"}
Counted(use, p) ==
  [use EXCEPT ![p] = [day |-> today, count |-> 1 + IF @.day = today THEN @.count ELSE 0]]

M_recordProviderCall(w) ==
  /\ At(w, "record")
  /\ \/ /\ usage' = IF Failed(w) THEN usage ELSE Counted(usage, Head(work[w].todo))
        /\ UNCHANGED faults
     \/ Fault /\ usage' \in {usage, Counted(NoUsage, Head(work[w].todo))}
  /\ work' = IF Failed(w) THEN [work EXCEPT ![w].pc = "ask", ![w].todo = Tail(@)] ELSE [work EXCEPT ![w].pc = "store"]
  /\ UNCHANGED <<today, calls, tables, nextId>>

recordProviderCall(w) ==
  /\ At(w, "record")
  /\ \/ usage' = Counted(usage, Head(work[w].todo)) /\ UNCHANGED faults
     \/ Fault /\ usage' \in {usage, Counted(NoUsage, Head(work[w].todo))}
  /\ work' = IF Failed(w) THEN [work EXCEPT ![w].pc = "ask", ![w].todo = Tail(@)] ELSE [work EXCEPT ![w].pc = "store"]
  /\ UNCHANGED <<today, calls, tables, nextId>>

\* A provider's answer replaces its former one, in whatever order it gave it; what it
\* has need not be sought on.
ReplaceSubtitleCandidates(w) ==
  /\ At(w, "store")
  /\ LET p == Head(work[w].todo)
         found == work[w].answer
         next == nextId + Cardinality(found)
     IN /\ next <= Ids + 1
        /\ \E id \in [found -> nextId .. next - 1] :
             /\ \A a, b \in found : id[a] = id[b] => a = b
             /\ cands' = {c \in cands : c.provider # p}
                         \cup {[id |-> id[l], provider |-> p, language |-> l] : l \in found}
        /\ nextId' = next
  /\ work' = [work EXCEPT ![w].pc = "ask", ![w].todo = Tail(@), ![w].langs = @ \ work[w].answer, ![w].answer = {}]
  /\ UNCHANGED <<today, usage, calls, rows, files, pubs, faults>>

-----------------------------------------------------------------------------
\* Downloading.

\* SearchAndDownloadBest looks again at what is missing and at what it can have.
ListSubtitleCandidates(w) ==
  /\ At(w, "list")
  /\ work' = [work EXCEPT ![w] = [Idle EXCEPT !.pc = "pick", !.langs = Missing, !.list = cands]]
  /\ UNCHANGED <<today, usage, calls, tables, nextId, faults>>

\* The next candidate of a missing language.  It may be gone by now, replaced by
\* another search's, or its download may fail: then the one after it is tried.
DownloadCandidate(w) ==
  /\ At(w, "pick")
  /\ \E c \in work[w].list :
       /\ c.language \in work[w].langs
       /\ \/ work' = [work EXCEPT ![w].list = @ \ {c}]
          \/ /\ c \in cands
             /\ work' = [work EXCEPT ![w].pc = "publish", ![w].list = @ \ {c}, ![w].key = <<c.provider, c.language>>]
  /\ UNCHANGED <<today, usage, calls, tables, nextId, faults>>

NothingLeft(w) ==
  /\ At(w, "pick") /\ \A c \in work[w].list : c.language \notin work[w].langs
  /\ work' = [work EXCEPT ![w] = Idle]
  /\ UNCHANGED <<today, usage, calls, tables, nextId, faults>>

UploadSubtitle(w) ==
  /\ At(w, "idle")
  /\ \E l \in Languages : work' = [work EXCEPT ![w].pc = "publish", ![w].key = <<"manual", l>>]
  /\ UNCHANGED <<today, usage, calls, tables, nextId, faults>>

\* Without a publication there is nothing to write; else first the files ...
publishSubtitleBody(w) ==
  /\ At(w, "publish")
  /\ files' = files \cup {<<work[w].key[2], p>> : p \in pubs}
  /\ work' = IF pubs = {} THEN [work EXCEPT ![w].pc = "pick"]
             ELSE [work EXCEPT ![w].pc = "replace", ![w].places = pubs]
  /\ UNCHANGED <<today, usage, calls, cands, rows, pubs, nextId, faults>>

GroupOf(rs, key) == {r \in rs : r[1] = key[1] /\ r[2] = key[2]}

\* ... then their rows, instead of the former ones.  If that fails a search tries its
\* next candidate, a republication ends.
ReplaceSubtitleFiles(w) ==
  /\ At(w, "replace") \/ At(w, "moved")
  /\ \/ /\ rows' = (rows \ GroupOf(rows, work[w].key)) \cup {Append(work[w].key, p) : p \in work[w].places}
        /\ work' = IF At(w, "replace") THEN [work EXCEPT ![w].pc = "pick", ![w].langs = @ \ {work[w].key[2]}, ![w].places = {}]
                   ELSE [work EXCEPT ![w].pc = "move"]
        /\ UNCHANGED faults
     \/ /\ Fault
        /\ work' = IF At(w, "replace") THEN [work EXCEPT ![w].pc = "pick", ![w].places = {}] ELSE [work EXCEPT ![w] = Idle]
        /\ UNCHANGED rows
  /\ UNCHANGED <<today, usage, calls, cands, files, pubs, nextId>>

-----------------------------------------------------------------------------
\* Deleting, and following the item's files.

\* The rows of the group go first, then its files.
DeleteSubtitle(w) ==
  /\ At(w, "idle")
  /\ \E r \in rows :
       LET gone == GroupOf(rows, r) IN
       /\ rows' = rows \ gone
       /\ work' = [work EXCEPT ![w].pc = "unlink", ![w].list = gone]
  /\ UNCHANGED <<today, usage, calls, cands, files, pubs, nextId, faults>>

Unlink(w) ==
  /\ At(w, "unlink")
  /\ files' = files \ {<<r[2], r[3]>> : r \in work[w].list}
  /\ work' = [work EXCEPT ![w] = Idle]
  /\ UNCHANGED <<today, usage, calls, cands, rows, pubs, nextId, faults>>

RepublishStoredSubtitles(w) ==
  /\ At(w, "idle") /\ rows # {} /\ pubs # {}
  /\ work' = [work EXCEPT ![w].pc = "move", ![w].list = rows, ![w].places = pubs]
  /\ UNCHANGED <<today, usage, calls, tables, nextId, faults>>

\* A group is written from a file of it that is still there; the others of its files
\* go.  If there is none the group is forgotten.
Move(w) ==
  /\ At(w, "move")
  /\ IF work[w].list = {} THEN work' = [work EXCEPT ![w] = Idle] /\ UNCHANGED <<rows, files>>
     ELSE \E r \in work[w].list :
       LET key == <<r[1], r[2]>>
           group == GroupOf(work[w].list, key)
           readable == {x \in group : <<x[2], x[3]>> \in files}
           new == {<<r[2], p>> : p \in work[w].places}
       IN IF readable = {}
            THEN /\ rows' = IF group \cap rows = {} THEN rows ELSE rows \ GroupOf(rows, key)
                 /\ work' = [work EXCEPT ![w].list = @ \ group]
                 /\ UNCHANGED files
            ELSE /\ \E source \in readable :
                      files' = (files \ {<<x[2], x[3]>> : x \in group \ {source}}) \cup new
                 /\ work' = [work EXCEPT ![w].pc = "moved", ![w].list = @ \ group, ![w].key = key]
                 /\ UNCHANGED rows
  /\ UNCHANGED <<today, usage, calls, cands, pubs, nextId, faults>>

Next ==
  /\ \/ Tomorrow \/ Publish
     \/ \E w \in Workers :
          \/ SearchCandidates(w) \/ Ask(w) \/ ProviderSearch(w) \/ recordProviderCall(w) \/ ReplaceSubtitleCandidates(w)
          \/ ListSubtitleCandidates(w) \/ DownloadCandidate(w) \/ NothingLeft(w) \/ UploadSubtitle(w)
          \/ publishSubtitleBody(w) \/ ReplaceSubtitleFiles(w)
          \/ DeleteSubtitle(w) \/ Unlink(w) \/ RepublishStoredSubtitles(w) \/ Move(w)
  /\ UNCHANGED setup

Spec == Init /\ [][Next]_subtitleVars

-----------------------------------------------------------------------------
\* Of the day's calls the count knows, and the workers whose call is not counted yet.
Counts(p) == IF usage[p].day = today THEN usage[p].count ELSE 0
Uncounted(p) == {w \in Workers : At(w, "record") /\ Head(work[w].todo) = p}

\* Every call to a provider counts against its day, a failed one too, and searches
\* that run at once go over the budget by no more than one call each.
BudgetIsKept ==
  faults = 0 => \A p \in Providers : /\ calls[p] <= Counts(p) + Cardinality(Uncounted(p))
                                     /\ calls[p] < Budget + Cardinality(Workers)

-----------------------------------------------------------------------------
\* A worker that calls has a provider to call.
Calling == {w \in Workers : work[w].pc \in {"call", "record", "store"}}

Shapes ==
  /\ setup \in Setups /\ today \in Nat /\ faults \in Nat
  /\ usage \in [Providers -> [day : Nat, count : Nat]] /\ calls \in [Providers -> Nat]
  /\ \E S : work \in [Workers -> S]
  /\ \A w \in Workers : {"pc", "todo"} \subseteq DOMAIN work[w] /\ work[w].todo \in Seq(Providers)
  /\ \A w \in Calling : work[w].todo # <<>>

\* Those who were let through to a provider and are not counted.
Through(p) == {w \in Workers : work[w].pc \in {"call", "record"} /\ Head(work[w].todo) = p}

\* A search is let through only while the count is below the budget.
CountIsTrue(p) ==
  /\ usage[p].day <= today
  /\ calls[p] <= Counts(p) + Cardinality(Uncounted(p))
  /\ Counts(p) + Cardinality(Through(p)) < Budget + Cardinality(Workers)

SearchInv == Shapes /\ (faults = 0 => \A p \in Providers : CountIsTrue(p))
=============================================================================
