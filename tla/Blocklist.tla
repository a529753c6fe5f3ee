------------------------------ MODULE Blocklist ------------------------------
(***************************************************************************)
(* The blocklist: the keys a rejected release is written under             *)
(* (database/workflow_repository.go:3558-3935), the entries' life and the  *)
(* administrator's views of them (database/blocklist_repository.go).  A    *)
(* title is a sequence of words in some style of separators; sizes are     *)
(* whole megabytes and dates whole days.                                   *)
(***************************************************************************)
EXTENDS Integers, Sequences, FiniteSets, SequencesExt

CONSTANTS
  Items,        \* library items
  Media,        \* Media[i]: the movie or show of an item
  Releases,     \* release_candidates: [title, url, indexer, size, posted]
  Lifetimes,    \* ttlDays of the failures; 0 is for ever
  Forms,        \* what an administrator submits: [keyType, raw] and a release's fields
  MaxNow,       \* bound on the clock, in days
  MaxEntries,   \* bound on the rows
  MaxEdits,     \* bound on an administrator's changes
  PageSize      \* of the administrator's list

VARIABLES
  now,
  entries,      \* blocklist_items in the order of their ids: [key, reason, until]
  rejected,     \* release_candidates.rejected, as <<item, release>>
  barred,       \* what was rejected and not lifted since: [media, url, until]
  walk,         \* an administrator turning the pages: [page, total, seen]
  edits         \* how often an administrator changed the list

vars == <<now, entries, rejected, barred, walk, edits>>

SmallerOf(a, b) == IF a < b THEN a ELSE b
Global == "global"
Forever == MaxNow + 1

-----------------------------------------------------------------------------
(* Titles. *)

\* Separators and case are folded away.
NormalizeReleaseTitle(title) == title.words

EpisodeTokens == {"s01e01", "s01e02", "1x01"}
ResolutionTokens == {"2160p", "1080p", "720p"}
SourceTokens == {"bluray", "bdrip", "web", "webdl", "webrip", "hdtv"}
CanonicalSourceToken(token) ==
  CASE token \in {"web", "webdl", "webrip"} -> "web"
    [] token \in {"bluray", "bdrip"} -> "bluray"
    [] OTHER -> token

\* The words up to the episode, every episode, the first resolution and the first source.
NormalizeReleasePattern(title) ==
  LET words == NormalizeReleaseTitle(title)
      FirstOf(tokens, i) == \A j \in 1..(i - 1) : words[j] \notin tokens
      Kept(i) ==
        \/ words[i] \in EpisodeTokens
        \/ words[i] \in ResolutionTokens /\ FirstOf(ResolutionTokens, i)
        \/ words[i] \in SourceTokens /\ FirstOf(SourceTokens, i)
        \/ words[i] \notin ResolutionTokens \cup SourceTokens /\ FirstOf(EpisodeTokens, i)
      kept == SelectSeq([i \in DOMAIN words |-> i], Kept)
  IN [k \in DOMAIN kept |-> CanonicalSourceToken(words[kept[k]])]

(* Keys. *)
Key(scope, kind, id) == [scope |-> scope, kind |-> kind, id |-> id]
Buckets(r) == <<ToString(r.size), r.posted>>

ExternalURLKey(scope, r) == Key(scope, "external_url", <<r.url>>)
SignatureKey(scope, r) ==
  Key(scope, "release_signature", <<NormalizeReleaseTitle(r.title), <<r.indexer>> \o Buckets(r)>>)
FamilyKey(scope, r) == Key(scope, "release_family", <<NormalizeReleaseTitle(r.title), Buckets(r)>>)
PatternKey(scope, r) == Key(scope, "release_pattern", <<NormalizeReleasePattern(r.title), Buckets(r)>>)

URLKeys(scope, r) == IF r.url = "" THEN <<>> ELSE <<ExternalURLKey(scope, r)>>

\* Mutant: the exact URL is left out.
M_BlocklistKeysForRelease(scope, r) ==
  <<SignatureKey(scope, r), PatternKey(scope, r), FamilyKey(scope, r)>>

\* A release's keys in its movie or show.
BlocklistKeysForRelease(scope, r) ==
  URLKeys(scope, r) \o <<SignatureKey(scope, r), PatternKey(scope, r), FamilyKey(scope, r)>>

\* The keys an administrator's entry may have.
GlobalBlocklistKeysForRelease(r) == URLKeys(Global, r) \o <<SignatureKey(Global, r)>>

CandidateBlocklistKeys(scope, r) ==
  ToSet(BlocklistKeysForRelease(scope, r)) \cup ToSet(GlobalBlocklistKeysForRelease(r))

\* Mutant: the keys have no movie or show.
M_ResolveMediaScopeKey(i) == "anything"

\* The movie or show of an item.
ResolveMediaScopeKey(i) == Media[i]

\* The keys of the administrator's forms: one that lacks what its type asks for has none.
ManualBlocklistKey(form) ==
  CASE form.keyType \in {"", "raw"} -> {form.raw}
    [] form.keyType = "external_url" /\ form.url # "" -> {ExternalURLKey(Global, form)}
    [] form.keyType = "release_signature" /\ form.title.words # <<>> -> {SignatureKey(Global, form)}
    [] OTHER -> {}
Manual == UNION {ManualBlocklistKey(form) : form \in Forms}

\* A row without a date is read back as the first day of 1970.
Stored(r) == IF r.posted = "none" THEN [r EXCEPT !.posted = "1970-01-01"] ELSE r

-----------------------------------------------------------------------------
Keys == {e.key : e \in ToSet(entries)}
LiveEntries == SelectSeq(entries, LAMBDA e : e.until > now)
LiveKeys == {e.key : e \in ToSet(LiveEntries)}
LoadCandidateBlocklist(keys) == keys \cap LiveKeys

\* A candidate is kept out by any of its keys.
Blocked(i, r) == LoadCandidateBlocklist(CandidateBlocklistKeys(ResolveMediaScopeKey(i), r)) # {}

Init ==
  /\ now = 0
  /\ entries = <<>>
  /\ rejected = {}
  /\ barred = {}
  /\ walk = [page |-> 0, total |-> 0, seen |-> {}]
  /\ edits = 0

\* One insert for all keys; a key that is there takes the new reason and expiry.
Inserted(keys, reason, until) ==
  LET Row(k) == [key |-> k, reason |-> reason, until |-> until]
      new == SelectSeq(keys, LAMBDA k : k \notin Keys)
  IN [n \in DOMAIN entries |-> IF entries[n].key \in ToSet(keys) THEN Row(entries[n].key) ELSE entries[n]]
     \o [n \in DOMAIN new |-> Row(new[n])]
Without(keys) == SelectSeq(entries, LAMBDA e : e.key \notin keys)

\* Who turns the pages of a list that changes begins anew.
NoWalk == [page |-> 0, total |-> 0, seen |-> {}]
Disturbed == walk' = NoWalk

Bar(scope, r, until) ==
  {b \in barred : ~(b.media = scope /\ b.url = r.url)} \cup {[media |-> scope, url |-> r.url, until |-> until]}
Unbar(keys) == {b \in barred : Key(b.media, "external_url", <<b.url>>) \notin keys}

\* Writing a failed release's keys, for ever or for some days.  After a commit it is best
\* effort, and may be lost; a release without a URL has none written.
FlushBlocklistKeys(i, r, ttlDays) ==
  LET scope == ResolveMediaScopeKey(i)
      keys == BlocklistKeysForRelease(scope, Stored(r))
      until == IF ttlDays = 0 THEN Forever ELSE now + ttlDays
  IN /\ <<i, r>> \notin rejected
     /\ r.url # ""
     /\ until <= Forever
     /\ rejected' = rejected \cup {<<i, r>>}
     /\ \/ /\ entries' = Inserted(keys, "failed", until)
           /\ Len(entries') <= MaxEntries
           /\ barred' = Bar(scope, r, until)
           /\ Disturbed
        \/ UNCHANGED <<entries, barred, walk>>
     /\ UNCHANGED <<now, edits>>

\* The rejected flags and the keys of some candidates of an item are taken back.
Restored(i, rs) ==
  LET keys == UNION {ToSet(BlocklistKeysForRelease(ResolveMediaScopeKey(i), Stored(r))) : r \in {s \in rs : s.url # ""}}
  IN /\ rejected' = rejected \ {<<i, r>> : r \in rs}
     /\ entries' = Without(keys)
     /\ barred' = Unbar(keys)
     /\ Disturbed
     /\ UNCHANGED <<now, edits>>

RestoreReleaseCandidate(i, r) == <<i, r>> \in rejected /\ Restored(i, {r})

RestoreRejectedReleaseCandidates(i) ==
  LET rs == {r \in Releases : <<i, r>> \in rejected} IN rs # {} /\ Restored(i, rs)

Tick ==
  /\ now < MaxNow
  /\ now' = now + 1
  /\ Disturbed
  /\ UNCHANGED <<entries, rejected, barred, edits>>

-----------------------------------------------------------------------------
(* The administrator. *)

Edited == edits < MaxEdits /\ edits' = edits + 1

\* A new entry: a key that is there, even if expired and unseen, refuses it.
CreateBlocklistItem ==
  /\ Edited
  /\ Len(entries) < MaxEntries
  /\ \E key \in Manual \ Keys, until \in {now + 1, Forever} :
       entries' = Inserted(<<key>>, "manual", until)
  /\ Disturbed
  /\ UNCHANGED <<now, rejected, barred>>

\* An entry is given another key and another expiry.
UpdateBlocklistItem ==
  /\ Edited
  /\ \E n \in DOMAIN entries, key \in Manual, until \in {now + 1, Forever} :
       /\ key = entries[n].key \/ key \notin Keys
       /\ entries' = [entries EXCEPT ![n] = [key |-> key, reason |-> "manual", until |-> until]]
       /\ barred' = Unbar({entries[n].key})
  /\ Disturbed
  /\ UNCHANGED <<now, rejected>>

Deleted(keys) ==
  /\ Edited
  /\ keys # {}
  /\ entries' = Without(keys)
  /\ barred' = Unbar(keys)
  /\ Disturbed
  /\ UNCHANGED <<now, rejected>>

DeleteBlocklistItem == \E key \in Keys : Deleted({key})

DeleteAllBlocklistItems == Deleted(LiveKeys)

DeleteBlocklistItemsByReason ==
  \E reason \in {"manual", "failed"} :
    Deleted({e.key : e \in {f \in ToSet(LiveEntries) : f.reason = reason}})

\* Mutant: the offset is the page's number.
M_ListBlocklistItemsPaged(page) ==
  LET live == Reverse(LiveEntries)
      offset == page * PageSize
  IN [items |-> SubSeq(live, offset + 1, SmallerOf(offset + PageSize, Len(live))), total |-> Len(live)]

\* A page of the live entries, the newest first.
ListBlocklistItemsPaged(page) ==
  LET live == Reverse(LiveEntries)
      offset == (page - 1) * PageSize
  IN [items |-> SubSeq(live, offset + 1, SmallerOf(offset + PageSize, Len(live))), total |-> Len(live)]

\* The dashboard's counts.
BlocklistStats ==
  [total |-> Len(entries), active |-> Len(LiveEntries),
   expired |-> Cardinality({k \in Keys : k \notin LiveKeys}),
   byReason |-> [reason \in {e.reason : e \in ToSet(LiveEntries)} |->
                   Len(SelectSeq(LiveEntries, LAMBDA e : e.reason = reason))]]

\* The administrator opens the list, or turns its page.
TurnPage ==
  /\ \E page \in {1} \cup IF walk.page * PageSize < walk.total THEN {walk.page + 1} ELSE {} :
       LET shown == ListBlocklistItemsPaged(page)
       IN walk' = [page |-> page, total |-> shown.total,
                   seen |-> {e.key : e \in ToSet(shown.items)} \cup IF page = 1 THEN {} ELSE walk.seen]
  /\ UNCHANGED <<now, entries, rejected, barred, edits>>

\* What the list says an entry is of: for a global URL, a row with it; for a global
\* signature, a row of its indexer, size and day with its title; else nothing.
EnrichBlocklistExternalURL(key) == {r \in Releases : r.url = key.id[1]}
EnrichBlocklistSignature(key) ==
  {r \in Releases :
     /\ NormalizeReleaseTitle(r.title) = key.id[1]
     /\ key.id[2][1] \in {"", r.indexer}
     /\ key.id[2][2] \in {"0", ToString(r.size)}
     /\ key.id[2][3] \in {"none", r.posted}}
EnrichBlocklistItem(key) ==
  CASE key.scope = Global /\ key.kind = "external_url" -> EnrichBlocklistExternalURL(key)
    [] key.scope = Global /\ key.kind = "release_signature" -> EnrichBlocklistSignature(key)
    [] OTHER -> {}

Next ==
  \/ \E i \in Items, r \in Releases :
       \/ \E ttlDays \in Lifetimes : FlushBlocklistKeys(i, r, ttlDays)
       \/ RestoreReleaseCandidate(i, r)
  \/ \E i \in Items : RestoreRejectedReleaseCandidates(i)
  \/ Tick \/ CreateBlocklistItem \/ UpdateBlocklistItem \/ DeleteBlocklistItem
  \/ DeleteAllBlocklistItems \/ DeleteBlocklistItemsByReason \/ TurnPage

Spec == Init /\ [][Next]_vars

-----------------------------------------------------------------------------
TypeOK ==
  /\ now \in 0..MaxNow
  /\ \A e \in ToSet(entries) : e.reason \in {"manual", "failed"} /\ e.until \in 0..Forever
  /\ Cardinality(Keys) = Len(entries)
  /\ rejected \subseteq Items \X Releases
  /\ \A b \in barred : b.until \in 0..Forever

\* What was rejected stays out of every item of its movie or show until it expires or is
\* lifted, whatever becomes of the releases it shares other keys with
\* (workflow_repository.go:3677).
RejectedStaysOut ==
  \A b \in barred, i \in Items, r \in Releases :
    Media[i] = b.media /\ r.url = b.url /\ b.until > now => Blocked(i, r)

\* A release that nothing was rejected for in its movie or show is kept out by an
\* administrator's entry alone (workflow_repository.go:3632).
NoForeignBar ==
  \A i \in Items, r \in Releases :
    /\ Blocked(i, r)
    /\ Manual \cap LiveKeys = {}
    => \E k \in Keys : k.scope = Media[i]

\* The administrator who turned every page of a list that nobody changed has seen it all
\* (blocklist_repository.go:97).
PagesShowAll ==
  walk.page > 0 /\ walk.page * PageSize >= walk.total =>
    /\ walk.seen = LiveKeys
    /\ walk.total = BlocklistStats.active

\* The row a complete entry is shown with is one that it keeps out
\* (blocklist_repository.go:220).
Complete(key) ==
  key.kind = "release_signature" =>
    key.id[2][1] # "" /\ key.id[2][2] # "0" /\ key.id[2][3] # "none"
EntryNamesWhatItBlocks ==
  \A k \in {j \in LiveKeys : Complete(j)} :
    \A r \in EnrichBlocklistItem(k), i \in Items : Blocked(i, r)
=============================================================================
