---------------------------- MODULE ProfileCache -----------------------------
(***************************************************************************)
(* What a search judges by: the quality profile of its item or the default *)
(* one, the size limits, the custom formats and the release rules, and the *)
(* policies of the indexers (workflow/service.go and the repositories of   *)
(* database/ they are read from).  Saving does not tell the searches: each *)
(* list has a cache of its own with a lifetime, and what was read for the  *)
(* default profile is cached once more, lists and all.  A list that cannot *)
(* be read counts as empty.                                                *)
(*                                                                         *)
(* Contents are versions, 0 being the empty list; a lifetime is TTL ticks, *)
(* and a read takes less than a tick.                                      *)
(***************************************************************************)
EXTENDS Integers, FiniteSets

CONSTANTS
  Ids,        \* quality profiles, 1 .. n, and the names they may have, in their order
  Named,      \* the configured default name (movieProfileName), or 0
  Lists,      \* of "tiers", "formats", "rules", "policies"
  Versions,   \* of a list or a profile, 0 .. n
  TTL,
  Edits       \* bound on what the administrator saves

VARIABLES
  profiles,   \* id -> [name, default, version], or Absent
  lists,      \* list -> the saved version
  itemOwn,    \* quality_profile_id of the item, or 0
  cached,     \* list -> [value, age]; of age TTL there is none
  prefs,      \* profileCachedPrefs: [profile, lists, age]
  used,       \* what the last search judged by: [profile, own, lists]
  edits,
  since       \* history: ticks since a value was last what a read gives, capped

vars == <<profiles, lists, itemOwn, cached, prefs, used, edits, since>>

Old == 2 * TTL - 1
Absent == [name |-> 0, default |-> FALSE, version |-> 0]
InPrefs == Lists \ {"policies"}
\* What a read of the profile yields: BuiltIn when none can be read.
Sources == [id : Ids \cup {0}, version : Versions]
BuiltIn == [id |-> 0, version |-> 0]
NoLists(ls) == [l \in ls |-> 0]
NoCopy == [value |-> 0, age |-> TTL]
NoPrefs == [profile |-> BuiltIn, lists |-> NoLists(InPrefs), age |-> TTL]
Unjudged == [profile |-> BuiltIn, own |-> FALSE, lists |-> NoLists(Lists)]

TypeOK ==
  /\ profiles \in [Ids -> [name : Ids \cup {0}, default : BOOLEAN, version : Versions]]
  /\ lists \in [Lists -> Versions]
  /\ itemOwn \in Ids \cup {0}
  /\ cached \in [Lists -> [value : Versions, age : 0 .. TTL]]
  /\ prefs \in [profile : Sources, lists : [InPrefs -> Versions], age : 0 .. TTL]
  /\ used \in [profile : Sources, own : BOOLEAN, lists : [Lists -> Versions]]
  /\ edits \in 0 .. Edits
  /\ since.lists \in [Lists -> [Versions -> 0 .. Old]] /\ since.profile \in [Sources -> 0 .. Old]

-----------------------------------------------------------------------------
Present == {i \in Ids : profiles[i] # Absent}
Source(i) == [id |-> i, version |-> profiles[i].version]
First(ids) == CHOOSE i \in ids : \A j \in ids : profiles[i].name <= profiles[j].name

GetQualityProfileByName(name) == {i \in Present : profiles[i].name = name}

\* order by is_default desc, name asc
GetDefaultQualityProfile ==
  LET defaults == {i \in Present : profiles[i].default}
  IN IF defaults # {} THEN {First(defaults)} ELSE IF Present # {} THEN {First(Present)} ELSE {}

\* The profile of the configured name, or when there is none the default one.
DefaultSource ==
  LET named == IF Named = 0 THEN {} ELSE GetQualityProfileByName(Named)
      found == IF named # {} THEN named ELSE GetDefaultQualityProfile
  IN IF found = {} THEN BuiltIn ELSE Source(CHOOSE i \in found : TRUE)

Init ==
  /\ \E v \in [Ids -> BOOLEAN] :
       profiles = [i \in Ids |-> [name |-> i, default |-> v[i], version |-> 0]]
  /\ lists = [l \in Lists |-> 0]
  /\ itemOwn = 0
  /\ cached = [l \in Lists |-> NoCopy]
  /\ prefs = NoPrefs
  /\ used = Unjudged
  /\ edits = 0
  /\ since = [lists |-> [l \in Lists |-> [v \in Versions |-> IF v = 0 THEN 0 ELSE Old]],
              profile |-> [s \in Sources |-> IF s = DefaultSource THEN 0 ELSE Old]]

-----------------------------------------------------------------------------
(* The administrator. *)

Edit == edits < Edits /\ edits' = edits + 1

\* What reads give from now on has been given since 0 ticks.
Given ==
  since' = [lists |-> [l \in Lists |-> [v \in Versions |-> IF v = lists'[l] THEN 0 ELSE since.lists[l][v]]],
            profile |-> [s \in Sources |-> IF s = DefaultSource' THEN 0 ELSE since.profile[s]]]

\* A profile is changed in all its columns or inserted; names are unique, defaults are not.
UpsertQualityProfile(i, name, default, version) ==
  /\ Edit
  /\ \A j \in Present \ {i} : profiles[j].name # name
  /\ profiles' = [profiles EXCEPT ![i] = [name |-> name, default |-> default, version |-> version]]
  /\ UNCHANGED <<lists, itemOwn, cached, prefs, used>>
  /\ Given

\* The default one stays; an item of its own profile falls back to the default.
DeleteQualityProfile(i) ==
  /\ Edit
  /\ i \in Present /\ ~ profiles[i].default
  /\ profiles' = [profiles EXCEPT ![i] = Absent]
  /\ itemOwn' = IF itemOwn = i THEN 0 ELSE itemOwn
  /\ UNCHANGED <<lists, cached, prefs, used>>
  /\ Given

SetLibraryItemQualityProfile(i) ==
  /\ Edit
  /\ i \in Present \cup {0} /\ i # itemOwn
  /\ itemOwn' = i
  /\ UNCHANGED <<profiles, lists, cached, prefs, used, since>>

SaveList(l, version) ==
  /\ Edit
  /\ lists[l] # version
  /\ lists' = [lists EXCEPT ![l] = version]
  /\ UNCHANGED <<profiles, itemOwn, cached, prefs, used>>
  /\ Given

-----------------------------------------------------------------------------
(* A search. *)

\* A hit makes the entry young again.
M_Fetched(l, failing) ==
  LET value == IF cached[l].age < TTL THEN cached[l].value ELSE IF l \in failing THEN 0 ELSE lists[l]
  IN [value |-> value, cache |-> [value |-> value, age |-> 0]]

\* A young copy, or what is read and copied; an empty list of formats or rules is not
\* copied, nor is one that could not be read.
Fetched(l, failing) ==
  LET value == IF cached[l].age < TTL THEN cached[l].value ELSE IF l \in failing THEN 0 ELSE lists[l]
      kept == cached[l].age < TTL \/ l \in failing \/ (value = 0 /\ l \in {"formats", "rules"})
  IN [value |-> value, cache |-> IF kept THEN cached[l] ELSE [value |-> value, age |-> 0]]

loadTierSizeLimits(failing) == Fetched("tiers", failing)
loadCustomFormats(failing) == Fetched("formats", failing)
loadBlockRules(failing) == Fetched("rules", failing)
loadIndexerPolicyMap(failing) == Fetched("policies", failing)

Loader(l, failing) ==
  CASE l = "tiers" -> loadTierSizeLimits(failing)
    [] l = "formats" -> loadCustomFormats(failing)
    [] l = "rules" -> loadBlockRules(failing)
    [] l = "policies" -> loadIndexerPolicyMap(failing)

\* The lists in "read" come from their own caches and leave their copies there.
Reads(read, failing) ==
  /\ cached' = [l \in Lists |-> IF l \in read THEN Loader(l, failing).cache ELSE cached[l]]
  /\ since' = [since EXCEPT !.lists = [l \in Lists |->
                 IF l \in read \cap failing THEN [@[l] EXCEPT ![0] = 0] ELSE @[l]]]

Values(read, failing) == [l \in read |-> Loader(l, failing).value]

\* GetLibraryItemQualityProfile: the item's profile as it is, the lists from their caches.
SearchWithOwn(failing) ==
  /\ itemOwn # 0
  /\ Reads(Lists, failing)
  /\ used' = [profile |-> Source(itemOwn), own |-> TRUE, lists |-> Values(Lists, failing)]
  /\ UNCHANGED <<profiles, lists, itemOwn, prefs, edits>>

\* defaultProfilePreferences with a young copy of all of it; the item has no profile of
\* its own or it cannot be read.
SearchWithCopy(failing) ==
  /\ prefs.age < TTL
  /\ Reads(Lists \ InPrefs, failing)
  /\ used' = [profile |-> prefs.profile, own |-> FALSE,
              lists |-> [l \in Lists |-> IF l \in InPrefs THEN prefs.lists[l] ELSE Loader(l, failing).value]]
  /\ UNCHANGED <<profiles, lists, itemOwn, prefs, edits>>

\* The default profile and its lists are read, and copied together.
SearchWithDefault(failing) ==
  /\ prefs.age = TTL /\ DefaultSource # BuiltIn
  /\ Reads(Lists, failing)
  /\ prefs' = [profile |-> DefaultSource, lists |-> Values(InPrefs, failing), age |-> 0]
  /\ used' = [profile |-> DefaultSource, own |-> FALSE, lists |-> Values(Lists, failing)]
  /\ UNCHANGED <<profiles, lists, itemOwn, edits>>

\* No profile can be read: the built-in preferences, without any list, are not copied.
SearchWithout(failing) ==
  /\ prefs.age = TTL
  /\ Reads(Lists \ InPrefs, failing)
  /\ used' = Unjudged
  /\ UNCHANGED <<profiles, lists, itemOwn, prefs, edits>>

\* Copies that reach their lifetime are not used again.
Aged(entry, none) == IF entry.age >= TTL - 1 THEN none ELSE [entry EXCEPT !.age = @ + 1]
Sooner(n) == IF n < Old THEN n + 1 ELSE n

Tick ==
  /\ cached' = [l \in Lists |-> Aged(cached[l], NoCopy)]
  /\ prefs' = Aged(prefs, NoPrefs)
  /\ since' = [lists |-> [l \in Lists |-> [v \in Versions |-> IF v = lists[l] THEN 0 ELSE Sooner(since.lists[l][v])]],
               profile |-> [s \in Sources |-> IF s = DefaultSource THEN 0 ELSE Sooner(since.profile[s])]]
  /\ used' = Unjudged
  /\ UNCHANGED <<profiles, lists, itemOwn, edits>>

Search(failing) ==
  \/ SearchWithOwn(failing) \/ SearchWithCopy(failing)
  \/ SearchWithDefault(failing) \/ SearchWithout(failing)

Next ==
  \/ \E i \in Ids, name \in Ids, default \in BOOLEAN, v \in Versions : UpsertQualityProfile(i, name, default, v)
  \/ \E i \in Ids : DeleteQualityProfile(i)
  \/ \E i \in Ids \cup {0} : SetLibraryItemQualityProfile(i)
  \/ \E l \in Lists, v \in Versions : SaveList(l, v)
  \/ \E failing \in SUBSET Lists : Search(failing)
  \/ Tick

Spec == Init /\ [][Next]_vars

-----------------------------------------------------------------------------
\* What the administrator saves takes hold: no search judges by a default profile that was
\* replaced a lifetime ago, nor by a list replaced as long ago, or two lifetimes when it
\* came with the default profile, whose copy holds a copy (service.go:5258, 5269, 5441).
\* A list that could not be read was empty at that time.
SavedTakesHold ==
  used.profile # BuiltIn =>
    /\ ~ used.own => since.profile[used.profile] <= TTL - 1
    /\ \A l \in Lists :
         since.lists[l][used.lists[l]] <= IF used.own \/ l = "policies" THEN TTL - 1 ELSE 2 * (TTL - 1)

-----------------------------------------------------------------------------
Shapes ==
  /\ profiles \in [Ids -> [name : Ids \cup {0}, default : BOOLEAN, version : Versions]]
  /\ lists \in [Lists -> Versions]
  /\ itemOwn \in Ids \cup {0}
  /\ cached \in [Lists -> [value : Versions, age : Nat]]
  /\ prefs \in [profile : Sources, lists : [InPrefs -> Versions], age : Nat]
  /\ used \in [profile : Sources, own : BOOLEAN, lists : [Lists -> Versions]]
  /\ since \in [lists : [Lists -> [Versions -> Nat]], profile : [Sources -> Nat]]

\* What a read gives now was last given now.
ReadsAreCurrent ==
  /\ \A l \in Lists : since.lists[l][lists[l]] = 0
  /\ since.profile[DefaultSource] = 0

\* A copy is no staler than it is old; what the default profile's copy has of the lists
\* may have been as old when it was taken.
CopiesAreYoung ==
  /\ \A l \in Lists : cached[l].age < TTL => since.lists[l][cached[l].value] <= cached[l].age
  /\ prefs.age < TTL =>
       /\ since.profile[prefs.profile] <= prefs.age
       /\ \A l \in InPrefs : since.lists[l][prefs.lists[l]] <= prefs.age + TTL - 1

ProfilesInv == Shapes /\ ReadsAreCurrent /\ CopiesAreYoung /\ SavedTakesHold
=============================================================================
