------------------------------- MODULE Ranking -------------------------------
(***************************************************************************)
(* How a quality profile judges releases, and the chain of upgrades that   *)
(* follows (ranking/ranking.go: ScoreWithPreferences from the checks of    *)
(* age on; workflow/service.go: applyUpgradeMinimums, SearchUpgrades;      *)
(* database/workflow_repository.go: the cutoff).  An item is served a      *)
(* release with the score it had when it was selected; it is searched      *)
(* again while it is below the cutoff, and goes on to what scores higher.  *)
(*                                                                         *)
(* A release is what is detected in its name and what its indexer says; a  *)
(* pattern is a word its name has or has not, and a size is MB per minute. *)
(* ReleaseName has the checks of title, year and episode, ReleaseLifecycle *)
(* what becomes of a selection.                                            *)
(***************************************************************************)
EXTENDS Integers, Sequences, FiniteSetsExt, TLC

CONSTANTS
  Releases,     \* what the indexers list
  Preferences,  \* the profiles an administrator switches between, with formats and rules
  Media,        \* "movie" or "episode"
  Popular,      \* those others download
  Grabs         \* bound on how often, in tens

VARIABLES
  prefs,        \* the preferences in force
  grabs,        \* release -> downloads by others, in tens
  served,       \* [release, score, formats] or NoRelease
  judged,       \* history: the preferences and grabs the served one was judged by
  left,         \* history: the releases left since then
  passed        \* history: what the profile prefers to the served one and was listed with it

vars == <<prefs, grabs, served, judged, left, passed>>

NoRelease == [release |-> "none", score |-> 0, formats |-> 0]
Ids == {r.id : r \in Releases}
Release(id) == CHOOSE r \in Releases : r.id = id

-----------------------------------------------------------------------------
ResolutionRank(resolution) ==
  CASE resolution = "480p" -> 1
    [] resolution = "576p" -> 2
    [] resolution = "720p" -> 3
    [] resolution = "1080p" -> 4
    [] resolution \in {"2160p", "4k"} -> 5
    [] OTHER -> 0

\* The place in an ordered list, 0 for none.
Place(value, ordered) ==
  IF \E i \in DOMAIN ordered : ordered[i] = value
  THEN CHOOSE i \in DOMAIN ordered : ordered[i] = value /\ \A j \in 1 .. i - 1 : ordered[j] # value
  ELSE 0

Greater(a, b) == IF a > b THEN a ELSE b

\* Places count from the end of the list.
M_scoreByPreference(value, ordered, base, step, builtIn) ==
  IF ordered = <<>> THEN builtIn
  ELSE LET place == Place(value, ordered)
       IN IF place = 0 THEN -120 ELSE Greater(base - (Len(ordered) - place) * step, step)

\* By the place in the profile's list; without a list by the built-in tiers.
scoreByPreference(value, ordered, base, step, builtIn) ==
  IF ordered = <<>> THEN builtIn
  ELSE LET place == Place(value, ordered)
       IN IF place = 0 THEN -120 ELSE Greater(base - (place - 1) * step, step)

scoreResolution(r, p) ==
  scoreByPreference(r.resolution, p.resolutions, 500, 75,
    CASE r.resolution = "2160p" -> 450 [] r.resolution = "1080p" -> 400
      [] r.resolution = "720p" -> 250 [] OTHER -> 0)

\* A streaming service in the name stands for web-dl.
scoreSourceField(r, p) ==
  LET effective == IF r.source \in {"", "unknown"} /\ "service" \in r.words THEN "web-dl" ELSE r.source
  IN scoreByPreference(effective, p.sources, 300, 40,
       CASE effective \in {"web-dl", "webrip"} -> 250 [] effective = "bluray" -> 225
         [] effective = "remux" -> 210 [] effective = "hdtv" -> 80 [] OTHER -> 0)

scoreCodec(r, p) ==
  scoreByPreference(r.codec, p.codecs, 180, 30,
    CASE r.codec \in {"h265", "x265"} -> 150 [] r.codec = "av1" -> 130
      [] r.codec \in {"h264", "x264"} -> 120 [] OTHER -> 0)

scoreLanguage(r, p) ==
  scoreByPreference(r.language, p.languages, 120, 20,
    CASE r.language = "nl" -> 100 [] r.language = "en" -> 90 [] r.language = "multi" -> 40
      [] r.language = "unknown" -> 10 [] OTHER -> -80)

scoreAudio(r, p) ==
  IF r.audio = "" THEN 0
  ELSE scoreByPreference(r.audio, p.audioFormats, 200, 25,
         CASE r.audio = "Atmos" -> 180 [] r.audio = "TrueHD" -> 160 [] r.audio = "DTS-HD" -> 140
           [] r.audio = "DTS" -> 100 [] r.audio = "DD+" -> 80 [] r.audio = "AC3" -> 60
           [] r.audio = "FLAC" -> 55 [] r.audio = "AAC" -> 40 [] OTHER -> 0)

scoreHDR(r, p) ==
  scoreByPreference(r.hdr, p.hdrFormats, 160, 20,
    CASE r.hdr = "DV" -> 140 [] r.hdr = "HDR10+" -> 120 [] r.hdr = "HDR10" -> 100
      [] r.hdr = "HLG" -> 60 [] OTHER -> 0)

-----------------------------------------------------------------------------
\* loadTierSizeLimits: the definitions of one resolution make one tier, as wide as the
\* widest; 0 is no bound, and does not widen.
TierLimits(definitions) ==
  LET at(key) == {d \in definitions : d.key = key}
      mins(key) == {d.min : d \in at(key)} \ {0}
      maxes(key) == {d.max : d \in at(key)} \ {0}
  IN [key \in {d.key : d \in definitions} |->
        [min |-> IF mins(key) = {} THEN 0 ELSE CHOOSE m \in mins(key) : \A n \in mins(key) : m <= n,
         max |-> IF maxes(key) = {} THEN 0 ELSE CHOOSE m \in maxes(key) : \A n \in maxes(key) : m >= n]]

Outside(size, limit) ==
  (limit.min > 0 /\ size < limit.min) \/ (limit.max > 0 /\ size > limit.max)

\* A tier is of a resolution, of remuxes or of the rest.  That of a remux, else that of the
\* resolution, else the bounds of the profile.
rejectBySize(r, p) ==
  LET tiers == TierLimits(p.definitions)
      remux == <<r.resolution, "remux">>
      key == IF "remux" \in r.words /\ remux \in DOMAIN tiers THEN remux ELSE <<r.resolution, "plain">>
  IN r.size > 0 /\ Outside(r.size, IF r.resolution # "" /\ key \in DOMAIN tiers THEN tiers[key]
                                   ELSE [min |-> p.minMBPerMinute, max |-> p.maxMBPerMinute])

rejectLanguageMismatch(r, p) ==
  /\ p.languages # <<>>
  /\ r.language \notin {"", "unknown", "multi"}
  /\ Place(r.language, p.languages) = 0

-----------------------------------------------------------------------------
(* Custom formats and release rules. *)

\* What follows the last dash of the name.
detectReleaseGroup(r) == r.ending
\* The same, unless it has a dot or a space.
ParseReleaseGroup(r) == IF r.dotted THEN "" ELSE r.ending

matchBlockRule(rule, r, group) ==
  CASE rule.type = "release_group" -> IF group # "" THEN group = rule.pattern ELSE rule.pattern \in r.words
    [] rule.type \in {"title_pattern", "regex"} -> rule.pattern \in r.words
    [] rule.type = "missing_release_group" -> group = ""
    [] OTHER -> FALSE

Total(rules) == MapThenSumSet(LAMBDA rule : rule.amount, rules)

EffectiveMedia == IF Media = "episode" THEN "tv" ELSE Media
Applies(rule) == rule.enabled /\ rule.media \in {"both", EffectiveMedia}

MatchingRules(p, r, action, group) ==
  {rule \in p.rules : Applies(rule) /\ rule.action = action /\ matchBlockRule(rule, r, group)}

\* The group the search detected, else the one ranking parses.
SearchGroup(r) == IF detectReleaseGroup(r) # "" THEN detectReleaseGroup(r) ELSE ParseReleaseGroup(r)

\* The verdict of POST /api/release-block-rules/test.
TestBlockRules(p, r) ==
  LET matched == {rule \in p.rules : Applies(rule) /\ matchBlockRule(rule, r, ParseReleaseGroup(r))}
  IN [blocked |-> \E rule \in matched : rule.action = "block",
      penalty |-> Total({rule \in matched : rule.action = "penalty"})]

CustomFormatScore(r, p) == Total({f \in p.formats : f.enabled /\ f.pattern \in r.words})

-----------------------------------------------------------------------------
(* The verdict. *)

\* The hard rejections, in no order: any of them rejects.
RejectedBy(r, p) ==
  \/ p.minimumAge /\ r.fresh
  \/ p.excludePatterns \cap r.words # {}
  \/ p.rejectCam /\ "cam" \in r.words
  \/ {"bdmv", "hardsub"} \cap r.words # {}
  \/ p.resolutions # <<>> /\ Place(r.resolution, p.resolutions) = 0
  \/ rejectBySize(r, p)
  \/ rejectLanguageMismatch(r, p)
  \/ MatchingRules(p, r, "block", SearchGroup(r)) # {}

If(condition, points) == IF condition THEN points ELSE 0

\* A release that has failed is rejected before it is scored, so no penalty for it is here.
ScoreWithPreferences(r, p, g) ==
  [rejected |-> RejectedBy(r, p),
   formats |-> CustomFormatScore(r, p),
   score |-> scoreResolution(r, p) + scoreSourceField(r, p) + scoreCodec(r, p) + scoreLanguage(r, p)
     + scoreAudio(r, p) + scoreHDR(r, p)
     + If("remux" \in r.words, 40)
     + If({"proper", "real"} \cap r.words # {}, IF p.preferProper THEN 80 ELSE 40)
     + If("repack" \in r.words, IF p.preferRepack THEN 60 ELSE 20)
     + If(r.indexer # "", 75) + If(detectReleaseGroup(r) # "", 50) + If(r.recent, 25)
     - r.priority * 10 + r.policy + (IF g > 50 THEN 50 ELSE g)
     - If("sample" \in r.words, 150)
     + CustomFormatScore(r, p)
     - Total(MatchingRules(p, r, "penalty", SearchGroup(r)))]

Result(id) == [id |-> id] @@ ScoreWithPreferences(Release(id), prefs, grabs[id])

\* The served release is beaten by one of its own score.
M_Usable(c) == ~ c.rejected /\ (served = NoRelease \/ c.score >= served.score)

\* applyUpgradeMinimums: an upgrade scores more than the release did when it was selected,
\* and its custom formats as much more as the profile asks.
Usable(c) ==
  LET minimum == prefs.minimumUpgradeCustomFormatScore
  IN /\ ~ c.rejected
     /\ served # NoRelease =>
          /\ c.score > served.score
          /\ minimum > 0 => c.formats >= served.formats + minimum

\* orderCandidatesByCutoff: what is at the cutoff comes before what is not, whatever they
\* score; among equals the indexers' order decides.
AtCutoff(id) == ResolutionRank(Release(id).resolution) >= ResolutionRank(prefs.cutoffResolution)
FirstAmong(candidates) ==
  LET cutoff == ResolutionRank(prefs.cutoffResolution)
      atCutoff == {c \in candidates : AtCutoff(c.id)}
      band == IF cutoff > 0 /\ atCutoff # {} THEN atCutoff ELSE candidates
  IN {c \in band : \A d \in band : c.score >= d.score}

\* The same release but for one thing the profile prefers.
Preferred(r, q, p) ==
  LET lists == [resolution |-> p.resolutions, codec |-> p.codecs, audio |-> p.audioFormats, hdr |-> p.hdrFormats]
      sooner(a, b, list) == Place(a, list) > 0 /\ (Place(b, list) = 0 \/ Place(a, list) < Place(b, list))
  IN \E d \in DOMAIN lists :
       /\ \A f \in DOMAIN r : f \in {d, "id"} \/ r[f] = q[f]
       /\ sooner(r[d], q[d], lists[d])

TypeOK ==
  /\ prefs \in Preferences
  /\ grabs \in [Ids -> 0 .. Grabs]
  /\ served = NoRelease \/ (served.release \in Ids /\ served.score \in Int /\ served.formats \in Int)
  /\ judged.prefs \in Preferences /\ judged.grabs \in [Ids -> 0 .. Grabs]
  /\ left \subseteq Ids /\ passed \subseteq Ids

Init ==
  /\ prefs \in Preferences
  /\ grabs = [id \in Ids |-> 0]
  /\ served = NoRelease
  /\ judged = [prefs |-> prefs, grabs |-> grabs]
  /\ left = {} /\ passed = {}

ChangePreferences ==
  /\ \E p \in Preferences \ {prefs} : prefs' = p
  /\ UNCHANGED <<grabs, served, judged, left, passed>>

\* Others download a release.
Grabbed(id) ==
  /\ id \in Popular /\ grabs[id] < Grabs
  /\ grabs' = [grabs EXCEPT ![id] = @ + 1]
  /\ UNCHANGED <<prefs, served, judged, left, passed>>

\* ListUpgradableLibraryItems
Upgradable ==
  /\ served # NoRelease
  /\ prefs.allowUpgrade
  /\ prefs.cutoffResolution # "" => ~ AtCutoff(served.release)

\* The first search, and SearchUpgrades: what is found and fetched is served.  What it was
\* judged by then is what the releases left since were judged by, or they are forgotten.
Search(listed) ==
  LET now == [prefs |-> prefs, grabs |-> grabs]
      results == {Result(id) : id \in listed}
      usable == {c \in results : Usable(c)}
  IN
  /\ served = NoRelease \/ Upgradable
  /\ usable # {}
  /\ \E c \in FirstAmong(usable) :
       /\ served' = [release |-> c.id, score |-> c.score, formats |-> c.formats]
       /\ left' = IF judged = now /\ served # NoRelease THEN left \cup {served.release} ELSE {}
       /\ passed' = {id \in listed : /\ ~ RejectedBy(Release(id), prefs)
                                     /\ Preferred(Release(id), Release(c.id), prefs)
                                     /\ grabs[id] = grabs[c.id] /\ AtCutoff(id) = AtCutoff(c.id)}
  /\ judged' = now
  /\ UNCHANGED <<prefs, grabs>>

Next ==
  \/ ChangePreferences
  \/ \E id \in Ids : Grabbed(id)
  \/ \E a, b \in Ids : Search({a, b})

Spec == Init /\ [][Next]_vars

-----------------------------------------------------------------------------
\* Every upgrade is away from what was there: as long as the same preferences judge the
\* same releases no upgrade goes back to one that was left, so the chain ends
\* (service.go:4007-4017).
NoWayBack == served.release \notin left

\* What is served was the profile's choice: nothing on its lists was passed over for the
\* same further down, and no release rule blocks it that the
\* administrator's test says blocks it, unless the name ends in a dash and something with a
\* dot or a space, which the search takes for its group and the test does not
\* (ranking.go:1029-1037, 785-787; service.go:5662).
ServedIsPreferred ==
  served # NoRelease =>
    /\ passed = {}
    /\ LET r == Release(served.release)
       IN TestBlockRules(judged.prefs, r).blocked => r.dotted
=============================================================================
