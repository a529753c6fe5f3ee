------------------------------ MODULE MCServices ------------------------------
(***************************************************************************)
(* The services around the download path, each on its own small instance.  *)
(* They are checked side by side: a behaviour is of one of them, "at" says *)
(* of which, and v1 .. v15 are its variables.  The services that           *)
(* Services_proofs proves about, here and in CoreServices, take their      *)
(* sizes from Services.cfg, the others have them here.                     *)
(***************************************************************************)
EXTENDS CoreServices

CONSTANTS
  PackWorkers, PackEpisodes, PackWanted, PackFiles, PackOwner, PackRows, PackFaults,
  RetryCandidates, RetryFailures, RetrySettings,
  BackfillEpisodes, BackfillDates, BackfillChanges, BackfillFaults, BackfillPasses

VARIABLE at

Posting(l, n, s, sc, li, pk) ==
  [link |-> l, name |-> n, size |-> s, score |-> sc, listed |-> li, pack |-> pk, fits |-> sc # 3]
Pipeline == INSTANCE SearchPipeline WITH
  Postings <- {Posting("u", "a", 20, 3, 1, FALSE), Posting("v", "a", 21, 4, 2, FALSE),
               Posting("u", "b", 40, 1, 4, FALSE), Posting("x", "c", 90, 5, 5, TRUE)},
  Requests <- [pack |-> <<"p">>, tier1 |-> <<"i">>, tier2 |-> <<"t">>], Searches <- 2,
  rows <- v1, selected <- v2, blocked <- v3, attempts <- v4, search <- v5, seen <- v6,
  everFailed <- v7, searchCount <- v8

Layout == INSTANCE ArchiveLayout WITH Volumes <- 2, MaxPart <- 2, Slack <- 1, Gross <- 3,
  volume <- v1, estimate <- v2, declared <- v3, secret <- v4, pc <- v5, offsets <- v6,
  parts <- v7, skipped <- v8, entry <- v9, opened <- v10

Packs == INSTANCE SeasonPack WITH Workers <- PackWorkers, Episodes <- PackEpisodes, Wanted <- PackWanted,
  Files <- PackFiles, Owner <- PackOwner, MaxRows <- PackRows, Faults <- PackFaults,
  item <- v1, row <- v2, rows <- v3, link <- v4, work <- v5, faults <- v6

\* A release has a file for the episode whose search found it, or one whose name says nothing.
ASSUME PacksAssumption == \A c \in Packs!Candidates : Packs!OwnFiles(PackOwner[c], c) # {}

Retries == INSTANCE FailedRetries WITH Candidates <- RetryCandidates, RetryLimit <- RetryFailures,
  Settings <- RetrySettings,
  item <- v1, cand <- v2, blocked <- v3, timer <- v4, policy <- v5, jobs <- v6, work <- v7,
  pass <- v8, search <- v9

Backfill == INSTANCE EpisodeBackfill WITH Episodes <- BackfillEpisodes, MaxDate <- BackfillDates,
  Changes <- BackfillChanges, Faults <- BackfillFaults, Passes <- BackfillPasses,
  tmdb <- v1, show <- v2, local <- v3, jobs <- v4, cache <- v5, fill <- v6, ask <- v7,
  view <- v8, owed <- v9, left <- v10

\* Episodes are finitely many numbers, and there is a date.
ASSUME BackfillAssumption ==
  /\ BackfillEpisodes \subseteq Nat /\ IsFiniteSet(BackfillEpisodes)
  /\ BackfillDates \in Nat \ {0}

\* Three releases of a season: one in two files, one of the other episodes, one file that says nothing.
Releases == [P |-> {{1}, {2, 3}}, Q |-> {{2}, {3}}, S |-> {{}}]
Finders == [P |-> 1, Q |-> 2, S |-> 2]

\* Two searches with one provider; one with two, whose item moves.
Setups == {
  [workers |-> {"w1", "w2"}, names |-> <<"p">>, places |-> {"A"}, days |-> 2, faults |-> 0],
  [workers |-> {"w1"}, names |-> <<"p", "q">>, places |-> {"A", "B"}, days |-> 1, faults |-> 1]}

\* The policy as it ships, and one that leaves more to the user.
Reasons == {"", "missing", "forbidden", "rejected", "none", "restart", "unknown"}
Shipped == [r \in Reasons |->
  CASE r = "missing" -> "remove, block and search"
    [] r \in {"rejected", "restart"} -> "search"
    [] OTHER -> "nothing"]
Quiet == [r \in Reasons |->
  CASE r = "missing" -> "remove"
    [] r = "unknown" -> "remove and block"
    [] OTHER -> "nothing"]
Policies == {Shipped, Quiet}

\* Show, year, mark and tag of a name, and what may be asked for.
Mark(k, s, e) == [kind |-> k, season |-> s, episode |-> e]
Ask(title, alternates, media, s, e, airs, trusted) ==
  [title |-> title, alternates |-> alternates, media |-> media, year |-> 2005, season |-> s,
   episode |-> e, episodeYear |-> airs, trusted |-> trusted]
Naming == INSTANCE ReleaseName WITH
  Shows <- {<<"wolf">>, <<"the", "wolf">>, <<"wolf", "pack">>, <<"dc", "s", "wolf", "pack">>,
            <<"x", "dc", "s", "wolf", "pack">>, <<"x", "wolf">>, <<"1999">>},
  Years <- ("1999" :> 1999 @@ "2005" :> 2005 @@ "2010" :> 2010),
  Marks <- {Mark("none", 0, 0), Mark("ep", 1, 2), Mark("ep", 1, 10), Mark("ep", 1, 101), Mark("ep", 2, 10),
            Mark("x", 1, 2), Mark("x", 1, 10), Mark("x", 11, 10), Mark("pack", 1, 0), Mark("pack", 2, 0),
            Mark("word", 1, 0), Mark("word", 10, 0), Mark("range", 1, 3), Mark("range", 2, 1)},
  Asks <- {Ask(<<"wolf">>, {<<"the", "x", "wolf">>}, "episode", s, 10, 2010, b) : s \in {1, 2}, b \in BOOLEAN}
          \cup {Ask(<<"dc", "s", "wolf", "pack">>, {}, "tv", 0, 0, 0, FALSE), Ask(<<"1999">>, {}, "movie", 0, 0, 2010, FALSE)},
  name <- v1, ask <- v2, verdict <- v3

\* Six releases that differ in what the profiles look at, and three profiles.
Plain == [id |-> "a", resolution |-> "1080p", source |-> "web-dl", codec |-> "x265",
  language |-> "en", audio |-> "AC3", hdr |-> "SDR", words |-> {}, ending |-> "group",
  dotted |-> FALSE, indexer |-> "ix", priority |-> 0, policy |-> 0, recent |-> FALSE,
  fresh |-> FALSE, size |-> 40]
Rule(type, pattern, media, action) ==
  [type |-> type, pattern |-> pattern, media |-> media, action |-> action, amount |-> 60, enabled |-> TRUE]
Definition(kind, min, max) == [key |-> <<"1080p", kind>>, min |-> min, max |-> max]
Broad == [resolutions |-> <<"1080p", "720p">>, sources |-> <<>>, codecs |-> <<"x265", "x264">>,
  languages |-> <<"en">>, audioFormats |-> <<>>, hdrFormats |-> <<"SDR", "DV">>,
  excludePatterns |-> {"x"}, preferProper |-> TRUE, preferRepack |-> FALSE, rejectCam |-> TRUE,
  minimumAge |-> TRUE, minMBPerMinute |-> 5, maxMBPerMinute |-> 50,
  definitions |-> {Definition("plain", 20, 100), Definition("plain", 10, 0), Definition("remux", 100, 1000)},
  allowUpgrade |-> TRUE, cutoffResolution |-> "", minimumUpgradeCustomFormatScore |-> 0,
  formats |-> {[pattern |-> "remux", amount |-> 30, enabled |-> TRUE]},
  rules |-> {Rule("release_group", "bad", "both", "block"), Rule("title_pattern", "sample", "tv", "penalty"),
             Rule("missing_release_group", "", "movie", "block")}]
Cut == [Broad EXCEPT !.resolutions = <<>>, !.languages = <<>>, !.hdrFormats = <<>>, !.codecs = <<>>,
  !.cutoffResolution = "1080p", !.minimumUpgradeCustomFormatScore = 10, !.minimumAge = FALSE,
  !.rules = {Rule("missing_release_group", "", "tv", "block")}]
Turned == [Broad EXCEPT !.resolutions = <<"720p", "1080p">>, !.codecs = <<"x264", "x265">>,
  !.cutoffResolution = "2160p", !.audioFormats = <<"DTS", "AC3">>]
Upgrades == INSTANCE Ranking WITH
  Releases <- {Plain, [Plain EXCEPT !.id = "b", !.codec = "x264"],
    [Plain EXCEPT !.id = "c", !.codec = "x264", !.words = {"remux"}, !.size = 200],
    [Plain EXCEPT !.id = "d", !.resolution = "720p", !.ending = "", !.words = {"proper"}],
    [Plain EXCEPT !.id = "e", !.ending = "dl 1080p", !.dotted = TRUE],
    [Plain EXCEPT !.id = "f", !.ending = "bad", !.words = {"sample"}]},
  Preferences <- {Broad, Cut, Turned}, Media <- "episode", Popular <- {"b"}, Grabs <- 1,
  prefs <- v1, grabs <- v2, served <- v3, judged <- v4, left <- v5, passed <- v6

\* One posting and its repost, both in a show and a movie, and an entry for its signature.
Posted(url) ==
  [title |-> [words |-> <<"show", "s01e01", "1080p", "webdl", "group">>, style |-> "dots"],
   url |-> url, indexer |-> "indexer", size |-> 5, posted |-> "2026-01-01"]
Barred == INSTANCE Blocklist WITH Items <- {"i1", "i2"},
  Media <- [i \in {"i1", "i2"} |-> IF i = "i1" THEN "show:1" ELSE "movie:2"],
  Releases <- {Posted("u1"), Posted("u2")}, Lifetimes <- {0, 1}, MaxNow <- 1, MaxEntries <- 5,
  MaxEdits <- 1, PageSize <- 3,
  Forms <- {[keyType |-> "release_signature"] @@ Posted("")},
  now <- v1, entries <- v2, rejected <- v3, barred <- v4, walk <- v5, edits <- v6

vars == <<at, v1, v2, v3, v4, v5, v6, v7, v8, v9, v10, v11, v12, v13, v14, v15>>

\* The variables from the fourth, fifth, ... on, of which a component has no use.
from15 == v15
from14 == <<v14, from15>>
from13 == <<v13, from14>>
from12 == <<v12, from13>>
from11 == <<v11, from12>>
from10 == <<v10, from11>>
from9 == <<v9, from10>>
from8 == <<v8, from9>>
from7 == <<v7, from8>>
from6 == <<v6, from7>>
from5 == <<v5, from6>>
from4 == <<v4, from5>>
off15 == v15 = "off"
off14 == v14 = "off" /\ off15
off13 == v13 = "off" /\ off14
off12 == v12 = "off" /\ off13
off11 == v11 = "off" /\ off12
off10 == v10 = "off" /\ off11
off9 == v9 = "off" /\ off10
off8 == v8 = "off" /\ off9
off7 == v7 = "off" /\ off8
off6 == v6 = "off" /\ off7
off5 == v5 = "off" /\ off6
off4 == v4 = "off" /\ off5

Init ==
  \/ at = "lanes" /\ Lanes!Init /\ off5
  \/ at = "shared" /\ Shared!Init /\ off5
  \/ at = "session" /\ Session!Init /\ off7
  \/ at = "hydra" /\ Hydra!Init /\ off7
  \/ at = "pipeline" /\ Pipeline!Init /\ off9
  \/ at = "import" /\ Import!Init /\ off8
  \/ at = "stat" /\ Stat!Init /\ off6
  \/ at = "offsets" /\ Offsets!Init /\ off7
  \/ at = "layout" /\ Layout!Init /\ off11
  \/ at = "packs" /\ Packs!Init /\ off7
  \/ at = "sweep" /\ Sweep!Init /\ off8
  \/ at = "tasks" /\ Schedule!Init /\ off11
  \/ at = "episodes" /\ Backfill!Init /\ off11
  \/ at = "backup" /\ Backup!Init /\ off10
  \/ at = "requests" /\ Films!Init
  \/ at = "seasons" /\ Seasons!Init
  \/ at = "subtitles" /\ Subs!Init /\ off12
  \/ at = "accounts" /\ Users!Init /\ off9
  \/ at = "retries" /\ Retries!Init /\ off10
  \/ at = "names" /\ Naming!Init /\ off4
  \/ at = "upgrades" /\ Upgrades!Init /\ off7
  \/ at = "profiles" /\ Profiles!Init /\ off9
  \/ at = "blocklist" /\ Barred!Init /\ off7

Next ==
  \/ at = "lanes" /\ Lanes!Next /\ UNCHANGED <<at, from5>>
  \/ at = "shared" /\ Shared!Next /\ UNCHANGED <<at, from5>>
  \/ at = "session" /\ Session!Next /\ UNCHANGED <<at, from7>>
  \/ at = "hydra" /\ Hydra!Next /\ UNCHANGED <<at, from7>>
  \/ at = "pipeline" /\ Pipeline!Next /\ UNCHANGED <<at, from9>>
  \/ at = "import" /\ Import!Next /\ UNCHANGED <<at, from8>>
  \/ at = "stat" /\ Stat!Next /\ UNCHANGED <<at, from6>>
  \/ at = "offsets" /\ Offsets!Next /\ UNCHANGED <<at, from7>>
  \/ at = "layout" /\ Layout!Next /\ UNCHANGED <<at, from11>>
  \/ at = "packs" /\ Packs!Next /\ UNCHANGED <<at, from7>>
  \/ at = "sweep" /\ Sweep!Next /\ UNCHANGED <<at, from8>>
  \/ at = "tasks" /\ Schedule!Next /\ UNCHANGED <<at, from11>>
  \/ at = "episodes" /\ Backfill!Next /\ UNCHANGED <<at, from11>>
  \/ at = "backup" /\ Backup!Next /\ UNCHANGED <<at, from10>>
  \/ at = "requests" /\ Films!Next /\ UNCHANGED at
  \/ at = "seasons" /\ Seasons!Next /\ UNCHANGED at
  \/ at = "subtitles" /\ Subs!Next /\ UNCHANGED <<at, from12>>
  \/ at = "accounts" /\ Users!Next /\ UNCHANGED <<at, from9>>
  \/ at = "retries" /\ Retries!Next /\ UNCHANGED <<at, from10>>
  \/ at = "names" /\ Naming!Next /\ UNCHANGED <<at, from4>>
  \/ at = "upgrades" /\ Upgrades!Next /\ UNCHANGED <<at, from7>>
  \/ at = "profiles" /\ Profiles!Next /\ UNCHANGED <<at, from9>>
  \/ at = "blocklist" /\ Barred!Next /\ UNCHANGED <<at, from7>>

Spec == Init /\ [][Next]_vars

-----------------------------------------------------------------------------
\* Every component's state is of its type.
TypeOK ==
  CASE at = "lanes" -> Lanes!TypeOK
    [] at = "shared" -> Shared!TypeOK
    [] at = "session" -> Session!TypeOK
    [] at = "hydra" -> Hydra!TypeOK
    [] at = "pipeline" -> Pipeline!TypeOK
    [] at = "import" -> Import!TypeOK
    [] at = "stat" -> Stat!TypeOK
    [] at = "offsets" -> Offsets!TypeOK
    [] at = "layout" -> Layout!TypeOK
    [] at = "packs" -> Packs!TypeOK
    [] at = "sweep" -> Sweep!TypeOK
    [] at = "tasks" -> Schedule!TypeOK
    [] at = "episodes" -> Backfill!TypeOK
    [] at = "backup" -> Backup!TypeOK
    [] at = "requests" -> Films!TypeOK
    [] at = "seasons" -> Seasons!TypeOK
    [] at = "subtitles" -> Subs!TypeOK
    [] at = "accounts" -> Users!TypeOK
    [] at = "retries" -> Retries!TypeOK
    [] at = "names" -> Naming!TypeOK
    [] at = "upgrades" -> Upgrades!TypeOK
    [] at = "profiles" -> Profiles!TypeOK
    [] at = "blocklist" -> Barred!TypeOK

\* A caller that waits for its fetch has its request queued or at a worker; one that
\* waits for a sync waits for one under way.
NoLostRequest ==
  /\ at = "lanes" => Lanes!NoLostRequest
  /\ at = "shared" => Shared!NoLostRequest
  /\ at = "requests" => Films!WaiterHasPass

\* What a call to the provider returns is the answer to its own command.
AnswerIsOwn == at = "session" => Session!AnswerIsOwn

\* A search returns nothing that an earlier configuration of the indexer gave, and judges
\* by no profile and no list that was replaced two lifetimes ago.
ResultNotOlderThanCall ==
  /\ at = "hydra" => Hydra!ResultNotOlderThanCall
  /\ at = "profiles" => Profiles!SavedTakesHold

\* What a search selects is the best of what it saw and may be selected: the release its
\* name says is asked for, the one the profile prefers, and no upgrade leads back; what
\* was rejected stays out of its movie or show, and of no other, and the administrator
\* sees every entry that does it, each with a release it keeps out.
SelectionIsBestSeen ==
  /\ at = "pipeline" => Pipeline!SelectionIsBestSeen
  /\ at = "names" => Naming!AcceptedIsAsked /\ Naming!AskedIsAccepted
  /\ at = "upgrades" => Upgrades!NoWayBack /\ Upgrades!ServedIsPreferred
  /\ at = "blocklist" => Barred!RejectedStaysOut /\ Barred!NoForeignBar
  /\ at = "blocklist" => Barred!PagesShowAll /\ Barred!EntryNamesWhatItBlocks

\* A document is imported by one chain at a time, and its URL is fetched once in a
\* cooldown.
ImportedOnce == at = "import" => Import!OneChainPerDocument /\ Import!OneFetchPerCooldown

\* A document is given up for missing articles only when one was asked for and was
\* missing as often as the check demands.
VerdictIsProven == at = "stat" => Stat!VerdictIsProven

\* A file is calibrated, or found corrupt, on evidence only.
CalibratedOnEvidence == at = "offsets" => Offsets!CalibratedOnEvidence

\* A layout put together from the headers of all volumes is the file.
LayoutIsTheFile == at = "layout" => Layout!LayoutIsTheFile

\* An episode that counts as available is published, or the recovery finds it; an item
\* that has no release yet is one that some pass takes up again; an episode TMDB listed is
\* in the library with its date, and on the queue if the user asked for it.
NoEpisodeForgotten ==
  /\ at = "packs" => Packs!NoEpisodeForgotten
  /\ at = "retries" => Retries!NothingForgotten
  /\ at = "episodes" => Backfill!FilledIsWhole /\ Backfill!AskedIsQueued

\* A finished sweep has looked at every candidate that was there all along; and a task
\* gets its turn however often the process is restarted, and is not repeated by it.
SweepLeavesNoneOut ==
  /\ at = "sweep" => Sweep!SweepLeavesNoneOut
  /\ at = "tasks" => Schedule!NotStarved /\ Schedule!NotRepeated /\ Schedule!OneRunAtATime

\* A failed restore leaves the database, the settings and the links as they were.
FailureIsUndone == at = "backup" => Backup!FailureIsUndone /\ Backup!LinksComeBack

\* A deleted title comes back for a new request only, and what a sync creates is queued.
DeletedStaysDeleted ==
  /\ at = "requests" => Films!DeletedStaysDeleted /\ Films!CreatedIsDispatched
  /\ at = "seasons" => Seasons!DeletedStaysDeleted /\ Seasons!CreatedIsDispatched

\* What is counted is counted once: a place of the login throttle is given back, the
\* first set-up is one, and every call to a subtitle provider is of its budget.
SlotsAreReturned ==
  /\ at = "accounts" => Users!SlotsAreReturned /\ Users!OneFirstAdmin
  /\ at = "subtitles" => Subs!BudgetIsKept
=============================================================================
