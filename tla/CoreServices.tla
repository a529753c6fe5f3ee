---------------------------- MODULE CoreServices ----------------------------
(***************************************************************************)
(* The services MCServices checks and Services_proofs proves about, with   *)
(* the size of each instance left open.  v1 .. v15 are the variables of    *)
(* the service that runs; MCServices says which one that is.               *)
(***************************************************************************)
EXTENDS Integers, Sequences, FiniteSets, TLC

CONSTANTS
  SessionCallers, SessionArticles, SessionHeld, SessionHiccups,
  ImportClients, ImportPlaces, ImportRows, ImportFaults,
  StatArticles, StatAskers, StatReports,
  OffsetsRuns, OffsetsDeclared, OffsetsFirst, OffsetsLast, OffsetsSegments, OffsetsRetries,
  BackupNames, BackupChanges, BackupFaults, BackupCrashes,
  LaneRequests, LaneQueue, LaneInteractive, LaneReadAhead, LaneBackground, SharedWorkers,
  FilmSyncers, FilmTitles, FilmIds, FilmFaults, FilmStops,
  ShowSyncers, ShowTitles, ShowEpisodes, ShowIds, ShowFaults, ShowStops,
  HydraCallers, HydraSearches, HydraGenerations, HydraBackoff,
  ProfileIds, ProfileNamed, ProfileLists, ProfileVersions, ProfileTTL, ProfileEdits,
  SweepIds, SweepPage, SweepStops, ScheduleHorizon,
  UserRequests, UserAddresses, UserNames, UserThreshold, UserBackoff, UserTTL, UserEntries,
  UserPlaces, UserPerKey, UserTicks, UserRows,
  SubtitleSetups, SubtitleLanguages, SubtitleItem, SubtitleBudget, SubtitleIds

VARIABLES v1, v2, v3, v4, v5, v6, v7, v8, v9, v10, v11, v12, v13, v14, v15

Session == INSTANCE NntpSession WITH Callers <- SessionCallers, Articles <- SessionArticles,
  Held <- SessionHeld, Hiccups <- SessionHiccups,
  conn <- v1, wire <- v2, call <- v3, hook <- v4, last <- v5, hiccups <- v6

Import == INSTANCE NzbImport WITH Clients <- ImportClients, MaxImports <- ImportPlaces,
  MaxRows <- ImportRows, Faults <- ImportFaults,
  cooldown <- v1, granted <- v2, queue <- v3, importSem <- v4, client <- v5, chain <- v6,
  faultCount <- v7

Stat == INSTANCE SegmentCheck WITH Articles <- StatArticles, Askers <- StatAskers,
  Reports <- StatReports,
  article <- v1, check <- v2, asker <- v3, answered <- v4, feedback <- v5

Offsets == INSTANCE Calibration WITH Runs <- OffsetsRuns, Declared <- OffsetsDeclared,
  First <- OffsetsFirst, Last <- OffsetsLast, Segments <- OffsetsSegments, Retries <- OffsetsRetries,
  posted <- v1, stored <- v2, run <- v3, heard <- v4, proven <- v5, retryCount <- v6

Backup == INSTANCE SystemRestore WITH Names <- BackupNames, Changes <- BackupChanges,
  Faults <- BackupFaults, Crashes <- BackupCrashes,
  db <- v1, settings <- v2, links <- v3, bundles <- v4, marker <- v5, operation <- v6,
  proc <- v7, before <- v8, left <- v9

\* Readers of a lane each, and one pool for every lane.
Lanes == INSTANCE FetchScheduler WITH Requests <- LaneRequests, QueueSize <- LaneQueue,
  InteractiveWorkers <- LaneInteractive, ReadAheadWorkers <- LaneReadAhead,
  BackgroundWorkers <- LaneBackground,
  queue <- v1, request <- v2, worker <- v3, open <- v4
Shared == INSTANCE FetchScheduler WITH Requests <- LaneRequests, QueueSize <- LaneQueue,
  InteractiveWorkers <- SharedWorkers, ReadAheadWorkers <- 0, BackgroundWorkers <- 0,
  queue <- v1, request <- v2, worker <- v3, open <- v4

\* Movies and shows.
Films == INSTANCE LibraryRequests WITH Syncers <- FilmSyncers, Movies <- FilmTitles, Shows <- {},
  Episodes <- {}, MaxId <- FilmIds, Faults <- FilmFaults, Stops <- FilmStops,
  seerr <- v1, nextId <- v2, known <- v3, items <- v4, jobs <- v5, mutex <- v6,
  flight <- v7, sync <- v8, cleaner <- v9, batch <- v10, queue <- v11, awaiting <- v12,
  upTo <- v13, faults <- v14, stops <- v15
Seasons == INSTANCE LibraryRequests WITH Syncers <- ShowSyncers, Movies <- {}, Shows <- ShowTitles,
  Episodes <- ShowEpisodes, MaxId <- ShowIds, Faults <- ShowFaults, Stops <- ShowStops,
  seerr <- v1, nextId <- v2, known <- v3, items <- v4, jobs <- v5, mutex <- v6,
  flight <- v7, sync <- v8, cleaner <- v9, batch <- v10, queue <- v11, awaiting <- v12,
  upTo <- v13, faults <- v14, stops <- v15

Hydra == INSTANCE HydraClient WITH Callers <- HydraCallers, MaxSearches <- HydraSearches,
  MaxGenerations <- HydraGenerations, MaxBackoff <- HydraBackoff,
  generation <- v1, cached <- v2, hflight <- v3, slots <- v4, rate <- v5, call <- v6

Profiles == INSTANCE ProfileCache WITH Ids <- ProfileIds, Named <- ProfileNamed, Lists <- ProfileLists,
  Versions <- ProfileVersions, TTL <- ProfileTTL, Edits <- ProfileEdits,
  profiles <- v1, lists <- v2, itemOwn <- v3, cached <- v4, prefs <- v5, used <- v6,
  edits <- v7, since <- v8

Sweep == INSTANCE HealthSweep WITH Ids <- SweepIds, PageSize <- SweepPage, Stops <- SweepStops,
  kind <- v1, rows <- v2, cursor <- v3, step <- v4, examined <- v5, steady <- v6, stops <- v7

Schedule == INSTANCE RecurringTasks WITH Horizon <- ScheduleHorizon,
  task <- v1, interval <- v2, up <- v3, blind <- v4, timer <- v5, delayed <- v6, runs <- v7,
  cursor <- v8, busy <- v9, waiting <- v10

Users == INSTANCE Accounts WITH Requests <- UserRequests, Addresses <- UserAddresses, Names <- UserNames,
  FailureThreshold <- UserThreshold, MaxBackoff <- UserBackoff, EntryTTL <- UserTTL, MaxEntries <- UserEntries,
  MaxConcurrent <- UserPlaces, MaxPerIdentity <- UserPerKey, LastTick <- UserTicks, MaxUsers <- UserRows,
  now <- v1, entries <- v2, global <- v3, users <- v4, tokens <- v5, nextId <- v6, lock <- v7, req <- v8

Subs == INSTANCE Subtitles WITH Setups <- SubtitleSetups, Languages <- SubtitleLanguages,
  Item <- SubtitleItem, Budget <- SubtitleBudget, Ids <- SubtitleIds,
  today <- v1, usage <- v2, calls <- v3, cands <- v4, rows <- v5, files <- v6, pubs <- v7,
  nextId <- v8, faults <- v9, work <- v10, setup <- v11

\* The mark of a connection nobody has is no caller.
ASSUME SessionAssumption == Session!NoOne \notin SessionCallers /\ SessionHiccups \in Nat

\* A check has somebody to ask.
ASSUME StatAssumption == StatArticles \in Nat /\ StatAskers # {}

\* No segment decodes to nothing.
ASSUME OffsetsAssumption == OffsetsFirst \in Nat \ {0} /\ OffsetsLast \subseteq Nat \ {0}

\* A number of restores that may die.
ASSUME BackupAssumption == BackupCrashes \in Nat

\* The mutex and the flight are nobody's when no syncer has them.
ASSUME RequestsAssumption == Films!Sizes /\ Seasons!Sizes

\* Ids and names are numbers, a list may be empty, a lifetime is one tick at least.
ASSUME ProfilesAssumption ==
  /\ ProfileIds \subseteq Nat \ {0} /\ 0 \in ProfileVersions /\ ProfileTTL \in Nat \ {0}
  /\ ProfileLists \subseteq {"tiers", "formats", "rules", "policies"}

\* A page has room for a row.
ASSUME SweepAssumption == SweepPage \in Nat \ {0}

\* Ages are told apart up to the longest wait: two intervals and a run.
ASSUME ScheduleAssumption == ScheduleHorizon \in Nat /\ ScheduleHorizon >= 20

\* Requests are finitely many, and the mark of a lock nobody has is none of them.
ASSUME UsersAssumption == IsFiniteSet(UserRequests) /\ Users!NoOne \notin UserRequests

\* Searches are finitely many, providers have names, and a budget of nothing is no limit.
ASSUME SubtitlesAssumption ==
  /\ \A s \in SubtitleSetups : IsFiniteSet(s.workers) /\ s.names \in Seq(STRING)
  /\ SubtitleBudget \in Nat \ {0} /\ SubtitleItem \in Nat
=============================================================================
