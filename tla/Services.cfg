SPECIFICATION Spec
CONSTANTS
  SessionCallers = {"c1", "c2"}
  SessionArticles = {"x", "y"}
  SessionHeld = {"x"}
  SessionHiccups = 1
  ImportClients = {"c1", "c2"}
  ImportPlaces = 1
  ImportRows = 2
  ImportFaults = 1
  StatArticles = 3
  StatAskers = {"a1", "a2"}
  StatReports = 1
  OffsetsRuns = {"a1", "a2"}
  OffsetsDeclared = {0, 25, 40}
  OffsetsFirst = 10
  OffsetsLast = {3, 10}
  OffsetsSegments = 3
  OffsetsRetries = 2
  BackupNames = {"b1"}
  BackupChanges = 1
  BackupFaults = 2
  BackupCrashes = 1
  LaneRequests = {1, 2, 3}
  LaneQueue = 2
  LaneInteractive = 1
  LaneReadAhead = 1
  LaneBackground = 1
  SharedWorkers = 1
  FilmSyncers = {"s1", "s2"}
  FilmTitles = {"film"}
  FilmIds = 2
  FilmFaults = 1
  FilmStops = 0
  ShowSyncers = {"s1"}
  ShowTitles = {"show"}
  ShowEpisodes = {1, 2}
  ShowIds = 2
  ShowFaults = 1
  ShowStops = 1
  HydraCallers = {"c1", "c2"}
  HydraSearches = 1
  HydraGenerations = 2
  HydraBackoff = 1
  ProfileIds = {1, 2}
  ProfileNamed = 1
  ProfileLists = {"rules", "policies"}
  ProfileVersions = {0, 1}
  ProfileTTL = 2
  ProfileEdits = 2
  SweepIds = 3
  SweepPage = 2
  SweepStops = 1
  ScheduleHorizon = 24
  UserRequests = {"r1", "r2", "r3"}
  UserAddresses = {"i", "j"}
  UserNames = {"a", "b"}
  UserThreshold = 1
  UserBackoff = 2
  UserTTL = 1
  UserEntries = 3
  UserPlaces = 2
  UserPerKey = 1
  UserTicks = 1
  UserRows = 2
  SubtitleSetups <- Setups
  SubtitleLanguages = {"en"}
  SubtitleItem = 1
  SubtitleBudget = 1
  SubtitleIds = 1
  PackWorkers = {"w1"}
  PackEpisodes = {1, 2, 3}
  PackWanted = {1, 2}
  PackFiles <- Releases
  PackOwner <- Finders
  PackRows = 4
  PackFaults = 1
  RetryCandidates = {1}
  RetryFailures = 1
  RetrySettings <- Policies
  BackfillEpisodes = {101, 201}
  BackfillDates = 2
  BackfillChanges = 1
  BackfillFaults = 1
  BackfillPasses = 2
INVARIANTS
  TypeOK
  
  
  
  SelectionIsBestSeen
  ImportedOnce
  
  
  LayoutIsTheFile
  
  SweepLeavesNoneOut
  
  DeletedStaysDeleted
  
CHECK_DEADLOCK FALSE
