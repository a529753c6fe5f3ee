SPECIFICATION Spec
CONSTANTS
  ArticleCallers = {c1, c2}
  ArticleConfirmers = {k1}
  ArticleProviders <- TwoProviders
  ArticleKinds = {"body"}
  ArticleRetries = 0
  ArticleThreshold = 2
  DiskWorkers = {c1, c2}
  DiskKeys = {"a", "b"}
  DiskSize <- Bytes
  DiskBudget = 2
  AheadIds = {"i1", "i2"}
  AheadFiles = {"f"}
  AheadArticles = 2
  AheadWindow = 2
  AheadParallelism = 2
  AheadSlots = {1, 2}
  AheadTurns = 2
  RarReaders = {r1, r2}
  RarStream = r1
  DirectReaders = {r1, r2}
  DirectStream = r1
  CopyReader = r1
  CopyFetches = 4
  SettingsFirst <- FirstSettings
  SettingsSubmitted <- SubmittedSettings
  SettingsTunnelled = {"tunnel"}
  SettingsReaders = {r1}
  SettingsRoutes = 2
  SettingsFaults = 1
  DavClients = {c1, c2}
  DavCatalogues <- Versions
  DavTTL = 2
  DavBuild = 1
  DavNow = 3
  ContentRequests <- ContentAsked
  LinkRequests <- LinksAsked
  LinkSlots = {1}
  LinkPaths = {c1, c2}
  LinkReleases = 2
  LinkRows = 2
  LinkGrace = 1
  LinkNow = 1
  LinkEvents = 1
INVARIANTS
  TypeOK
  DayMarkIsProof
  
  NoOrphanFile
  NoOrphanWindow
  
  
SYMMETRY Symmetry
CHECK_DEADLOCK FALSE
