------------------------------ MODULE MCReading ------------------------------
(***************************************************************************)
(* The components on the way of a byte from a provider to a player, the    *)
(* links in the library and the settings they all run under, each on its   *)
(* own small instance.  They are checked side by side: a behaviour is of   *)
(* one of them, "at" says of which, and v1 .. v12 are its variables.       *)
(***************************************************************************)
EXTENDS Integers, Sequences, FiniteSets, TLC

CONSTANTS
  ArticleCallers, ArticleConfirmers, ArticleProviders, ArticleKinds, ArticleRetries, ArticleThreshold,
  DiskWorkers, DiskKeys, DiskSize, DiskBudget,
  AheadIds, AheadFiles, AheadArticles, AheadWindow, AheadParallelism, AheadSlots, AheadTurns,
  RarReaders, RarStream, DirectReaders, DirectStream,
  CopyReader, CopyFetches,
  SettingsFirst, SettingsSubmitted, SettingsTunnelled, SettingsReaders, SettingsRoutes, SettingsFaults,
  DavClients, DavCatalogues, DavTTL, DavBuild, DavNow, ContentRequests, LinkRequests,
  LinkSlots, LinkPaths, LinkReleases, LinkRows, LinkGrace, LinkNow, LinkEvents

VARIABLES at, v1, v2, v3, v4, v5, v6, v7, v8, v9, v10, v11, v12

Article == INSTANCE ArticleSource WITH Callers <- ArticleCallers, Confirmers <- ArticleConfirmers,
  Providers <- ArticleProviders, Kinds <- ArticleKinds, Retries <- ArticleRetries,
  Threshold <- ArticleThreshold,
  holders <- v1, missing <- v2, flight <- v3, breaker <- v4, lookup <- v5

Disk == INSTANCE FileCache WITH Workers <- DiskWorkers, Keys <- DiskKeys, Size <- DiskSize,
  MaxBytes <- DiskBudget,
  disk <- v1, order <- v2, seeded <- v3, using <- v4

Ahead == INSTANCE ReadAhead WITH Ids <- AheadIds, FileIds <- AheadFiles, Articles <- AheadArticles,
  WindowArticles <- AheadWindow, MaxParallelism <- AheadParallelism, Slots <- AheadSlots,
  Turns <- AheadTurns,
  sessions <- v1, window <- v2, born <- v3

Rar == INSTANCE RarReader WITH Readers <- RarReaders, Stream <- RarStream, Segments <- 3,
  MaxLength <- 2, Chunk <- 3,
  truth <- v1, table <- v2, reading <- v3, delivered <- v4

Direct == INSTANCE DirectReader WITH Readers <- DirectReaders, Stream <- DirectStream, Segments <- 2,
  MaxLength <- 3, Chunk <- 3, EmptyLimit <- 2,
  truth <- v1, spans <- v2, size <- v3, reading <- v4, got <- v5

Decoded == INSTANCE DecodedCache WITH Readers <- {CopyReader}, Fetches <- CopyFetches,
  ram <- v1, disk <- v2, flight <- v3, fetched <- v4, reader <- v5

Live == INSTANCE LiveSettings WITH First <- SettingsFirst, Submitted <- SettingsSubmitted,
  Tunnelled <- SettingsTunnelled, Readers <- SettingsReaders, MaxRoutes <- SettingsRoutes,
  Faults <- SettingsFaults,
  file <- v1, update <- v2, route <- v3, tunnels <- v4, chain <- v5, closing <- v6, idle <- v7,
  reader <- v8, workers <- v9, interval <- v10, clean <- v11, faults <- v12

Content == INSTANCE WebDav WITH Clients <- DavClients, Catalogues <- DavCatalogues, TTL <- DavTTL,
  BuildTicks <- DavBuild, MaxNow <- DavNow, Requests <- ContentRequests,
  now <- v1, catalogue <- v2, held <- v3, cache <- v4, flight <- v5, client <- v6, sessions <- v7
Links == INSTANCE WebDav WITH Clients <- DavClients, Catalogues <- DavCatalogues, TTL <- DavTTL,
  BuildTicks <- DavBuild, MaxNow <- DavNow, Requests <- LinkRequests,
  now <- v1, catalogue <- v2, held <- v3, cache <- v4, flight <- v5, client <- v6, sessions <- v7

Library == INSTANCE LibraryLinks WITH Slots <- LinkSlots, Paths <- LinkPaths, MaxReleases <- LinkReleases,
  MaxRows <- LinkRows, Grace <- LinkGrace, MaxNow <- LinkNow, MaxEvents <- LinkEvents,
  now <- v1, release <- v2, issued <- v3, queue <- v4, row <- v5, ids <- v6, link <- v7,
  pub <- v8, reset <- v9, sweep <- v10, events <- v11

-----------------------------------------------------------------------------
(* The instances that are checked: what a cfg has no words for. *)

TwoProviders == <<"p1", "p2">>
Bytes == [a |-> 1, b |-> 2]

Saved(name, password, route, workers, interval) ==
  [name |-> name, password |-> password, route |-> route, workers |-> workers, interval |-> interval]
FirstSettings == Saved("a", "secret", "direct", 1, 1)
SubmittedSettings == {Saved("a", "", "tunnel", 2, 1), Saved("b", "", "direct", 1, 2)}

File(size) == [release |-> "r", name |-> "f", size |-> size]
Link(root, target) == [library |-> <<root, "m">>, target |-> target]
Versions == <<[files |-> {}, links |-> <<Link("movies", "t1")>>],
              [files |-> {File(2)}, links |-> <<Link("other", "t1"), Link("x", "t2")>>]>>
Asked(path, open) == [path |-> path, open |-> open]
ContentAsked == {Asked(<<"content", "releases", "r", "f">>, TRUE), Asked(<<"content", "releases">>, TRUE)}
LinksAsked == {Asked(<<"completed-symlinks", "m">>, FALSE), Asked(<<"completed-symlinks">>, TRUE)}

\* Who asks for an article, a cached file or a path is all one.
Symmetry == Permutations(ArticleCallers)

-----------------------------------------------------------------------------
(* What the proofs take for granted of the instances. *)

\* Who confirms an article asks for none, and there is somebody to ask.
ASSUME ArticleAssumption ==
  /\ ArticleCallers \cap ArticleConfirmers = {}
  /\ ArticleProviders \in Seq(Article!Names) \ {<<>>}
  /\ ArticleRetries \in Nat

\* A slot is not what stands for no window, and a file is some articles long.
ASSUME AheadAssumption ==
  /\ AheadSlots \subseteq Nat \ {0}
  /\ AheadArticles \in Nat /\ AheadWindow \in Nat

\* What the route is before any is set is no tunnel.
ASSUME SettingsAssumption == Live!NoRoute \notin SettingsTunnelled

\* Releases are numbered, and the grace period is a time.
ASSUME LinksAssumption == LinkReleases \in Nat /\ LinkGrace \in Nat

-----------------------------------------------------------------------------
vars == <<at, v1, v2, v3, v4, v5, v6, v7, v8, v9, v10, v11, v12>>

\* The variables from the fourth, fifth, sixth and eighth on, of which a component has no use.
from8 == <<v8, v9, v10, v11, v12>>
from6 == <<v6, v7, from8>>
from5 == <<v5, from6>>
from4 == <<v4, from5>>
off8 == v8 = "off" /\ v9 = "off" /\ v10 = "off" /\ v11 = "off" /\ v12 = "off"
off6 == v6 = "off" /\ v7 = "off" /\ off8
off5 == v5 = "off" /\ off6
off4 == v4 = "off" /\ off5

Init ==
  \/ at = "article" /\ Article!Init /\ off6
  \/ at = "disk" /\ Disk!Init /\ off5
  \/ at = "ahead" /\ Ahead!Init /\ off4
  \/ at = "rar" /\ Rar!Init /\ off5
  \/ at = "direct" /\ Direct!Init /\ off6
  \/ at = "decoded" /\ Decoded!Init /\ off6
  \/ at = "settings" /\ Live!Init
  \/ at = "content" /\ Content!Init /\ off8
  \/ at = "links" /\ Links!Init /\ off8
  \/ at = "library" /\ Library!Init /\ v12 = "off"

Next ==
  \/ at = "article" /\ Article!Next /\ UNCHANGED <<at, from6>>
  \/ at = "disk" /\ Disk!Next /\ UNCHANGED <<at, from5>>
  \/ at = "ahead" /\ Ahead!Next /\ UNCHANGED <<at, from4>>
  \/ at = "rar" /\ Rar!Next /\ UNCHANGED <<at, from5>>
  \/ at = "direct" /\ Direct!Next /\ UNCHANGED <<at, from6>>
  \/ at = "decoded" /\ Decoded!Next /\ UNCHANGED <<at, from6>>
  \/ at = "settings" /\ Live!Next /\ UNCHANGED at
  \/ at = "content" /\ Content!Next /\ UNCHANGED <<at, from8>>
  \/ at = "links" /\ Links!Next /\ UNCHANGED <<at, from8>>
  \/ at = "library" /\ Library!Next /\ UNCHANGED <<at, v12>>

Spec == Init /\ [][Next]_vars

-----------------------------------------------------------------------------
\* Every component's state is of its type.
TypeOK ==
  CASE at = "article" -> Article!TypeOK
    [] at = "disk" -> Disk!TypeOK
    [] at = "ahead" -> Ahead!TypeOK
    [] at = "rar" -> Rar!TypeOK
    [] at = "direct" -> Direct!TypeOK
    [] at = "decoded" -> Decoded!TypeOK
    [] at = "settings" -> Live!TypeOK
    [] at = "content" -> Content!TypeOK
    [] at = "links" -> Links!TypeOK
    [] at = "library" -> Library!TypeOK

\* A day-long mark stands for an article that nobody has, or for a provider that
\* failed to answer; a tripped breaker is no proof.
DayMarkIsProof == at = "article" => Article!DayMarkIsProof

\* Who waits on a flight waits for one whose leader will close it.
RiderHasLeader == at = "article" => Article!RiderHasLeader

\* No file of the disk cache is outside its index but for what is being done to it,
\* and a finished storage maintenance has left no link without a row and no row
\* without a link that were there when it began.
NoOrphanFile ==
  /\ at = "disk" => Disk!NoOrphanFile
  /\ at = "library" => Library!SweepIsThorough

\* A window that fetches is held by its session, so it can be stopped, and a session by
\* an open handle that reads; between updates of the settings the program runs on what
\* is saved, and no session of the pipeline is one of an earlier route.
NoOrphanWindow ==
  /\ at = "ahead" => Ahead!NoOrphanWindow
  /\ at = "content" => Content!SessionIsOfAReader
  /\ at = "settings" => Live!SavedIsRunning /\ Live!NoOldRoute

\* A sequential read gets the file's bytes, whether the file is stored as it is or
\* inside RAR volumes, and what a path is said to be, it was but a moment ago.
ReadIsTrue ==
  /\ at = "rar" => Rar!SequentialReadIsTrue
  /\ at = "direct" => Direct!DirectReadIsTrue
  /\ at = "content" => Content!AnswerIsRecent
  /\ at = "links" => Links!AnswerIsRecent

\* One reader's rejected copy is out of both layers when its read fails.
RejectedIsForgotten == at = "decoded" => Decoded!RejectedIsForgotten
=============================================================================
