------------------------------- MODULE WebDav -------------------------------
(***************************************************************************)
(* The WebDAV front of internal/dav/handler.go: two namespaces served from *)
(* snapshots of the catalogue that are rebuilt behind a singleflight when   *)
(* they are older than TTL, and handles that open their file at the first  *)
(* read.  A path is a sequence of names; a handle's bytes are left out.    *)
(***************************************************************************)
EXTENDS Integers, Sequences, FiniteSets

CONSTANTS
  Clients,      \* requests and handles of the HTTP server
  Catalogues,   \* what the database comes to hold: a sequence of [files, links]
  Requests,     \* what is asked: [path, open], open when it is not only a Stat
  TTL,          \* defaultCompletedTreeCacheTTL, in ticks
  BuildTicks,   \* bound: a rebuild takes no longer
  MaxNow        \* bound on the clock

VARIABLES
  now,          \* the clock
  catalogue,    \* the place of the database in Catalogues
  held,         \* held[t]: what it was at tick t
  cache,        \* the snapshot of each namespace: when it was made, if it was
  flight,       \* the rebuild of each namespace under way
  client,       \* what each client is about
  sessions      \* the place each handle with a read-ahead session last told it

vars == <<now, catalogue, held, cache, flight, client, sessions>>

Sections == {"content", "completed-symlinks"}
None == [kind |-> "none", size |-> 0, names |-> {}]
Dir(names) == [kind |-> "dir", size |-> 0, names |-> names]
File(size) == [kind |-> "file", size |-> size, names |-> {}]

-----------------------------------------------------------------------------
(* The two namespaces. *)

\* Below /content/releases/{id}/{name}: the files of the index, by release.
ContentAt(files, rest) ==
  CASE rest = <<>> -> Dir({"releases"})
    [] rest = <<"releases">> -> Dir({f.release : f \in files})
    [] Len(rest) = 2 /\ rest[1] = "releases" ->
         LET names == {f.name : f \in {g \in files : g.release = rest[2]}}
         IN IF names = {} THEN None ELSE Dir(names)
    [] Len(rest) = 3 /\ rest[1] = "releases" ->
         LET here == {f \in files : f.release = rest[2] /\ f.name = rest[3]}
         IN IF here = {} THEN None ELSE File((CHOOSE f \in here : TRUE).size)
    [] OTHER -> None

\* A link's place below /completed-symlinks: under movies or tv as its library is, or
\* by its base name alone.
RelPath(library) ==
  IF library[1] \in {"movies", "tv"} THEN library ELSE <<library[Len(library)]>>

\* The tree: the leaves by their path; of two publications with one path the later one.
BuildTree(links) ==
  [p \in {RelPath(links[i].library) : i \in DOMAIN links} |->
     links[CHOOSE i \in DOMAIN links :
             /\ RelPath(links[i].library) = p
             /\ \A j \in DOMAIN links : RelPath(links[j].library) = p => j <= i].target]

\* The node of a path of the tree: a leaf, or the directory above some leaf.
Below(tree, rest) == {p \in DOMAIN tree : Len(p) > Len(rest) /\ SubSeq(p, 1, Len(rest)) = rest}
CompletedAt(tree, rest) ==
  IF rest \in DOMAIN tree THEN File(1)
  ELSE IF Below(tree, rest) # {} \/ rest = <<>>
       THEN Dir({p[Len(rest) + 1] : p \in Below(tree, rest)})
       ELSE None

\* A Stat has the same answer as an OpenFile, but for a directory's listing.
StatContent(files, rest) == [ContentAt(files, rest) EXCEPT !.names = {}]
StatCompleted(tree, rest) == [CompletedAt(tree, rest) EXCEPT !.names = {}]

\* What a request is told of a path, given the snapshot of its namespace.
Stat(snapshot, path) ==
  CASE path = <<>> -> Dir({})
    [] path # <<>> /\ Head(path) = "content" -> StatContent(snapshot, Tail(path))
    [] path # <<>> /\ Head(path) = "completed-symlinks" -> StatCompleted(snapshot, Tail(path))
    [] OTHER -> None
OpenFile(snapshot, path) ==
  CASE path = <<>> -> Dir({"content", "completed-symlinks"})
    [] path # <<>> /\ Head(path) = "content" -> ContentAt(snapshot, Tail(path))
    [] path # <<>> /\ Head(path) = "completed-symlinks" -> CompletedAt(snapshot, Tail(path))
    [] OTHER -> None
Told(r, snapshot) == IF r.open THEN OpenFile(snapshot, r.path) ELSE Stat(snapshot, r.path)

\* The top directories are answered without one.
NeedsSnapshot(r) ==
  /\ r.path # <<>>
  /\ \/ /\ r.path[1] = "content"
        /\ Len(r.path) >= IF r.open THEN 2 ELSE 3
        /\ r.open \/ r.path[2] = "releases"
     \/ /\ r.path[1] = "completed-symlinks"
        /\ r.open \/ Len(r.path) >= 2

Snapshot(section, c) == IF section = "content" THEN c.files ELSE BuildTree(c.links)

-----------------------------------------------------------------------------
NoFlight == [state |-> "none", leader |-> "none", of |-> {}, begun |-> 0]
NoCache == [made |-> FALSE, of |-> {}, at |-> 0]
Idle == [at |-> "idle"]

\* A handle: what OpenFile returns for a file of /content.  "vf" is what ensureOpen left.
Handle(path, size) ==
  [at |-> "handle", path |-> path, size |-> size, vf |-> "unopened", pos |-> 0,
   hasRead |-> FALSE, lastEnd |-> 0]
Moved(c, place) == IF c \in DOMAIN sessions THEN [sessions EXCEPT ![c] = place] ELSE sessions
Without(cs) == [c \in DOMAIN sessions \ cs |-> sessions[c]]

Init ==
  /\ now = 0
  /\ catalogue = 1
  /\ held = [t \in 0..MaxNow |-> IF t = 0 THEN {catalogue} ELSE {}]
  /\ cache = [s \in Sections |-> NoCache]
  /\ flight = [s \in Sections |-> NoFlight]
  /\ client = [c \in Clients |-> Idle]
  /\ sessions = <<>>

Section(c) == Head(client[c].path)

\* Time passes, but no rebuild takes more than BuildTicks.
Tick ==
  /\ now < MaxNow
  /\ \A s \in Sections : flight[s].state # "none" => now - flight[s].begun < BuildTicks
  /\ now' = now + 1
  /\ held' = [held EXCEPT ![now + 1] = {catalogue}]
  /\ UNCHANGED <<catalogue, cache, flight, client, sessions>>

\* A release is published, calibrated or removed.
Change ==
  /\ catalogue < Len(Catalogues)
  /\ catalogue' = catalogue + 1
  /\ held' = [held EXCEPT ![now] = @ \cup {catalogue + 1}]
  /\ UNCHANGED <<now, cache, flight, client, sessions>>

\* A request that has its answer.
Answered(r, snapshot) == [r EXCEPT !.at = "answered", !.answer = Told(r, snapshot)]

\* Is the snapshot younger than TTL?
Fresh(s) == cache[s].made /\ now - cache[s].at < TTL

\* Mutant: an answer dates the snapshot anew.
M_Ask(c) ==
  /\ client[c].at = "idle"
  /\ \E r \in Requests :
       LET asked == [at |-> "missed", path |-> r.path, open |-> r.open,
                     since |-> now, gone |-> FALSE, answer |-> None]
           hit == NeedsSnapshot(r) /\ Fresh(Head(r.path))
       IN /\ client' = [client EXCEPT ![c] = IF hit THEN Answered(asked, cache[Head(r.path)].of) ELSE asked]
          /\ cache' = IF hit THEN [cache EXCEPT ![Head(r.path)].at = now] ELSE cache
  /\ UNCHANGED <<now, catalogue, held, flight, sessions>>

\* A request: one without need of a snapshot and one with a fresh one are answered at once;
\* else the lock is released and the rebuild is entered later.
Ask(c) ==
  /\ client[c].at = "idle"
  /\ \E r \in Requests :
       LET asked == [at |-> "missed", path |-> r.path, open |-> r.open,
                     since |-> now, gone |-> FALSE, answer |-> None]
       IN client' = [client EXCEPT ![c] =
            IF ~NeedsSnapshot(r) THEN Answered(asked, {})
            ELSE IF Fresh(Head(r.path)) THEN Answered(asked, cache[Head(r.path)].of)
            ELSE asked]
  /\ UNCHANGED <<now, catalogue, held, cache, flight, sessions>>

\* singleflight.Do: join the rebuild under way, or lead one.
EnterFlight(c) ==
  /\ client[c].at = "missed"
  /\ client' = [client EXCEPT ![c].at = "waits"]
  /\ flight' = IF flight[Section(c)].state # "none" THEN flight
               ELSE [flight EXCEPT ![Section(c)] =
                       [state |-> "leads", leader |-> c, of |-> {}, begun |-> now]]
  /\ UNCHANGED <<now, catalogue, held, cache, sessions>>

\* The leader's query, under the leader's context.
QueryCatalogue(s) ==
  /\ flight[s].state = "leads" /\ ~client[flight[s].leader].gone
  /\ flight' = [flight EXCEPT ![s].state = "read", ![s].of = Snapshot(s, Catalogues[catalogue])]
  /\ UNCHANGED <<now, catalogue, held, cache, client, sessions>>

\* The snapshot is swapped in, dated now, and everyone in the flight has it.
StoreSnapshot(s) ==
  /\ flight[s].state = "read"
  /\ cache' = [cache EXCEPT ![s] = [made |-> TRUE, of |-> flight[s].of, at |-> now]]
  /\ flight' = [flight EXCEPT ![s] = NoFlight]
  /\ client' = [c \in Clients |->
       IF client[c].at = "waits" /\ Section(c) = s THEN Answered(client[c], flight[s].of) ELSE client[c]]
  /\ UNCHANGED <<now, catalogue, held, sessions>>

\* The query fails, as it does once the leader's request is gone: so do the requests of
\* everyone in the flight.
FailFlight(s) ==
  /\ flight[s].state = "leads"
  /\ flight' = [flight EXCEPT ![s] = NoFlight]
  /\ client' = [c \in Clients |->
       IF client[c].at = "waits" /\ Section(c) = s THEN Idle ELSE client[c]]
  /\ UNCHANGED <<now, catalogue, held, cache, sessions>>

\* The client goes away while its request waits.
Leave(c) ==
  /\ client[c].at = "waits"
  /\ ~client[c].gone
  /\ client' = [client EXCEPT ![c].gone = TRUE]
  /\ UNCHANGED <<now, catalogue, held, cache, flight, sessions>>

\* An answered OpenFile of a file of /content goes on with its handle.
Done(c) ==
  /\ client[c].at = "answered"
  /\ client' = [client EXCEPT ![c] =
       IF @.open /\ @.answer.kind = "file" /\ Section(c) = "content" THEN Handle(@.path, @.answer.size)
       ELSE Idle]
  /\ UNCHANGED <<now, catalogue, held, cache, flight, sessions>>

-----------------------------------------------------------------------------
(* Handles. *)

\* A seek from the start, the position or the end; the session is told only of one
\* that leaves the place the last read ended at.
Seek(c) ==
  /\ client[c].at = "handle"
  /\ \E to \in {0, client[c].pos + 1, client[c].size, client[c].size - 1} :
       /\ to >= 0 /\ to <= client[c].size
       /\ client' = [client EXCEPT ![c].pos = to]
       /\ sessions' = IF client[c].hasRead /\ to # client[c].lastEnd THEN Moved(c, to) ELSE sessions
  /\ UNCHANGED <<now, catalogue, held, cache, flight>>

\* The first read opens the file; an open that failed is remembered.  A file of articles
\* gets a session, which ends every other one of the same file; an inline one gets none.
EnsureOpen(c) ==
  /\ client[c].at = "handle" /\ client[c].vf = "unopened"
  /\ \/ /\ client' = [client EXCEPT ![c].vf = "opened"]
        /\ LET others == {d \in DOMAIN sessions : client[d].path = client[c].path}
           IN sessions' = [d \in (DOMAIN sessions \ others) \cup {c} |->
                             IF d = c THEN 0 ELSE sessions[d]]
     \/ /\ \E vf \in {"opened", "failed"} : client' = [client EXCEPT ![c].vf = vf]
        /\ UNCHANGED sessions
  /\ UNCHANGED <<now, catalogue, held, cache, flight>>

\* A read of what is left, cut at the size the handle was opened with; it may come back
\* short, and one that fails or is at the end changes nothing.
Read(c) ==
  /\ client[c].at = "handle" /\ client[c].vf = "opened"
  /\ \E n \in 1..(client[c].size - client[c].pos) :
       LET end == client[c].pos + n
       IN /\ client' = [client EXCEPT ![c].pos = end, ![c].hasRead = TRUE, ![c].lastEnd = end]
          /\ sessions' = Moved(c, end)
  /\ UNCHANGED <<now, catalogue, held, cache, flight>>

\* Mutant: Close does not stop the session of a handle that was never read.
M_CloseHandle(c) ==
  /\ client[c].at = "handle"
  /\ client' = [client EXCEPT ![c] = Idle]
  /\ sessions' = IF client[c].hasRead THEN Without({c}) ELSE sessions
  /\ UNCHANGED <<now, catalogue, held, cache, flight>>

\* The handle is closed: its session, if it was given one, stops.
CloseHandle(c) ==
  /\ client[c].at = "handle"
  /\ client' = [client EXCEPT ![c] = Idle]
  /\ sessions' = Without({c})
  /\ UNCHANGED <<now, catalogue, held, cache, flight>>

Next ==
  \/ Tick \/ Change
  \/ \E s \in Sections : QueryCatalogue(s) \/ StoreSnapshot(s) \/ FailFlight(s)
  \/ \E c \in Clients :
       \/ Ask(c) \/ EnterFlight(c) \/ Leave(c) \/ Done(c)
       \/ Seek(c) \/ EnsureOpen(c) \/ Read(c) \/ CloseHandle(c)

Spec == Init /\ [][Next]_vars

-----------------------------------------------------------------------------
TypeOK ==
  /\ now \in 0..MaxNow
  /\ catalogue \in DOMAIN Catalogues
  /\ held \in [0..MaxNow -> SUBSET DOMAIN Catalogues]
  /\ \A s \in Sections : cache[s].at \in 0..MaxNow /\ flight[s].state \in {"none", "leads", "read"}
  /\ \A c \in Clients : client[c].at \in {"idle", "missed", "waits", "answered", "handle"}
  /\ DOMAIN sessions \subseteq Clients

\* What a request is told of a path is what the catalogue said of it at a moment less
\* than TTL and one rebuild before the request came (dav/handler.go:197): the hits of a
\* library scan do not prolong a snapshot, and a rebuild joined is no older.
AnswerIsRecent ==
  \A c \in Clients :
    LET r == client[c]
        span == {t \in 0..now : t > r.since - TTL - BuildTicks}
        Said(a) == \E t \in span : \E k \in held[t] : Told(r, Snapshot(Head(r.path), Catalogues[k])) = a
    IN r.at = "answered" /\ NeedsSnapshot(r) => Said(r.answer)

\* A session is of an open handle, one for a file, and is where its handle is unless the
\* handle came back by itself to where it last read (dav/handler.go:537): what only
\* lists a directory has none, and none outlives its handle.
SessionIsOfAReader ==
  \A c \in DOMAIN sessions :
    /\ client[c].at = "handle" /\ client[c].vf = "opened"
    /\ client[c].hasRead /\ sessions[c] # client[c].pos => client[c].pos = client[c].lastEnd
    /\ \A d \in DOMAIN sessions \ {c} : client[d].path # client[c].path
\* Why: a handle that has not opened its file has read nothing.
IsHandle(h) ==
  /\ DOMAIN h = {"at", "path", "size", "vf", "pos", "hasRead", "lastEnd"}
  /\ h.vf = "unopened" => h.hasRead = FALSE
SessionsInv ==
  /\ DOMAIN client = Clients
  /\ DOMAIN sessions \subseteq Clients
  /\ \A c \in Clients :
       \/ client[c] = Idle
       \/ client[c].at = "handle" /\ IsHandle(client[c])
       \/ /\ client[c].at \in {"missed", "waits", "answered"}
          /\ DOMAIN client[c] = {"at", "path", "open", "since", "gone", "answer"}
  /\ SessionIsOfAReader
=============================================================================
