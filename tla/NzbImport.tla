------------------------------ MODULE NzbImport ------------------------------
(***************************************************************************)
(* How an NZB gets in from outside: addurl and addfile of the SABnzbd      *)
(* interface (api/sabnzbd_handlers.go, workflow.ImportNZBFromPush) and the *)
(* manual upload (queue.ImportNZB, nzb.Importer), for one URL and one      *)
(* document.  A URL is fetched once per cooldown, which is kept in memory  *)
(* and in the database; a document is one row under its idempotency key,   *)
(* and only who creates the row starts the chain that publishes it.        *)
(* Releases past the first are ReleaseLifecycle's.                         *)
(***************************************************************************)
EXTENDS Integers, FiniteSets

CONSTANTS
  Clients,
  MaxImports,  \* capacity of importSem
  MaxRows,     \* bound on the rows ever made
  Faults       \* bound on failed statements and restarts

VARIABLES
  cooldown,    \* the URL in recentURLHits and in recent_url_fetches
  granted,     \* history: fetches allowed since the cooldown began, and whether a claim failed
  queue,       \* the row of each key, and the last id given
  importSem,   \* who holds a place
  client,      \* per client: where its request is
  chain,       \* per client: the chain its push started
  faultCount   \* failed statements and restarts so far

importVars == <<cooldown, granted, queue, importSem, client, chain, faultCount>>

Keys == {"push", "manual"}
NoRow == [id |-> 0, state |-> "absent"]
Idle == [pc |-> "idle"]
NoChain == [pc |-> "none"]
States == {"absent", "indexing", "preflight", "publishing", "available", "failed", "requested"}
Transitional == {"indexing", "preflight", "publishing"}

TypeOK ==
  /\ cooldown \in [memory : BOOLEAN, persisted : BOOLEAN]
  /\ granted \in [count : 0 .. 2, blind : BOOLEAN]
  /\ \A k \in Keys : queue.row[k].id \in 0 .. queue.last /\ queue.row[k].state \in States
  /\ importSem \subseteq Clients /\ Cardinality(importSem) <= MaxImports
  /\ \A c \in Clients : chain[c].pc = "none" \/ chain[c].id \in 1 .. queue.last
  /\ faultCount \in 0 .. Faults

Init ==
  /\ cooldown = [memory |-> FALSE, persisted |-> FALSE]
  /\ granted = [count |-> 0, blind |-> FALSE]
  /\ queue = [row |-> [k \in Keys |-> NoRow], last |-> 0]
  /\ importSem = {}
  /\ client = [c \in Clients |-> Idle]
  /\ chain = [c \in Clients |-> NoChain]
  /\ faultCount = 0

At(c, pc) == client' = [client EXCEPT ![c] = [pc |-> pc]]
Returns(c) == client' = [client EXCEPT ![c] = Idle]
Fails == faultCount < Faults /\ faultCount' = faultCount + 1
Works == UNCHANGED faultCount

-----------------------------------------------------------------------------
\* handleAddFile, handleAddURL, and the upload; a client's second request waits for the
\* chain of its first only to keep the model small.
Request(c) ==
  /\ client[c] = Idle /\ chain[c] = NoChain
  /\ \E pc \in {"peek", "sem", "manual"} : At(c, pc)
  /\ UNCHANGED <<cooldown, granted, queue, importSem, chain, faultCount>>

\* ClaimURLForFetch: a hot URL is refused out of memory.
Peek(c) ==
  /\ client[c].pc = "peek"
  /\ IF cooldown.memory THEN Returns(c) ELSE At(c, "claim")
  /\ UNCHANGED <<cooldown, granted, queue, importSem, chain, faultCount>>

\* Counted no further than two, which is one too many.
Grant(c) ==
  /\ granted' = [granted EXCEPT !.count = IF @ < 2 THEN @ + 1 ELSE @]
  /\ At(c, "mark")

\* The claim is left to memory alone.
M_Claim(c) ==
  /\ client[c].pc = "claim" /\ Works
  /\ IF cooldown.memory THEN Returns(c) /\ UNCHANGED granted ELSE Grant(c)
  /\ UNCHANGED <<cooldown, queue, importSem, chain>>

\* ClaimURLDispatchPersisted, one statement.
Claim(c) ==
  /\ client[c].pc = "claim" /\ Works
  /\ IF cooldown.persisted
     THEN Returns(c) /\ UNCHANGED <<granted, cooldown>>
     ELSE Grant(c) /\ cooldown' = [cooldown EXCEPT !.persisted = TRUE]
  /\ UNCHANGED <<queue, importSem, chain>>

\* The statement fails, and the claim falls back to memory.
ClaimInMemory(c) ==
  /\ client[c].pc = "claim" /\ Fails
  /\ granted' = [granted EXCEPT !.blind = TRUE]
  /\ cooldown' = [cooldown EXCEPT !.memory = TRUE]
  /\ IF cooldown.memory THEN Returns(c) ELSE At(c, "fetch")
  /\ UNCHANGED <<queue, importSem, chain>>

\* markURLDispatchedInMemory
Mark(c) ==
  /\ client[c].pc = "mark"
  /\ cooldown' = [cooldown EXCEPT !.memory = TRUE]
  /\ At(c, "fetch")
  /\ UNCHANGED <<granted, queue, importSem, chain, faultCount>>

\* fetchRemote; the claim stays when it fails.
Fetch(c) ==
  /\ client[c].pc = "fetch"
  /\ \/ At(c, "sem") /\ Works
     \/ Returns(c) /\ Fails
  /\ UNCHANGED <<cooldown, granted, queue, importSem, chain>>

\* The cooldown ends.  The mark in memory is the older of the two.
Lapse ==
  /\ \/ cooldown.memory /\ cooldown' = [cooldown EXCEPT !.memory = FALSE] /\ UNCHANGED granted
     \/ /\ cooldown.persisted /\ ~ cooldown.memory
        /\ \A c \in Clients : client[c].pc # "mark"
        /\ cooldown' = [cooldown EXCEPT !.persisted = FALSE]
        /\ granted' = [count |-> 0, blind |-> FALSE]
  /\ UNCHANGED <<queue, importSem, client, chain, faultCount>>

-----------------------------------------------------------------------------
TakePlace(c) ==
  /\ client[c].pc = "sem"
  /\ Cardinality(importSem) < MaxImports
  /\ importSem' = importSem \cup {c}
  /\ At(c, "create")
  /\ UNCHANGED <<cooldown, granted, queue, chain, faultCount>>

\* CreateImportedNZBIfAbsent: under the lock of the key, the row is there or is made.
\* Every caller is told that it made the row.
M_CreateIfAbsent(k) ==
  IF queue.row[k] # NoRow
  THEN [queue |-> queue, id |-> queue.row[k].id, created |-> TRUE]
  ELSE LET id == queue.last + 1
       IN [queue |-> [row |-> [queue.row EXCEPT ![k] = [id |-> id, state |-> "indexing"]], last |-> id],
           id |-> id, created |-> TRUE]

CreateIfAbsent(k) ==
  IF queue.row[k] # NoRow
  THEN [queue |-> queue, id |-> queue.row[k].id, created |-> FALSE]
  ELSE LET id == queue.last + 1
       IN [queue |-> [row |-> [queue.row EXCEPT ![k] = [id |-> id, state |-> "indexing"]], last |-> id],
           id |-> id, created |-> TRUE]

\* createSABPushImport.  Who finds the row is answered with it and starts nothing.
Create(c) ==
  LET made == CreateIfAbsent("push") IN
  /\ client[c].pc = "create"
  /\ made.queue.last <= MaxRows
  /\ importSem' = importSem \ {c}
  /\ \/ /\ queue' = made.queue /\ Works
        /\ client' = [client EXCEPT ![c] = IF made.created THEN [pc |-> "summary", id |-> made.id] ELSE Idle]
     \/ /\ Fails /\ Returns(c)
        /\ UNCHANGED queue
  /\ UNCHANGED <<cooldown, granted, chain>>

\* The summary of the new row is read before its chain starts; when that fails the row
\* stays as it is.
StartChain(c) ==
  /\ client[c].pc = "summary"
  /\ \/ Works /\ chain' = [chain EXCEPT ![c] = [pc |-> "index", id |-> client[c].id]]
     \/ Fails /\ UNCHANGED chain
  /\ Returns(c)
  /\ UNCHANGED <<cooldown, granted, queue, importSem>>

SetState(id, state) ==
  queue' = [queue EXCEPT !.row = [k \in Keys |-> IF queue.row[k].id = id /\ queue.row[k] # NoRow
                                                 THEN [queue.row[k] EXCEPT !.state = state] ELSE queue.row[k]]]
Goes(c, pc) == chain' = [chain EXCEPT ![c].pc = pc]
Ends(c) == chain' = [chain EXCEPT ![c] = NoChain]

\* SetImportedNZBIndexed, by the row's id whatever its state.
Indexed(c) ==
  /\ chain[c].pc = "index"
  /\ \/ SetState(chain[c].id, "preflight") /\ Goes(c, "preflight") /\ Works
     \/ Ends(c) /\ UNCHANGED queue /\ Fails
  /\ UNCHANGED <<cooldown, granted, importSem, client>>

\* The preflight check and the count of files; MarkQueueItemPublishing; a failure ends the
\* release (promoteNextAfterFailure), which is the row's only one.
Preflight(c) ==
  /\ chain[c].pc = "preflight" /\ Works
  /\ \/ SetState(chain[c].id, "publishing") /\ Goes(c, "publish")
     \/ SetState(chain[c].id, "failed") /\ Ends(c)
  /\ UNCHANGED <<cooldown, granted, importSem, client>>

\* postImportHook: verified and published, or failed and blocklisted.
Publish(c) ==
  /\ chain[c].pc = "publish" /\ Works
  /\ \E state \in {"available", "failed"} : SetState(chain[c].id, state)
  /\ Ends(c)
  /\ UNCHANGED <<cooldown, granted, importSem, client>>

\* The chain's ten minutes are over: its next statement and the one that would fail the
\* release both fail.
TimeOut(c) ==
  /\ chain[c] # NoChain /\ Fails
  /\ Ends(c)
  /\ UNCHANGED <<cooldown, granted, queue, importSem, client>>

-----------------------------------------------------------------------------
\* Importer.importFromOpenFile: the row is made or found.
ManualCreate(c) ==
  LET made == CreateIfAbsent("manual") IN
  /\ client[c].pc = "manual" /\ Works
  /\ made.queue.last <= MaxRows
  /\ queue' = made.queue
  /\ client' = [client EXCEPT ![c] = [pc |-> "indexed", id |-> made.id]]
  /\ UNCHANGED <<cooldown, granted, importSem, chain>>

\* SetImportedNZBIndexed, for a row that was found too.
ManualIndexed(c) ==
  /\ client[c].pc = "indexed" /\ Works
  /\ SetState(client[c].id, "preflight")
  /\ client' = [client EXCEPT ![c].pc = "hook"]
  /\ UNCHANGED <<cooldown, granted, importSem, chain>>

\* ImportNZB runs the hook in the request.
ManualPublish(c) ==
  /\ client[c].pc = "hook" /\ Works
  /\ \/ \E state \in {"available", "failed"} : SetState(client[c].id, state)
     \/ UNCHANGED queue
  /\ Returns(c)
  /\ UNCHANGED <<cooldown, granted, importSem, chain>>

-----------------------------------------------------------------------------
\* CancelNZBDocument, whatever the state.
Cancel(k) ==
  /\ queue.row[k] # NoRow
  /\ SetState(queue.row[k].id, "failed")
  /\ UNCHANGED <<cooldown, granted, importSem, client, chain, faultCount>>

\* The library item is deleted, and its rows with it.
Delete(k) ==
  /\ queue.row[k] # NoRow
  /\ queue' = [queue EXCEPT !.row[k] = NoRow]
  /\ UNCHANGED <<cooldown, granted, importSem, client, chain, faultCount>>

\* The process restarts: ResetStuckQueueItems, then RecoverInterruptedDownloads.
Restart ==
  /\ Fails
  /\ cooldown' = [cooldown EXCEPT !.memory = FALSE]
  /\ queue' = [queue EXCEPT !.row = [k \in Keys |-> IF queue.row[k].state \in Transitional
                                                    THEN [queue.row[k] EXCEPT !.state = "requested"] ELSE queue.row[k]]]
  /\ importSem' = {}
  /\ client' = [c \in Clients |-> Idle]
  /\ chain' = [c \in Clients |-> NoChain]
  /\ UNCHANGED granted

Next ==
  \/ \E c \in Clients :
       \/ Request(c) \/ Peek(c) \/ Claim(c) \/ ClaimInMemory(c) \/ Mark(c) \/ Fetch(c)
       \/ TakePlace(c) \/ Create(c) \/ StartChain(c)
       \/ Indexed(c) \/ Preflight(c) \/ Publish(c) \/ TimeOut(c)
       \/ ManualCreate(c) \/ ManualIndexed(c) \/ ManualPublish(c)
  \/ \E k \in Keys : Cancel(k) \/ Delete(k)
  \/ Lapse \/ Restart

Spec == Init /\ [][Next]_importVars

-----------------------------------------------------------------------------
\* Of pushes of one document that run at the same time only one starts a chain on its
\* row, whatever else is done to the row (queue_repository.go:299-302).
OneChainPerDocument ==
  \A c, d \in Clients : chain[c] # NoChain /\ chain[d] # NoChain /\ chain[c].id = chain[d].id => c = d

\* A URL is fetched once per cooldown, by requests that race and across restarts, unless
\* the database did not answer a claim (workflow/service.go:2115-2142).
OneFetchPerCooldown == granted.count <= 1 \/ granted.blind
-----------------------------------------------------------------------------
(***************************************************************************)
(* What the two rest on: the id of a row is given to one caller only, who  *)
(* hands it to its chain; and a fetch that was allowed left its mark in    *)
(* the database, unless a claim went without it.                           *)
(***************************************************************************)
Announced(c) == client[c].pc = "summary"
Runs(c) == chain[c] # NoChain

Shapes ==
  /\ cooldown \in [memory : BOOLEAN, persisted : BOOLEAN] /\ granted \in [count : 0 .. 2, blind : BOOLEAN]
  /\ queue = [row |-> queue.row, last |-> queue.last] /\ queue.last \in Nat
  /\ client = [c \in Clients |-> IF client[c].pc \in {"summary", "indexed", "hook"}
                                 THEN [pc |-> client[c].pc, id |-> client[c].id] ELSE [pc |-> client[c].pc]]
  /\ chain = [c \in Clients |-> IF Runs(c) THEN [pc |-> chain[c].pc, id |-> chain[c].id] ELSE NoChain]

IdsAreGiven ==
  \A c \in Clients : /\ Announced(c) => client[c].id \in 1 .. queue.last
                     /\ Runs(c) => chain[c].id \in 1 .. queue.last

AnnouncedOnce ==
  \A c, d \in Clients : Announced(c) => /\ Announced(d) /\ client[c].id = client[d].id => c = d
                                        /\ Runs(d) => client[c].id # chain[d].id

GrantIsPersisted == granted.count > 0 => cooldown.persisted \/ granted.blind

ImportInv ==
  /\ Shapes /\ IdsAreGiven /\ AnnouncedOnce /\ OneChainPerDocument
  /\ GrantIsPersisted /\ OneFetchPerCooldown
=============================================================================
