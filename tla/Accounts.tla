------------------------------- MODULE Accounts -------------------------------
(***************************************************************************)
(* Accounts and sign-in: the login throttle (api/login_throttle.go), the   *)
(* handlers of sign-in, first set-up and users (api/auth_handlers.go,      *)
(* api/setup_handlers.go, internal/auth) and their tables                  *)
(* (database/user_repository.go).                                          *)
(*                                                                         *)
(* A request is several steps: what it reads first may be stale when it    *)
(* writes.  Passwords are right or wrong, a token is the session it stands *)
(* for, and time is a clock of a few ticks.                                *)
(***************************************************************************)
EXTENDS Integers, FiniteSets

CONSTANTS
  Requests,          \* the requests a behaviour makes
  Addresses, Names,  \* client addresses, account names
  FailureThreshold, MaxBackoff, EntryTTL,
  MaxEntries, MaxConcurrent, MaxPerIdentity,
  LastTick,          \* bound on the clock
  MaxUsers           \* bound on the accounts ever made

VARIABLES
  now,
  entries,  \* the throttle: by key, failures, inFlight, nextAllowed, lastSeen
  global,   \* globalInFlight
  users,    \* the rows of users
  tokens,   \* the ids of the users who have a session
  nextId,
  lock,     \* who holds the advisory lock of the first set-up
  req       \* per request: where it is

accountVars == <<now, entries, global, users, tokens, nextId, lock, req>>

Fresh == [failures |-> 0, inFlight |-> 0, next |-> 0, seen |-> 0]
New == [pc |-> "new", keys |-> {}, name |-> "", id |-> 0, ok |-> FALSE]
NoOne == "none"

TypeOK ==
  /\ now \in 0 .. LastTick
  /\ DOMAIN entries \subseteq Addresses \cup Names /\ Cardinality(DOMAIN entries) <= MaxEntries
  /\ \A k \in DOMAIN entries : entries[k] \in [failures : Nat, inFlight : 0 .. MaxPerIdentity, next : Nat, seen : 0 .. LastTick]
  /\ global \in 0 .. MaxConcurrent
  /\ \A u \in users : u.id < nextId /\ u.name \in Names /\ u.admin \in BOOLEAN /\ u.setup \in BOOLEAN
  /\ tokens \subseteq {u.id : u \in users}
  /\ lock \in Requests \cup {NoOne}
  /\ \A r \in Requests : req[r].keys \subseteq Addresses \cup Names /\ req[r].id < nextId

Init ==
  /\ now = 0
  /\ entries = [k \in {} |-> Fresh]
  /\ global = 0
  /\ users = {} /\ tokens = {} /\ nextId = 1
  /\ lock = NoOne
  /\ req = [r \in Requests |-> New]

At(r, pc) == req[r].pc = pc
Goto(r, pc) == req' = [req EXCEPT ![r].pc = pc]
Named(n) == {u \in users : u.name = n}
throttleVars == <<entries, global>>
tableVars == <<users, tokens, nextId>>

-----------------------------------------------------------------------------
\* The throttle.

Tick == /\ now < LastTick
        /\ now' = now + 1
        /\ UNCHANGED <<entries, global, users, tokens, nextId, lock, req>>

Entry(e, k) == IF k \in DOMAIN e THEN e[k] ELSE Fresh

\* The wait after that many failures, in ticks: doubled at each further one.
backoff(failures) == LET steps == failures - FailureThreshold
                     IN IF 2 ^ steps > MaxBackoff THEN MaxBackoff ELSE 2 ^ steps

Without(e, keys) == [k \in DOMAIN e \ keys |-> e[k]]

\* The prune that begin makes on every 64th operation and when the table is full.
Expired == {k \in DOMAIN entries : entries[k].inFlight = 0 /\ now - entries[k].seen >= EntryTTL}
pruneExpired == IF Cardinality(DOMAIN entries) >= MaxEntries
                  THEN {Without(entries, Expired)} ELSE {entries, Without(entries, Expired)}

Waits(e, keys) == \E k \in keys : \/ Entry(e, k).next > now
                                  \/ Entry(e, k).inFlight >= MaxPerIdentity

\* The entries ensureCapacityLocked may drop; the ones not blocked go first, and of
\* these the one seen longest ago.
M_Evictable(e, keys) == DOMAIN e \ keys

Evictable(e, keys) == {k \in DOMAIN e \ keys : e[k].inFlight = 0}

Before(a, b) == LET blocked(x) == x.next > now
                IN IF blocked(a) # blocked(b) THEN blocked(b) ELSE a.seen <= b.seen

Room(e, keys) == MaxEntries - Cardinality(DOMAIN e \cup keys)

\* What it drops to make room: as many as are missing, or all it can when that is
\* not enough.
ensureCapacity(e, keys) ==
  LET can == Evictable(e, keys)
      needed == IF Room(e, keys) >= 0 THEN 0 ELSE -Room(e, keys)
  IN {v \in SUBSET can :
        /\ Cardinality(v) = (IF needed > Cardinality(can) THEN Cardinality(can) ELSE needed)
        /\ \A a \in v, b \in can \ v : Before(e[a], e[b])}

Admitted(e, keys) ==
  [k \in DOMAIN e \cup keys |-> IF k \in keys THEN [Entry(e, k) EXCEPT !.inFlight = @ + 1, !.seen = now] ELSE e[k]]

\* One attempt at POST /api/auth/login: begin admits it or answers 429.
begin(r) ==
  /\ At(r, "new")
  /\ \E a \in Addresses, n \in Names, e \in pruneExpired :
       LET keys == {a, n} IN
       \/ /\ global >= MaxConcurrent \/ Waits(e, keys)
          /\ entries' = e
          /\ Goto(r, "done") /\ UNCHANGED global
       \/ /\ global < MaxConcurrent /\ ~Waits(e, keys)
          /\ \E v \in ensureCapacity(e, keys) :
               LET left == Without(e, v) IN
               IF Room(left, keys) < 0
                 THEN entries' = left /\ Goto(r, "done") /\ UNCHANGED global
                 ELSE /\ entries' = Admitted(left, keys)
                      /\ global' = global + 1
                      /\ req' = [req EXCEPT ![r].pc = "look", ![r].keys = keys, ![r].name = n]
  /\ UNCHANGED <<now, users, tokens, nextId, lock>>

\* The deferred finish, once for every attempt that was admitted.
M_finish(r, success) ==
  /\ entries' = [k \in DOMAIN entries |->
       LET e == entries[k] IN
       IF k \notin req[r].keys THEN e
       ELSE IF success THEN [failures |-> 0, inFlight |-> e.inFlight, next |-> 0, seen |-> now]
       ELSE [failures |-> e.failures + 1, inFlight |-> e.inFlight - 1, seen |-> now,
             next |-> IF e.failures + 1 >= FailureThreshold THEN now + backoff(e.failures + 1) ELSE e.next]]
  /\ global' = global - 1

finish(r, success) ==
  /\ entries' = [k \in DOMAIN entries |->
       LET e == entries[k] IN
       IF k \notin req[r].keys THEN e
       ELSE IF success THEN [failures |-> 0, inFlight |-> e.inFlight - 1, next |-> 0, seen |-> now]
       ELSE [failures |-> e.failures + 1, inFlight |-> e.inFlight - 1, seen |-> now,
             next |-> IF e.failures + 1 >= FailureThreshold THEN now + backoff(e.failures + 1) ELSE e.next]]
  /\ global' = global - 1

\* GetUserByUsername and the check of the password, which is done for an unknown
\* name as well.
CheckPassword(r) ==
  /\ At(r, "look")
  /\ \/ /\ finish(r, FALSE) /\ Goto(r, "done")
        /\ UNCHANGED tableVars
     \/ \E u \in Named(req[r].name) :
          /\ req' = [req EXCEPT ![r].pc = "session", ![r].id = u.id]
          /\ UNCHANGED <<entries, global, users, tokens, nextId>>
  /\ UNCHANGED <<now, lock>>

\* CreateSession fails when the account was deleted in between; the attempt counts
\* as a success all the same.
CreateSession(r) ==
  /\ At(r, "session")
  /\ tokens' = tokens \cup ({req[r].id} \cap {u.id : u \in users})
  /\ finish(r, TRUE)
  /\ Goto(r, "done")
  /\ UNCHANGED <<now, users, nextId, lock>>

-----------------------------------------------------------------------------
\* First set-up.

\* handleSetupComplete: the count without the lock, then CreateInitialAdmin's
\* transaction, which counts again under it.
SetupBegin(r) ==
  /\ At(r, "new")
  /\ Goto(r, IF users = {} THEN "setup" ELSE "done")
  /\ UNCHANGED <<now, entries, global, users, tokens, nextId, lock>>

M_SetupLock(r) ==
  /\ At(r, "setup")
  /\ Goto(r, IF users = {} THEN "insert" ELSE "done")
  /\ UNCHANGED <<now, entries, global, users, tokens, nextId, lock>>

SetupLock(r) ==
  /\ At(r, "setup") /\ lock = NoOne
  /\ IF users = {} THEN lock' = r /\ Goto(r, "insert") ELSE UNCHANGED lock /\ Goto(r, "done")
  /\ UNCHANGED <<now, entries, global, users, tokens, nextId>>

Insert(n, admin, setup) ==
  /\ Named(n) = {} /\ nextId <= MaxUsers
  /\ users' = users \cup {[id |-> nextId, name |-> n, admin |-> admin, setup |-> setup]}
  /\ nextId' = nextId + 1

CreateInitialAdmin(r) ==
  /\ At(r, "insert")
  /\ \E n \in Names : Insert(n, TRUE, TRUE)
  /\ lock' = NoOne
  /\ req' = [req EXCEPT ![r].pc = "signin", ![r].id = nextId]
  /\ UNCHANGED <<now, entries, global, tokens>>

SignIn(r) ==
  /\ At(r, "signin")
  /\ tokens' = tokens \cup ({req[r].id} \cap {u.id : u \in users})
  /\ Goto(r, "done")
  /\ UNCHANGED <<now, entries, global, users, nextId, lock>>

-----------------------------------------------------------------------------
\* Requests with a session.

\* The middleware resolves the token; the handler then goes by the claims it found.
Middleware(r) ==
  /\ At(r, "new")
  /\ \E id \in tokens : req' = [req EXCEPT ![r].pc = "claims", ![r].id = id,
                                           ![r].ok = \E u \in users : u.id = id /\ u.admin]
  /\ UNCHANGED <<now, entries, global, users, tokens, nextId, lock>>

handleLogout(r) ==
  /\ At(r, "claims")
  /\ tokens' = tokens \ {req[r].id}
  /\ Goto(r, "done")
  /\ UNCHANGED <<now, entries, global, users, nextId, lock>>

handleCreateUser(r) ==
  /\ At(r, "claims") /\ req[r].ok
  /\ \E n \in Names, admin \in BOOLEAN : Insert(n, admin, FALSE)
  /\ Goto(r, "done")
  /\ UNCHANGED <<now, entries, global, tokens, lock>>

\* Nobody deletes the account they are signed in to; sessions go with the account.
handleDeleteUser(r) ==
  /\ At(r, "claims") /\ req[r].ok
  /\ \E u \in users : /\ u.id # req[r].id
                      /\ users' = users \ {u} /\ tokens' = tokens \ {u.id}
  /\ Goto(r, "done")
  /\ UNCHANGED <<now, entries, global, nextId, lock>>

\* Sessions end by their age.
PruneExpiredAuthTokens ==
  /\ \E id \in tokens : tokens' = tokens \ {id}
  /\ UNCHANGED <<now, entries, global, users, nextId, lock, req>>

Next ==
  \/ Tick
  \/ PruneExpiredAuthTokens
  \/ \E r \in Requests :
       \/ begin(r) \/ CheckPassword(r) \/ CreateSession(r)
       \/ SetupBegin(r) \/ SetupLock(r) \/ CreateInitialAdmin(r) \/ SignIn(r)
       \/ Middleware(r) \/ handleLogout(r) \/ handleCreateUser(r) \/ handleDeleteUser(r)

Spec == Init /\ [][Next]_accountVars

-----------------------------------------------------------------------------
UnderWay == {r \in Requests : req[r].pc \in {"look", "session"}}
Holders(k) == {r \in UnderWay : k \in req[r].keys}

\* The throttle's places are those of the attempts under way: none leaks by an
\* eviction between begin and finish, and none is given back twice.
SlotsAreReturned ==
  /\ global = Cardinality(UnderWay)
  /\ \A k \in Addresses \cup Names : Entry(entries, k).inFlight = Cardinality(Holders(k))

\* Two first set-ups at once make one account.
OneFirstAdmin == Cardinality({u \in users : u.setup}) <= 1

-----------------------------------------------------------------------------
Request ==
  [pc : {"new", "look", "session", "setup", "insert", "signin", "claims", "done"},
   keys : SUBSET (Addresses \cup Names), name : Names \cup {""}, id : Nat, ok : BOOLEAN]

Shapes ==
  /\ \A k \in DOMAIN entries : "inFlight" \in DOMAIN entries[k] /\ entries[k].inFlight \in Int
  /\ global \in Int
  /\ users \subseteq [id : Nat, name : Names, admin : BOOLEAN, setup : BOOLEAN]
  /\ tokens \subseteq Nat /\ nextId \in Nat
  /\ lock \in Requests \cup {NoOne}
  /\ req \in [Requests -> Request]

\* Whoever is about to make the first account has the lock, and nobody has made it.
FirstIsLocked ==
  /\ \A r \in Requests : At(r, "insert") => lock = r /\ \A u \in users : ~ u.setup
  /\ \A u, w \in users : u.setup /\ w.setup => u = w

UsersInv == Shapes /\ SlotsAreReturned /\ FirstIsLocked
=============================================================================
