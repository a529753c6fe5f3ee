----------------------------- MODULE HydraClient -----------------------------
(***************************************************************************)
(* The search client of one NZBHydra2 (internal/hydra/client.go) for one   *)
(* query: result caches versioned by the configuration, flights that let   *)
(* equal calls share one search, the limit on concurrent searches, and the *)
(* cooldown after a 429.  The configuration may be replaced at any moment, *)
(* so what a search reads of it at its start and at its request can differ.*)
(*                                                                         *)
(* A result is the generation of the configuration it was asked under.     *)
(* Time is a choice: an entry or a cooldown ends whenever it likes, and    *)
(* the pacing between two searches is left out.                            *)
(***************************************************************************)
EXTENDS Integers, FiniteSets

CONSTANTS
  Callers,
  MaxSearches,     \* maxConcurrentSearches
  MaxGenerations,  \* bound on changes of the configuration
  MaxBackoff       \* the last index of rateLimitBackoff

VARIABLES
  generation,  \* cacheGeneration, and so the server in use
  cached,      \* the entries of searchCache and feedCache
  hflight,     \* the flights: their leader by kind, generation and priority
  slots,       \* who holds a place of searchSem
  rate,        \* whether a cooldown runs, and rateLimitHits
  call         \* per caller: where it is

hydraVars == <<generation, cached, hflight, slots, rate, call>>

Kinds == {"search", "feed"}
Waiting == [pc |-> "idle"]
Asked == [kind : Kinds, priority : BOOLEAN]
NoResult == 0

TypeOK ==
  /\ generation \in 1 .. MaxGenerations
  /\ cached \subseteq [kind : Kinds, key : 1 .. MaxGenerations, server : 1 .. MaxGenerations]
  /\ \A f \in hflight : f.leader \in Callers /\ f.key \in 1 .. MaxGenerations
  /\ slots \subseteq Callers /\ Cardinality(slots) <= MaxSearches
  /\ rate \in [cooling : BOOLEAN, hits : 0 .. MaxBackoff]
  /\ \A c \in Callers : call[c].pc \in {"idle", "look", "join", "ride", "slot", "throttle", "ask", "store", "land", "done"}

Init ==
  /\ generation = 1
  /\ cached = {}
  /\ hflight = {}
  /\ slots = {}
  /\ rate = [cooling |-> FALSE, hits |-> 0]
  /\ call = [c \in Callers |-> Waiting]

-----------------------------------------------------------------------------
\* The generation is left out of the key.
M_versionedCacheKey(gen) == 1

versionedCacheKey(gen) == gen

FlightOf(l) == [kind |-> l.kind, key |-> l.key, priority |-> l.priority /\ l.kind = "search"]
Leads(f) == {c \in Callers : [kind |-> f.kind, key |-> f.key, priority |-> f.priority, leader |-> c] \in hflight}

\* SetConfig: a change empties both caches and opens a generation.
SetConfig ==
  /\ generation < MaxGenerations
  /\ generation' = generation + 1
  /\ cached' = {}
  /\ UNCHANGED <<hflight, slots, rate, call>>

\* Search and SearchRecent read the generation first.
Call(c, asked) ==
  /\ call[c] = Waiting
  /\ call' = [call EXCEPT ![c] = [pc |-> "look", kind |-> asked.kind, priority |-> asked.priority,
                                  since |-> generation, key |-> versionedCacheKey(generation)]]
  /\ UNCHANGED <<generation, cached, hflight, slots, rate>>

Done(l, result) == [pc |-> "done", since |-> l.since, result |-> result]

\* lookupCache
Lookup(c) ==
  LET l == call[c]
      hits == {e \in cached : e.kind = l.kind /\ e.key = l.key}
  IN
  /\ l.pc = "look"
  /\ IF hits = {} THEN call' = [call EXCEPT ![c].pc = "join"]
     ELSE \E e \in hits : call' = [call EXCEPT ![c] = Done(l, e.server)]
  /\ UNCHANGED <<generation, cached, hflight, slots, rate>>

\* Do: lead, or ride along.
Join(c) ==
  LET l == call[c] IN
  /\ l.pc = "join"
  /\ IF Leads(FlightOf(l)) = {}
     THEN /\ hflight' = hflight \cup {[kind |-> l.kind, key |-> l.key, priority |-> FlightOf(l).priority, leader |-> c]}
          /\ call' = [call EXCEPT ![c].pc = IF l.kind = "search" /\ ~ l.priority THEN "slot" ELSE "throttle"]
     ELSE /\ call' = [call EXCEPT ![c].pc = "ride"]
          /\ UNCHANGED hflight
  /\ UNCHANGED <<generation, cached, slots, rate>>

\* The rider's own context ends.
Leave(c) ==
  /\ call[c].pc = "ride"
  /\ call' = [call EXCEPT ![c] = Waiting]
  /\ UNCHANGED <<generation, cached, hflight, slots, rate>>

\* searchSem, for a search that is not a user's own.
TakeSlot(c) ==
  /\ call[c].pc = "slot"
  /\ Cardinality(slots) < MaxSearches
  /\ slots' = slots \cup {c}
  /\ call' = [call EXCEPT ![c].pc = "throttle"]
  /\ UNCHANGED <<generation, cached, hflight, rate>>

\* throttle: nothing is asked during a cooldown, whoever asks.  The address and the key
\* of the server in use are read for the request.
Throttle(c) ==
  LET l == call[c] IN
  /\ l.pc = "throttle"
  /\ call' = [call EXCEPT ![c] = IF rate.cooling THEN [pc |-> "land", kind |-> l.kind, priority |-> l.priority,
                                                       key |-> l.key, since |-> l.since, result |-> NoResult]
                                 ELSE [pc |-> "ask", kind |-> l.kind, priority |-> l.priority,
                                       key |-> l.key, since |-> l.since, server |-> generation]]
  /\ UNCHANGED <<generation, cached, hflight, slots, rate>>

\* doSearchRequest: a 429 starts a cooldown (startCooldown), a status that is not 2xx is
\* an error, anything else is a success (recordSuccess) even when its body tells of an
\* error.
Ask(c) ==
  LET l == call[c] IN
  /\ l.pc = "ask"
  /\ \/ /\ rate' = [cooling |-> TRUE, hits |-> IF rate.hits < MaxBackoff THEN rate.hits + 1 ELSE rate.hits]
        /\ call' = [call EXCEPT ![c] = [pc |-> "land", kind |-> l.kind, priority |-> l.priority,
                                        key |-> l.key, since |-> l.since, result |-> NoResult]]
     \/ \E ok \in BOOLEAN :
        /\ rate' \in {rate, [rate EXCEPT !.hits = IF @ > 0 THEN @ - 1 ELSE 0]}
        /\ ok => rate'.hits = (IF rate.hits > 0 THEN rate.hits - 1 ELSE 0)
        /\ call' = [call EXCEPT ![c] = [pc |-> IF ok THEN "store" ELSE "land", kind |-> l.kind, priority |-> l.priority,
                                        key |-> l.key, since |-> l.since, result |-> IF ok THEN l.server ELSE NoResult]]
  /\ UNCHANGED <<generation, cached, hflight, slots>>

\* storeCache, under the key of the call's start; no entry when caching is off.
Store(c) ==
  LET l == call[c]
      others == {e \in cached : e.kind # l.kind \/ e.key # l.key}
  IN
  /\ l.pc = "store"
  /\ cached' \in {cached, others \cup {[kind |-> l.kind, key |-> l.key, server |-> l.result]}}
  /\ call' = [call EXCEPT ![c].pc = "land"]
  /\ UNCHANGED <<generation, hflight, slots, rate>>

\* The flight ends: the place is given back and every rider has the leader's result.
Land(c) ==
  LET l == call[c]
      rides(d) == call[d].pc = "ride" /\ FlightOf(call[d]) = FlightOf(l)
  IN
  /\ l.pc = "land"
  /\ slots' = slots \ {c}
  /\ hflight' = {f \in hflight : f.leader # c}
  /\ call' = [d \in Callers |-> IF d = c \/ rides(d) THEN Done(call[d], l.result) ELSE call[d]]
  /\ UNCHANGED <<generation, cached, rate>>

Return(c) ==
  /\ call[c].pc = "done"
  /\ call' = [call EXCEPT ![c] = Waiting]
  /\ UNCHANGED <<generation, cached, hflight, slots, rate>>

\* An entry expires or is evicted; a cooldown ends.
Lapse ==
  /\ \/ \E e \in cached : cached' = cached \ {e} /\ UNCHANGED rate
     \/ rate.cooling /\ rate' = [rate EXCEPT !.cooling = FALSE] /\ UNCHANGED cached
  /\ UNCHANGED <<generation, hflight, slots, call>>

Next ==
  \/ SetConfig
  \/ Lapse
  \/ \E c \in Callers :
       \/ \E asked \in Asked : Call(c, asked)
       \/ Lookup(c) \/ Join(c) \/ Leave(c) \/ TakeSlot(c) \/ Throttle(c)
       \/ Ask(c) \/ Store(c) \/ Land(c) \/ Return(c)

Spec == Init /\ [][Next]_hydraVars

-----------------------------------------------------------------------------
\* Nobody is given the results of a server that had been replaced when the call began,
\* out of the caches or from a search that was under way at the change: what such a
\* search leaves behind is left under a key that no later call looks at.
ResultNotOlderThanCall ==
  \A c \in Callers : call[c].pc = "done" => call[c].result = NoResult \/ call[c].result >= call[c].since

-----------------------------------------------------------------------------
\* What every place of a call holds.
Calls ==
  [pc : {"idle"}]
  \cup [pc : {"look", "join", "ride", "slot", "throttle"}, kind : Kinds, priority : BOOLEAN, since : Nat, key : Nat]
  \cup [pc : {"ask"}, kind : Kinds, priority : BOOLEAN, key : Nat, since : Nat, server : Nat]
  \cup [pc : {"store", "land"}, kind : Kinds, priority : BOOLEAN, key : Nat, since : Nat, result : Nat]
  \cup [pc : {"done"}, since : Nat, result : Nat]

\* A call goes by the key of its beginning, and from its request on by a server that is
\* no older.
IsOfItsTime(l) ==
  /\ l.pc \notin {"idle", "done"} => l.key = l.since /\ l.since <= generation
  /\ l.pc = "ask" => l.server >= l.since
  /\ l.pc = "store" => l.result >= l.since
  /\ l.pc \in {"land", "done"} => l.result = NoResult \/ l.result >= l.since

\* No cache keeps what is older than its key.
HydraInv ==
  /\ generation \in Nat
  /\ cached \subseteq [kind : Kinds, key : Nat, server : Nat]
  /\ \A e \in cached : e.server >= e.key
  /\ call \in [Callers -> Calls]
  /\ \A c \in Callers : IsOfItsTime(call[c])
=============================================================================
