---------------------------- MODULE ArticleSource ----------------------------
(***************************************************************************)
(* One article asked of several Usenet providers: FallbackSource, the      *)
(* providers' circuit breaker, the cache of missing articles in front of   *)
(* them and the single flights that make concurrent callers share one      *)
(* call (internal/nntp/fallback.go, circuit_breaker.go, article_cache.go,  *)
(* internal/cache/singleflight.go).                                        *)
(*                                                                         *)
(* A lookup is a process of its own: a caller that leads a flight, or the  *)
(* detached confirmMissing goroutine that a background miss starts.  What  *)
(* goes on between two providers of one lookup is interleaved with every   *)
(* other lookup, through the breaker and the missing cache.                *)
(*                                                                         *)
(* Time is a choice: a mark expires, a breaker cools down and a streak of  *)
(* failures lapses whenever it likes.  The growth of the cooldown is left  *)
(* out, since its length is not told apart.                                *)
(***************************************************************************)
EXTENDS Integers, Sequences, FiniteSets

CONSTANTS
  Callers,     \* goroutines that ask for the article
  Confirmers,  \* room for confirmMissing goroutines: a bound, the code has none
  Providers,   \* the sequence of configured sources
  Kinds,       \* "body" and "stat": each has flights of its own
  Retries,     \* extra rounds over the providers
  Threshold    \* breakerTripThreshold

VARIABLES
  holders,  \* the providers that have the article
  missing,  \* the article's entry in the missing cache
  flight,   \* the registered flight of Stat and the one of Body
  breaker,  \* per provider: failures in a row, and whether it is tripped
  lookup    \* per process: where it is

articleVars == <<holders, missing, flight, breaker, lookup>>

Priorities == {"interactive", "below"}
Procs == Callers \cup Confirmers
Names == {Providers[i] : i \in DOMAIN Providers}
NoFlight == [leader |-> "none"]

\* What a provider can answer instead of the article: that it has none, a
\* throttle-like fault, another error.
Failures == {"gone", "fault", "error"}
\* What a lookup keeps of them: that it met a provider without the article, a
\* provider that failed, a provider cut off by its breaker.
Met == {"gone", "failed", "open"}
Verdicts == {"day", "short", "none"}
Unmarked == [ttl |-> "none", met |-> {}]
Asleep == [pc |-> "idle"]

TypeOK ==
  /\ holders \subseteq Names
  /\ missing \in [ttl : Verdicts, met : SUBSET Met]
  /\ flight \in [Kinds -> {NoFlight} \cup [leader : Callers, done : BOOLEAN]]
  /\ breaker \in [Names -> [failures : 0 .. Threshold, tripped : BOOLEAN]]
  /\ \A p \in Procs :
       lookup[p].pc \in {"idle", "join", "wait", "delay", "ask", "query", "mark", "close", "delete"}

Init ==
  /\ holders \in SUBSET Names
  /\ missing = Unmarked
  /\ flight = [k \in Kinds |-> NoFlight]
  /\ breaker = [n \in Names |-> [failures |-> 0, tripped |-> FALSE]]
  /\ lookup = [p \in Procs |-> Asleep]

-----------------------------------------------------------------------------
(* The circuit breaker. *)

Allow(n) == ~ breaker[n].tripped

RecordSuccess(n) == [breaker EXCEPT ![n] = [failures |-> 0, tripped |-> FALSE]]

\* Only what looks like a throttle counts, and a streak lapses after failureWindow.
\* The count is kept once it trips the breaker; it is capped here at the threshold.
RecordFailure(n, failure, lapsed) ==
  LET streak == IF lapsed THEN 1 ELSE breaker[n].failures + 1 IN
  IF failure # "fault" THEN breaker
  ELSE IF streak < Threshold THEN [breaker EXCEPT ![n].failures = streak]
  ELSE [breaker EXCEPT ![n] = [failures |-> Threshold, tripped |-> TRUE]]

CoolDown(n) ==
  /\ breaker[n].tripped
  /\ breaker' = [breaker EXCEPT ![n].tripped = FALSE]
  /\ UNCHANGED <<holders, missing, flight, lookup>>

-----------------------------------------------------------------------------
(* A lookup's walk over the providers: BodyPriority and StatPriority. *)

FirstAsk(p, kind, priority) ==
  [pc |-> "ask", kind |-> kind, priority |-> priority, at |-> 1, round |-> 0, gone |-> {}, met |-> {}]

\* The lookup goes on to the next provider, to the next round, or has failed.
Advanced(l) ==
  IF l.at < Len(Providers) THEN [l EXCEPT !.pc = "ask", !.at = @ + 1]
  ELSE IF l.round < Retries THEN [l EXCEPT !.pc = "ask", !.at = 1, !.round = @ + 1]
  ELSE [pc |-> "mark", kind |-> l.kind, priority |-> l.priority, met |-> l.met]

Closing(l) == [pc |-> "close", kind |-> l.kind]

\* A provider that has said it has no such article, or whose breaker is tripped, is
\* passed over.
Ask(p) ==
  LET l == lookup[p]
      n == Providers[l.at]
  IN
  /\ l.pc = "ask"
  /\ lookup' = [lookup EXCEPT ![p] =
       IF n \in l.gone THEN Advanced(l)
       ELSE IF ~ Allow(n) THEN Advanced([l EXCEPT !.met = @ \cup {"open"}])
       ELSE [l EXCEPT !.pc = "query"]]
  /\ UNCHANGED <<holders, missing, flight, breaker>>

\* The article arrives: nothing to mark, the flight is closed with it.
Found(p) ==
  LET l == lookup[p] IN
  /\ l.pc = "query"
  /\ Providers[l.at] \in holders
  /\ breaker' = RecordSuccess(Providers[l.at])
  /\ lookup' = [lookup EXCEPT ![p] = Closing(l)]
  /\ UNCHANGED <<holders, missing, flight>>

Failed(p, failure) ==
  LET l == lookup[p]
      n == Providers[l.at]
  IN
  /\ l.pc = "query"
  /\ failure = "gone" => n \notin holders
  /\ \E lapsed \in BOOLEAN : breaker' = RecordFailure(n, failure, lapsed)
  /\ lookup' = [lookup EXCEPT ![p] =
       Advanced(IF failure = "gone" THEN [l EXCEPT !.met = @ \cup {"gone"}, !.gone = @ \cup {n}]
                ELSE [l EXCEPT !.met = @ \cup {"failed"}])]
  /\ UNCHANGED <<holders, missing, flight>>

-----------------------------------------------------------------------------
(* The cache of missing articles. *)

M_classifyCacheableError(met) ==
  IF "gone" \in met THEN "day" ELSE IF "open" \in met THEN "short" ELSE "none"

\* classifyCacheableError: of the joined failures a tripped breaker speaks first.
classifyCacheableError(met) ==
  IF "open" \in met THEN "short" ELSE IF "gone" \in met THEN "day" ELSE "none"

Marked(met, ttl) == IF ttl = "none" THEN missing ELSE [ttl |-> ttl, met |-> met]

\* markAndMaybeConfirm: below interactive priority one sample is not believed for a
\* day; the mark is short and a confirmation is started.
MarkAndMaybeConfirm(p) ==
  LET l == lookup[p]
      ttl == classifyCacheableError(l.met)
  IN
  /\ p \in Callers
  /\ l.pc = "mark"
  /\ IF ttl = "day" /\ l.priority = "below"
     THEN \E c \in Confirmers :
            /\ lookup[c].pc = "idle"
            /\ missing' = Marked(l.met, "short")
            /\ lookup' = [lookup EXCEPT ![p] = Closing(l),
                                        ![c] = [pc |-> "delay", kind |-> l.kind]]
     ELSE /\ missing' = Marked(l.met, ttl)
          /\ lookup' = [lookup EXCEPT ![p] = Closing(l)]
  /\ UNCHANGED <<holders, flight, breaker>>

\* confirmMissing asks again, past the cache and the flights, after confirmMissingDelay.
ConfirmStart(p) ==
  /\ lookup[p].pc = "delay"
  /\ lookup' = [lookup EXCEPT ![p] = FirstAsk(p, lookup[p].kind, "below")]
  /\ UNCHANGED <<holders, missing, flight, breaker>>

\* The second sample upgrades the mark only if it too says the article is gone.
ConfirmEnd(p) ==
  LET l == lookup[p] IN
  /\ p \in Confirmers
  /\ l.pc \in {"mark", "close"}
  /\ missing' = IF l.pc = "mark" /\ classifyCacheableError(l.met) = "day" THEN Marked(l.met, "day")
                ELSE missing
  /\ lookup' = [lookup EXCEPT ![p] = Asleep]
  /\ UNCHANGED <<holders, flight, breaker>>

\* A mark that has expired is dropped by isMissing or by Evict.
Expire ==
  /\ missing # Unmarked
  /\ missing' = Unmarked
  /\ UNCHANGED <<holders, flight, breaker, lookup>>

-----------------------------------------------------------------------------
(* The callers and their flights. *)

\* isMissing: a marked article is refused at once.
Call(c, kind, priority) ==
  /\ lookup[c].pc = "idle"
  /\ missing = Unmarked
  /\ lookup' = [lookup EXCEPT ![c] = [pc |-> "join", kind |-> kind, priority |-> priority]]
  /\ UNCHANGED <<holders, missing, flight, breaker>>

\* Do: lead a new flight, or wait for the one that is there; one that is done already
\* answers at once.
Join(c) ==
  LET l == lookup[c] IN
  /\ l.pc = "join"
  /\ IF flight[l.kind] = NoFlight
     THEN /\ flight' = [flight EXCEPT ![l.kind] = [leader |-> c, done |-> FALSE]]
          /\ lookup' = [lookup EXCEPT ![c] = FirstAsk(c, l.kind, l.priority)]
     ELSE /\ lookup' = [lookup EXCEPT ![c] = IF flight[l.kind].done THEN Asleep
                                             ELSE [pc |-> "wait", kind |-> l.kind]]
          /\ UNCHANGED flight
  /\ UNCHANGED <<holders, missing, breaker>>

\* The caller's own context ends while it waits; the leader's never does.
GiveUp(c) ==
  /\ lookup[c].pc = "wait"
  /\ lookup' = [lookup EXCEPT ![c] = Asleep]
  /\ UNCHANGED <<holders, missing, flight, breaker>>

\* The flight is taken off the map and its channel is left open.
M_Close(c) ==
  /\ c \in Callers
  /\ lookup[c].pc = "close"
  /\ flight' = [flight EXCEPT ![lookup[c].kind].done = TRUE]
  /\ lookup' = [lookup EXCEPT ![c].pc = "delete"]
  /\ UNCHANGED <<holders, missing, breaker>>

\* close(active.done): everyone who waits has the leader's result.
Close(c) ==
  /\ c \in Callers
  /\ lookup[c].pc = "close"
  /\ flight' = [flight EXCEPT ![lookup[c].kind].done = TRUE]
  /\ lookup' = [p \in Procs |->
       IF p = c THEN [lookup[c] EXCEPT !.pc = "delete"]
       ELSE IF lookup[p].pc = "wait" /\ lookup[p].kind = lookup[c].kind THEN Asleep
       ELSE lookup[p]]
  /\ UNCHANGED <<holders, missing, breaker>>

Delete(c) ==
  /\ lookup[c].pc = "delete"
  /\ flight' = [flight EXCEPT ![lookup[c].kind] = NoFlight]
  /\ lookup' = [lookup EXCEPT ![c] = Asleep]
  /\ UNCHANGED <<holders, missing, breaker>>

-----------------------------------------------------------------------------
Step(p) ==
  \/ Ask(p)
  \/ Found(p)
  \/ \E failure \in Failures : Failed(p, failure)
  \/ MarkAndMaybeConfirm(p)
  \/ ConfirmStart(p)
  \/ ConfirmEnd(p)
  \/ Close(p)
  \/ Delete(p)

Next ==
  \/ \E p \in Procs : Step(p)
  \/ \E c \in Callers :
       \/ \E kind \in Kinds, priority \in Priorities : Call(c, kind, priority)
       \/ Join(c)
       \/ GiveUp(c)
  \/ \E n \in Names : CoolDown(n)
  \/ Expire

Spec == Init /\ [][Next]_articleVars

-----------------------------------------------------------------------------
\* The article is kept out of reach for a day only on the word of providers: as long
\* as no provider of that lookup faulted, erred or was skipped, nobody has it.  A
\* tripped breaker is never counted as proof (circuit_breaker.go:11-15).
DayMarkIsProof ==
  missing.ttl = "day" => /\ "open" \notin missing.met
                         /\ missing.met = {"gone"} => holders = {}

\* Whoever waits on a flight waits for one that is registered and not done, whose
\* leader is still on its way to close it: nobody is left behind by a leader that
\* failed, and nobody joins a flight after its result was handed out.
RiderHasLeader ==
  \A c \in Callers : lookup[c].pc = "wait" =>
    LET f == flight[lookup[c].kind] IN
    /\ f # NoFlight
    /\ ~ f.done
    /\ lookup[f.leader].pc \in {"ask", "query", "mark", "close"}
    /\ lookup[f.leader].kind = lookup[c].kind
-----------------------------------------------------------------------------
(* Why: what a lookup has learnt, and who leads which flight. *)

\* Where a lookup can be, and what it holds there.
Lookups ==
  {Asleep}
  \cup [pc : {"join"}, kind : Kinds, priority : Priorities]
  \cup [pc : {"wait", "delay", "close", "delete"}, kind : Kinds]
  \cup [pc : {"ask", "query"}, kind : Kinds, priority : Priorities, at : DOMAIN Providers, round : Nat,
        gone : SUBSET Names, met : SUBSET Met]
  \cup [pc : {"mark"}, kind : Kinds, priority : Priorities, met : SUBSET Met]

Leading(l) == l.pc \in {"ask", "query", "mark", "close"}

\* Whoever leads a flight has it registered, and a registered one has its leader.
FlightsAreLed ==
  /\ \A c \in Callers :
       /\ lookup[c].pc # "delay"
       /\ Leading(lookup[c]) => flight[lookup[c].kind] = [leader |-> c, done |-> FALSE]
       /\ lookup[c].pc = "delete" => flight[lookup[c].kind] = [leader |-> c, done |-> TRUE]
       /\ lookup[c].pc = "wait" => flight[lookup[c].kind] # NoFlight /\ ~ flight[lookup[c].kind].done
  /\ \A k \in Confirmers : lookup[k].pc \notin {"join", "wait", "delete"}
  /\ \A k \in Kinds : flight[k] # NoFlight =>
       LET l == lookup[flight[k].leader] IN
       /\ l.pc # "idle" /\ l.kind = k
       /\ IF flight[k].done THEN l.pc = "delete" ELSE Leading(l)

\* What said it has no such article has none; a lookup that met nothing else has heard
\* it of every provider it has passed.
LearntIsTrue(l) ==
  /\ l.pc \in {"ask", "query"} =>
       /\ l.gone \cap holders = {}
       /\ l.met \subseteq {"gone"} => \A i \in DOMAIN Providers : (i < l.at \/ l.round > 0) => Providers[i] \in l.gone
  /\ l.pc = "mark" /\ l.met \subseteq {"gone"} => holders = {}

SourceInv ==
  /\ holders \subseteq Names
  /\ flight \in [Kinds -> {NoFlight} \cup [leader : Callers, done : BOOLEAN]]
  /\ lookup \in [Procs -> Lookups]
  /\ FlightsAreLed
  /\ \A p \in Procs : LearntIsTrue(lookup[p])
  /\ DayMarkIsProof
=============================================================================
