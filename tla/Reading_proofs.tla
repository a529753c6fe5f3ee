--------------------------- MODULE Reading_proofs ---------------------------
(***************************************************************************)
(* What the components on the way of a byte promise, for instances of      *)
(* every size: how each of them keeps its invariant, and what follows for  *)
(* the behaviours of MCReading, each of which is of one component.         *)
(***************************************************************************)
EXTENDS MCReading, WellFoundedInduction, FiniteSetTheorems, TLAPS

-----------------------------------------------------------------------------
(* The least of a set.                                                       *)

\* A set of naturals that is not empty has a least element.
LEMMA LeastNumber ==
  ASSUME NEW I \in SUBSET Nat, I # {}
  PROVE  \E n \in I : \A m \in I : n <= m
<1> DEFINE R == {ss \in Nat \X Nat : ss[1] < ss[2]}
<1>1. IsWellFoundedOn(R, Nat)
  BY NatLessThanWellFounded DEF OpToRel
<1>2. \E n \in I : \A m \in I : ~ (<<m, n>> \in R)
  BY <1>1, WFMin
<1>3. \A m, n \in Nat : <<m, n>> \in R <=> m < n
  OBVIOUS
<1> HIDE DEF R
<1>4. PICK n \in I : \A m \in I : ~ (<<m, n>> \in R)
  BY <1>2
<1>5. ASSUME NEW m \in I PROVE n <= m
  <2>1. m \in Nat /\ n \in Nat /\ ~ (m < n)
    BY <1>3, <1>4
  <2> QED
    BY <2>1
<1> QED
  BY <1>5

-----------------------------------------------------------------------------
(* Who asks for an article.                                                  *)

\* Nobody has called.
LEMMA ArticleBegins ==
  ASSUME Article!Init
  PROVE  Article!SourceInv
BY DEF Article!Init, Article!SourceInv, Article!Lookups, Article!FlightsAreLed, Article!LearntIsTrue, Article!DayMarkIsProof,
  Article!Leading, Article!Asleep, Article!Unmarked, Article!Procs

\* What a lookup holds where it is.
LEMMA LookupHolds ==
  ASSUME NEW l \in Article!Lookups
  PROVE  /\ l.pc \in {"join", "wait", "delay", "close", "delete", "ask", "query", "mark"} => l.kind \in ArticleKinds
         /\ l.pc \in {"join", "ask", "query", "mark"} => l.priority \in Article!Priorities
         /\ l.pc \in {"ask", "query", "mark"} => l.met \in SUBSET Article!Met
         /\ l.pc \in {"ask", "query"} =>
              /\ l.at \in DOMAIN ArticleProviders /\ l.round \in Nat /\ l.gone \in SUBSET Article!Names
              /\ l = [pc |-> l.pc, kind |-> l.kind, priority |-> l.priority, at |-> l.at, round |-> l.round,
                      gone |-> l.gone, met |-> l.met]
         /\ l.pc \in {"join", "wait", "delay", "close", "delete", "ask", "query", "mark", "idle"}
         /\ l.pc \in {"wait", "delay", "close", "delete"} => l = [pc |-> l.pc, kind |-> l.kind]
BY DEF Article!Lookups, Article!Asleep

\* The next provider, the next round, or the end of the walk.
LEMMA LookupAdvances ==
  ASSUME Article!SourceInv, NEW l \in Article!Lookups, l.pc \in {"ask", "query"}, Article!LearntIsTrue(l),
         l.met \subseteq {"gone"} => ArticleProviders[l.at] \in l.gone
  PROVE  /\ Article!Advanced(l) \in Article!Lookups /\ Article!Advanced(l).pc \in {"ask", "mark"}
         /\ Article!Advanced(l).kind = l.kind /\ Article!LearntIsTrue(Article!Advanced(l))
<1> DEFINE i == l.at  next == Article!Advanced(l)
<1>0. /\ l.kind \in ArticleKinds /\ l.priority \in Article!Priorities /\ l.met \in SUBSET Article!Met
      /\ i \in DOMAIN ArticleProviders /\ l.round \in Nat /\ l.gone \in SUBSET Article!Names
      /\ l = [pc |-> l.pc, kind |-> l.kind, priority |-> l.priority, at |-> l.at, round |-> l.round,
              gone |-> l.gone, met |-> l.met]
  BY LookupHolds
<1>1. Len(ArticleProviders) \in Nat /\ DOMAIN ArticleProviders = 1 .. Len(ArticleProviders) /\ i \in 1 .. Len(ArticleProviders)
  BY <1>0, ArticleAssumption
<1>2. ASSUME NEW k \in DOMAIN ArticleProviders, NEW round \in Nat,
             l.met \subseteq {"gone"} => \A j \in DOMAIN ArticleProviders : (j < k \/ round > 0) => ArticleProviders[j] \in l.gone,
             next = [pc |-> "ask", kind |-> l.kind, priority |-> l.priority, at |-> k, round |-> round,
                     gone |-> l.gone, met |-> l.met]
      PROVE  next \in Article!Lookups /\ next.pc = "ask" /\ next.kind = l.kind /\ Article!LearntIsTrue(next)
  <2> HIDE DEF next
  <2>1. next \in Article!Lookups
    BY <1>0, <1>2 DEF Article!Lookups
  <2> QED
    BY <1>2, <2>1 DEF Article!LearntIsTrue
<1>3. CASE i < Len(ArticleProviders)
  <2>1. next = [l EXCEPT !.pc = "ask", !.at = @ + 1]
    BY <1>3 DEF Article!Advanced
  <2>2. next = [pc |-> "ask", kind |-> l.kind, priority |-> l.priority, at |-> i + 1, round |-> l.round,
                gone |-> l.gone, met |-> l.met]
    BY <1>0, <2>1
  <2>3. l.met \subseteq {"gone"} => \A j \in DOMAIN ArticleProviders : (j < i + 1 \/ l.round > 0) => ArticleProviders[j] \in l.gone
    BY <1>1 DEF Article!LearntIsTrue
  <2> HIDE DEF next
  <2> QED
    BY <1>0, <1>1, <1>2, <1>3, <2>2, <2>3 DEF next
<1>4. CASE i = Len(ArticleProviders)
  <2>1. l.met \subseteq {"gone"} => \A j \in DOMAIN ArticleProviders : ArticleProviders[j] \in l.gone
    BY <1>4, <1>1 DEF Article!LearntIsTrue
  <2>2. CASE l.round < ArticleRetries
    <3>1. next = [l EXCEPT !.pc = "ask", !.at = 1, !.round = @ + 1]
      BY <1>1, <1>4, <2>2 DEF Article!Advanced
    <3>2. next = [pc |-> "ask", kind |-> l.kind, priority |-> l.priority, at |-> 1, round |-> l.round + 1,
                  gone |-> l.gone, met |-> l.met]
      BY <1>0, <3>1
    <3> HIDE DEF next
    <3> QED
      BY <1>0, <1>1, <1>2, <1>4, <2>1, <3>2 DEF next
  <2>3. CASE ~ (l.round < ArticleRetries)
    <3>1. next = [pc |-> "mark", kind |-> l.kind, priority |-> l.priority, met |-> l.met]
      BY <1>1, <1>4, <2>3 DEF Article!Advanced
    <3>2. l.met \subseteq {"gone"} => v1 = {}
      BY <2>1 DEF Article!LearntIsTrue, Article!SourceInv, Article!Names
    <3> HIDE DEF next
    <3>3. next \in Article!Lookups
      BY <1>0, <3>1 DEF Article!Lookups
    <3>4. Article!LearntIsTrue(next)
      BY <3>1, <3>2 DEF Article!LearntIsTrue
    <3> QED
      BY <3>1, <3>3, <3>4 DEF next
  <2> QED
    BY <2>2, <2>3
<1> QED
  BY <1>1, <1>2, <1>3, <1>4

\* One lookup goes on.
LEMMA LookupMoves ==
  ASSUME Article!SourceInv, NEW p \in Article!Procs, NEW x \in Article!Lookups, Article!LearntIsTrue(x),
         v1' = v1, v5' = [v5 EXCEPT ![p] = x]
  PROVE  /\ v5' \in [Article!Procs -> Article!Lookups]
         /\ v5'[p] = x /\ \A q \in Article!Procs \ {p} : v5'[q] = v5[q]
         /\ \A q \in Article!Procs : Article!LearntIsTrue(v5[q])'
<1>1. v5' \in [Article!Procs -> Article!Lookups] /\ v5'[p] = x /\ \A q \in Article!Procs \ {p} : v5'[q] = v5[q]
  BY DEF Article!SourceInv
<1> QED
  BY <1>1 DEF Article!SourceInv, Article!LearntIsTrue

\* What leads goes on leading, and a confirmation leads nothing.
LEMMA FlightsGoOn ==
  ASSUME Article!SourceInv, v3' = v3,
         \A c \in ArticleCallers :
           \/ v5'[c] = v5[c]
           \/ Article!Leading(v5[c]) /\ Article!Leading(v5'[c]) /\ v5'[c].kind = v5[c].kind,
         \A k \in ArticleConfirmers : v5'[k] = v5[k] \/ v5'[k].pc \notin {"join", "wait", "delete"}
  PROVE  Article!FlightsAreLed'
<1>1. ASSUME NEW c \in ArticleCallers
      PROVE  /\ v5'[c].pc # "delay"
             /\ Article!Leading(v5'[c]) => v3[v5'[c].kind] = [leader |-> c, done |-> FALSE]
             /\ v5'[c].pc = "delete" => v3[v5'[c].kind] = [leader |-> c, done |-> TRUE]
             /\ v5'[c].pc = "wait" => v3[v5'[c].kind] # Article!NoFlight /\ ~ v3[v5'[c].kind].done
  <2>1. CASE v5'[c] = v5[c]
    BY <2>1 DEF Article!SourceInv, Article!FlightsAreLed
  <2>2. CASE Article!Leading(v5[c]) /\ Article!Leading(v5'[c]) /\ v5'[c].kind = v5[c].kind
    <3>1. v3[v5[c].kind] = [leader |-> c, done |-> FALSE]
      BY <2>2 DEF Article!SourceInv, Article!FlightsAreLed
    <3>2. v5'[c].pc \notin {"delay", "delete", "wait"}
      BY <2>2 DEF Article!Leading
    <3> QED
      BY <2>2, <3>1, <3>2
  <2> QED
    BY <2>1, <2>2
<1>2. \A k \in ArticleConfirmers : v5'[k].pc \notin {"join", "wait", "delete"}
  BY DEF Article!SourceInv, Article!FlightsAreLed
<1>3. ASSUME NEW k \in ArticleKinds, v3[k] # Article!NoFlight
      PROVE  LET l == v5'[v3[k].leader] IN
             /\ l.pc # "idle" /\ l.kind = k
             /\ IF v3[k].done THEN l.pc = "delete" ELSE Article!Leading(l)
  <2>1. v3[k].leader \in ArticleCallers
    BY <1>3 DEF Article!SourceInv
  <2> QED
    BY <1>3, <2>1 DEF Article!SourceInv, Article!FlightsAreLed, Article!Leading
<1> QED
  BY <1>1, <1>2, <1>3 DEF Article!FlightsAreLed, Article!Leading

\* A walk over the providers.
LEMMA WalkSteps ==
  ASSUME Article!SourceInv, NEW p \in Article!Procs,
         Article!Ask(p) \/ Article!Found(p) \/ \E failure \in Article!Failures : Article!Failed(p, failure)
  PROVE  Article!SourceInv'
<1> DEFINE l == v5[p]
<1>0. l \in Article!Lookups /\ Article!LearntIsTrue(l) /\ l.pc \in {"ask", "query"}
  BY DEF Article!SourceInv, Article!Ask, Article!Found, Article!Failed
<1>1. /\ l.kind \in ArticleKinds /\ l.priority \in Article!Priorities /\ l.met \in SUBSET Article!Met
      /\ l.at \in DOMAIN ArticleProviders /\ l.round \in Nat /\ l.gone \in SUBSET Article!Names
      /\ l = [pc |-> l.pc, kind |-> l.kind, priority |-> l.priority, at |-> l.at, round |-> l.round,
              gone |-> l.gone, met |-> l.met]
  BY <1>0, LookupHolds
<1>2. UNCHANGED <<v1, v2, v3>>
  BY DEF Article!Ask, Article!Found, Article!Failed
<1>3. ASSUME NEW x \in Article!Lookups, Article!LearntIsTrue(x), Article!Leading(x), x.kind = l.kind, v5' = [v5 EXCEPT ![p] = x]
      PROVE  Article!SourceInv'
  <2>1. /\ v5' \in [Article!Procs -> Article!Lookups] /\ v5'[p] = x
        /\ \A q \in Article!Procs \ {p} : v5'[q] = v5[q]
        /\ \A q \in Article!Procs : Article!LearntIsTrue(v5[q])'
    BY <1>2, <1>3, LookupMoves
  <2>2. Article!Leading(l) /\ x.pc \notin {"join", "wait", "delete"}
    BY <1>0, <1>3 DEF Article!Leading
  <2>3. Article!FlightsAreLed'
    BY <1>2, <1>3, <2>1, <2>2, FlightsGoOn DEF Article!Procs
  <2> QED
    BY <1>2, <2>1, <2>3 DEF Article!SourceInv, Article!DayMarkIsProof
<1>4. ASSUME NEW y \in Article!Lookups, y.pc \in {"ask", "query"}, y.kind = l.kind, Article!LearntIsTrue(y),
             y.met \subseteq {"gone"} => ArticleProviders[y.at] \in y.gone, v5' = [v5 EXCEPT ![p] = Article!Advanced(y)]
      PROVE  Article!SourceInv'
  <2> DEFINE x == Article!Advanced(y)
  <2>1. x \in Article!Lookups /\ x.pc \in {"ask", "mark"} /\ x.kind = l.kind /\ Article!LearntIsTrue(x)
    BY <1>4, LookupAdvances
  <2>2. v5' = [v5 EXCEPT ![p] = x]
    BY <1>4
  <2> HIDE DEF x
  <2> QED
    BY <1>3, <2>1, <2>2 DEF Article!Leading
<1> DEFINE n == ArticleProviders[l.at]
<1>5. n \in Article!Names
  BY <1>1 DEF Article!Names
<1>6. CASE Article!Ask(p)
  <2>1. CASE n \in l.gone
    <3>1. v5' = [v5 EXCEPT ![p] = Article!Advanced(l)]
      BY <1>6, <2>1 DEF Article!Ask
    <3> QED
      BY <1>0, <2>1, <3>1, <1>4
  <2>2. CASE n \notin l.gone /\ ~ Article!Allow(n)
    <3> DEFINE y == [l EXCEPT !.met = @ \cup {"open"}]
    <3>1. y = [pc |-> l.pc, kind |-> l.kind, priority |-> l.priority, at |-> l.at, round |-> l.round,
               gone |-> l.gone, met |-> l.met \cup {"open"}]
      BY <1>1
    <3>2. v5' = [v5 EXCEPT ![p] = Article!Advanced(y)]
      BY <1>6, <2>2 DEF Article!Ask
    <3> HIDE DEF y
    <3>3. l.met \cup {"open"} \in SUBSET Article!Met /\ ~ (l.met \cup {"open"} \subseteq {"gone"})
      BY <1>1 DEF Article!Met
    <3>4. y \in Article!Lookups
      BY <1>0, <1>1, <3>1, <3>3 DEF Article!Lookups
    <3>5. Article!LearntIsTrue(y)
      BY <1>0, <3>1, <3>3 DEF Article!LearntIsTrue
    <3> QED
      BY <1>0, <3>1, <3>2, <3>3, <3>4, <3>5, <1>4
  <2>3. CASE n \notin l.gone /\ Article!Allow(n)
    <3> DEFINE x == [l EXCEPT !.pc = "query"]
    <3>1. v5' = [v5 EXCEPT ![p] = x]
      BY <1>6, <2>3 DEF Article!Ask
    <3>2. x = [pc |-> "query", kind |-> l.kind, priority |-> l.priority, at |-> l.at, round |-> l.round,
               gone |-> l.gone, met |-> l.met]
      BY <1>1
    <3> HIDE DEF x
    <3>3. x \in Article!Lookups
      BY <1>1, <3>2 DEF Article!Lookups
    <3>4. Article!LearntIsTrue(x)
      BY <1>0, <3>2 DEF Article!LearntIsTrue
    <3> QED
      BY <3>1, <3>2, <3>3, <3>4, <1>3 DEF Article!Leading
  <2> QED
    BY <2>1, <2>2, <2>3
<1>7. CASE Article!Found(p)
  <2> DEFINE x == [pc |-> "close", kind |-> l.kind]
  <2>1. v5' = [v5 EXCEPT ![p] = x]
    BY <1>7 DEF Article!Found, Article!Closing
  <2>2. x \in Article!Lookups /\ Article!LearntIsTrue(x)
    BY <1>1 DEF Article!Lookups, Article!LearntIsTrue
  <2> QED
    BY <2>1, <2>2, <1>3 DEF Article!Leading
<1>8. ASSUME NEW failure \in Article!Failures, Article!Failed(p, failure) PROVE Article!SourceInv'
  <2>1. CASE failure = "gone"
    <3> DEFINE y == [l EXCEPT !.met = @ \cup {"gone"}, !.gone = @ \cup {n}]
    <3>1. y = [pc |-> l.pc, kind |-> l.kind, priority |-> l.priority, at |-> l.at, round |-> l.round,
               gone |-> l.gone \cup {n}, met |-> l.met \cup {"gone"}]
      <4> DEFINE m == l.met \cup {"gone"}  z == [l EXCEPT !.met = m]
      <4>1. y = [z EXCEPT !.gone = @ \cup {n}] /\ z.gone = l.gone
        BY <1>1
      <4> HIDE DEF m
      <4>2. z = [pc |-> l.pc, kind |-> l.kind, priority |-> l.priority, at |-> l.at, round |-> l.round,
                 gone |-> l.gone, met |-> m]
        BY <1>1
      <4> HIDE DEF z, y
      <4> QED
        BY <4>1, <4>2 DEF m
    <3>2. v5' = [v5 EXCEPT ![p] = Article!Advanced(y)] /\ n \notin v1
      BY <1>8, <2>1 DEF Article!Failed
    <3> HIDE DEF y
    <3>3. l.met \cup {"gone"} \in SUBSET Article!Met /\ l.gone \cup {n} \in SUBSET Article!Names
      BY <1>1, <1>5 DEF Article!Met
    <3>4. y \in Article!Lookups
      BY <1>0, <1>1, <3>1, <3>3 DEF Article!Lookups
    <3>5. Article!LearntIsTrue(y)
      BY <1>0, <3>1, <3>2, <3>3 DEF Article!LearntIsTrue
    <3> QED
      BY <1>0, <3>1, <3>2, <3>4, <3>5, <1>4
  <2>2. CASE failure # "gone"
    <3> DEFINE y == [l EXCEPT !.met = @ \cup {"failed"}]
    <3>1. y = [pc |-> l.pc, kind |-> l.kind, priority |-> l.priority, at |-> l.at, round |-> l.round,
               gone |-> l.gone, met |-> l.met \cup {"failed"}]
      BY <1>1
    <3>2. v5' = [v5 EXCEPT ![p] = Article!Advanced(y)]
      BY <1>8, <2>2 DEF Article!Failed
    <3> HIDE DEF y
    <3>3. l.met \cup {"failed"} \in SUBSET Article!Met /\ ~ (l.met \cup {"failed"} \subseteq {"gone"})
      BY <1>1 DEF Article!Met
    <3>4. y \in Article!Lookups
      BY <1>0, <1>1, <3>1, <3>3 DEF Article!Lookups
    <3>5. Article!LearntIsTrue(y)
      BY <1>0, <3>1, <3>3 DEF Article!LearntIsTrue
    <3> QED
      BY <1>0, <3>1, <3>2, <3>3, <3>4, <3>5, <1>4
  <2> QED
    BY <2>1, <2>2
<1> QED
  BY <1>6, <1>7, <1>8

\* A failed lookup leaves its mark, and a confirmation takes its walk.
LEMMA MarkSteps ==
  ASSUME Article!SourceInv, NEW p \in Article!Procs,
         Article!MarkAndMaybeConfirm(p) \/ Article!ConfirmStart(p) \/ Article!ConfirmEnd(p)
  PROVE  Article!SourceInv'
<1> DEFINE l == v5[p]
<1>1. l \in Article!Lookups /\ Article!LearntIsTrue(l) /\ v5 \in [Article!Procs -> Article!Lookups] /\ UNCHANGED <<v1, v3>>
  BY DEF Article!SourceInv, Article!MarkAndMaybeConfirm, Article!ConfirmStart, Article!ConfirmEnd
<1>2. ASSUME NEW x \in Article!Lookups, Article!LearntIsTrue(x), v5' = [v5 EXCEPT ![p] = x], Article!DayMarkIsProof',
             IF p \in ArticleCallers THEN Article!Leading(l) /\ Article!Leading(x) /\ x.kind = l.kind
             ELSE x.pc \notin {"join", "wait", "delete"}
      PROVE  Article!SourceInv'
  <2>1. /\ v5' \in [Article!Procs -> Article!Lookups] /\ v5'[p] = x
        /\ \A q \in Article!Procs \ {p} : v5'[q] = v5[q]
        /\ \A q \in Article!Procs : Article!LearntIsTrue(v5[q])'
    BY <1>1, <1>2, LookupMoves
  <2>2. Article!FlightsAreLed'
    BY <1>1, <1>2, <2>1, ArticleAssumption, FlightsGoOn DEF Article!Procs
  <2> QED
    BY <1>1, <1>2, <2>1, <2>2 DEF Article!SourceInv
<1>3. ASSUME l.pc = "mark", NEW ttl \in {"short", "none", Article!classifyCacheableError(l.met)}, v2' = Article!Marked(l.met, ttl)
      PROVE  Article!DayMarkIsProof'
  <2>1. ttl = "day" => "open" \notin l.met /\ (l.met = {"gone"} => v1 = {})
    BY <1>1, <1>3 DEF Article!LearntIsTrue, Article!classifyCacheableError
  <2>2. CASE ttl = "none"
    BY <1>1, <1>3, <2>2 DEF Article!Marked, Article!SourceInv, Article!DayMarkIsProof
  <2>3. CASE ttl # "none"
    <3>1. v2' = [ttl |-> ttl, met |-> l.met]
      BY <1>3, <2>3 DEF Article!Marked
    <3> QED
      BY <1>1, <2>1, <3>1 DEF Article!DayMarkIsProof
  <2> QED
    BY <2>2, <2>3
<1>4. CASE Article!MarkAndMaybeConfirm(p)
  <2> DEFINE x == [pc |-> "close", kind |-> l.kind]
             delay == [pc |-> "delay", kind |-> l.kind]
  <2>1. p \in ArticleCallers /\ l.pc = "mark" /\ l.kind \in ArticleKinds
    BY <1>1, <1>4, LookupHolds DEF Article!MarkAndMaybeConfirm
  <2>2. x \in Article!Lookups /\ delay \in Article!Lookups /\ Article!LearntIsTrue(x) /\ Article!LearntIsTrue(delay)
    BY <2>1 DEF Article!Lookups, Article!LearntIsTrue
  <2>3. CASE v5' = [v5 EXCEPT ![p] = x] /\ v2' = Article!Marked(l.met, Article!classifyCacheableError(l.met))
    BY <1>2, <1>3, <2>1, <2>2, <2>3 DEF Article!Leading
  <2>4. ASSUME NEW k \in ArticleConfirmers, v5[k].pc = "idle", v2' = Article!Marked(l.met, "short"),
               v5' = [v5 EXCEPT ![p] = x, ![k] = delay]
        PROVE  Article!SourceInv'
    <3>1. k # p /\ k \in Article!Procs
      BY <2>1, <2>4, ArticleAssumption DEF Article!Procs
    <3>2. /\ v5'[p] = x /\ v5'[k] = delay /\ v5' \in [Article!Procs -> Article!Lookups]
          /\ \A q \in Article!Procs \ {p, k} : v5'[q] = v5[q]
      BY <1>1, <2>2, <2>4, <3>1
    <3>3. \A c \in ArticleCallers : v5'[c] = v5[c] \/ (Article!Leading(v5[c]) /\ Article!Leading(v5'[c]) /\ v5'[c].kind = v5[c].kind)
      BY <2>1, <2>4, <3>2, ArticleAssumption DEF Article!Procs, Article!Leading
    <3>4. \A j \in ArticleConfirmers : v5'[j] = v5[j] \/ v5'[j].pc \notin {"join", "wait", "delete"}
      BY <2>1, <3>2, ArticleAssumption DEF Article!Procs
    <3>5. Article!FlightsAreLed'
      BY <1>1, <3>3, <3>4, FlightsGoOn
    <3>6. \A q \in Article!Procs : Article!LearntIsTrue(v5[q])'
      BY <1>1, <2>2, <3>2 DEF Article!SourceInv, Article!LearntIsTrue
    <3>7. Article!DayMarkIsProof'
      BY <1>3, <2>1, <2>4
    <3> QED
      BY <1>1, <3>2, <3>5, <3>6, <3>7 DEF Article!SourceInv
  <2>5. \/ v5' = [v5 EXCEPT ![p] = x] /\ v2' = Article!Marked(l.met, Article!classifyCacheableError(l.met))
        \/ \E k \in ArticleConfirmers : /\ v5[k].pc = "idle" /\ v2' = Article!Marked(l.met, "short")
                                        /\ v5' = [v5 EXCEPT ![p] = x, ![k] = delay]
    BY <1>4 DEF Article!MarkAndMaybeConfirm, Article!Closing
  <2> QED
    BY <2>3, <2>4, <2>5
<1>5. CASE Article!ConfirmStart(p)
  <2> DEFINE x == Article!FirstAsk(p, l.kind, "below")
  <2>1. l.pc = "delay" /\ p \notin ArticleCallers /\ l.kind \in ArticleKinds
    BY <1>1, <1>5, LookupHolds DEF Article!ConfirmStart, Article!SourceInv, Article!FlightsAreLed
  <2>2. 1 \in DOMAIN ArticleProviders /\ \A i \in DOMAIN ArticleProviders : ~ (i < 1)
    BY ArticleAssumption
  <2>3. x \in Article!Lookups /\ Article!LearntIsTrue(x) /\ x.pc = "ask"
    BY <2>1, <2>2 DEF Article!FirstAsk, Article!Lookups, Article!LearntIsTrue, Article!Priorities
  <2>4. v5' = [v5 EXCEPT ![p] = x] /\ v2' = v2
    BY <1>5 DEF Article!ConfirmStart
  <2>5. Article!DayMarkIsProof'
    BY <1>1, <2>4 DEF Article!SourceInv, Article!DayMarkIsProof
  <2> HIDE DEF x
  <2> QED
    BY <1>2, <2>1, <2>3, <2>4, <2>5
<1>6. CASE Article!ConfirmEnd(p)
  <2>1. /\ p \notin ArticleCallers /\ v5' = [v5 EXCEPT ![p] = Article!Asleep]
        /\ v2' = v2 \/ (l.pc = "mark" /\ Article!classifyCacheableError(l.met) = "day" /\ v2' = Article!Marked(l.met, "day"))
    BY <1>6, ArticleAssumption DEF Article!ConfirmEnd
  <2>2. Article!DayMarkIsProof'
    BY <1>1, <1>3, <2>1 DEF Article!SourceInv, Article!DayMarkIsProof
  <2>3. Article!Asleep \in Article!Lookups /\ Article!LearntIsTrue(Article!Asleep) /\ Article!Asleep.pc = "idle"
    BY DEF Article!Asleep, Article!Lookups, Article!LearntIsTrue
  <2> QED
    BY <1>2, <2>1, <2>2, <2>3
<1> QED
  BY <1>4, <1>5, <1>6

\* A flight is not none.
LEMMA Distinct == \A d, b : [leader |-> d, done |-> b] # Article!NoFlight
<1> SUFFICES ASSUME NEW d, NEW b, [leader |-> d, done |-> b] = Article!NoFlight PROVE FALSE
  OBVIOUS
<1>1. DOMAIN [leader |-> d, done |-> b] = {"leader", "done"} /\ DOMAIN [leader |-> "none"] = {"leader"}
  OBVIOUS
<1> QED
  BY <1>1 DEF Article!NoFlight

\* The flight of whoever leads one, waits for one or is to delete one.
LEMMA FlightIsRegistered ==
  ASSUME Article!SourceInv, NEW d \in ArticleCallers, Article!Leading(v5[d]) \/ v5[d].pc \in {"delete", "wait"}
  PROVE  /\ v3[v5[d].kind] # Article!NoFlight
         /\ v5[d].pc # "wait" => v3[v5[d].kind].leader = d
         /\ v5[d].pc # "delete" => ~ v3[v5[d].kind].done
<1>1. CASE Article!Leading(v5[d])
  <2>1. v3[v5[d].kind] = [leader |-> d, done |-> FALSE] /\ v5[d].pc # "wait"
    BY <1>1 DEF Article!SourceInv, Article!FlightsAreLed, Article!Leading
  <2> QED
    BY <2>1, Distinct
<1>2. CASE v5[d].pc = "delete"
  <2>1. v3[v5[d].kind] = [leader |-> d, done |-> TRUE]
    BY <1>2 DEF Article!SourceInv, Article!FlightsAreLed
  <2> QED
    BY <1>2, <2>1, Distinct
<1>3. CASE v5[d].pc = "wait"
  BY <1>3 DEF Article!SourceInv, Article!FlightsAreLed
<1> QED
  BY <1>1, <1>2, <1>3

\* Calls, the flights they lead or join, and their ends.
LEMMA CallSteps ==
  ASSUME Article!SourceInv, NEW c \in ArticleCallers,
         \/ \E kind \in ArticleKinds, priority \in Article!Priorities : Article!Call(c, kind, priority)
         \/ Article!Join(c) \/ Article!GiveUp(c) \/ Article!Close(c) \/ Article!Delete(c)
  PROVE  Article!SourceInv'
<1> DEFINE l == v5[c]
<1>1. /\ l \in Article!Lookups /\ Article!LearntIsTrue(l) /\ v5 \in [Article!Procs -> Article!Lookups]
      /\ v3 \in [ArticleKinds -> {Article!NoFlight} \cup [leader : ArticleCallers, done : BOOLEAN]]
      /\ c \in Article!Procs /\ UNCHANGED <<v1, v2>>
  BY DEF Article!SourceInv, Article!Call, Article!Join, Article!GiveUp, Article!Close, Article!Delete, Article!Procs
<1>2. Article!Asleep \in Article!Lookups /\ Article!LearntIsTrue(Article!Asleep) /\ Article!Asleep.pc = "idle"
  BY DEF Article!Asleep, Article!Lookups, Article!LearntIsTrue
<1>3. Article!DayMarkIsProof'
  BY <1>1 DEF Article!SourceInv, Article!DayMarkIsProof
<1>4. ASSUME NEW x \in Article!Lookups, Article!LearntIsTrue(x), v5' = [v5 EXCEPT ![c] = x],
             v3' \in [ArticleKinds -> {Article!NoFlight} \cup [leader : ArticleCallers, done : BOOLEAN]],
             Article!FlightsAreLed'
      PROVE  Article!SourceInv'
  BY <1>1, <1>3, <1>4, LookupMoves DEF Article!SourceInv
<1>5. ASSUME NEW x \in Article!Lookups, Article!LearntIsTrue(x), v5' = [v5 EXCEPT ![c] = x], v3' = v3,
             l.pc \in {"idle", "join", "wait"}, x.pc \in {"idle", "join", "wait"},
             x.pc = "wait" => v3[x.kind] # Article!NoFlight /\ ~ v3[x.kind].done
      PROVE  Article!SourceInv'
  <2>1. v5'[c] = x /\ \A q \in Article!Procs \ {c} : v5'[q] = v5[q]
    BY <1>1, <1>5
  <2>2. \A d \in ArticleCallers :
          /\ v5'[d].pc # "delay"
          /\ Article!Leading(v5'[d]) => v3[v5'[d].kind] = [leader |-> d, done |-> FALSE]
          /\ v5'[d].pc = "delete" => v3[v5'[d].kind] = [leader |-> d, done |-> TRUE]
          /\ v5'[d].pc = "wait" => v3[v5'[d].kind] # Article!NoFlight /\ ~ v3[v5'[d].kind].done
    BY <1>5, <2>1 DEF Article!Procs, Article!SourceInv, Article!FlightsAreLed, Article!Leading
  <2>3. \A k \in ArticleConfirmers : v5'[k].pc \notin {"join", "wait", "delete"}
    BY <2>1, ArticleAssumption DEF Article!Procs, Article!SourceInv, Article!FlightsAreLed
  <2>4. ASSUME NEW k \in ArticleKinds, v3[k] # Article!NoFlight
        PROVE  LET m == v5'[v3[k].leader] IN
               m.pc # "idle" /\ m.kind = k /\ IF v3[k].done THEN m.pc = "delete" ELSE Article!Leading(m)
    <3>1. v3[k].leader \in ArticleCallers
      BY <2>4, <1>1
    <3>2. v3[k].leader # c
      BY <1>5, <2>4 DEF Article!SourceInv, Article!FlightsAreLed, Article!Leading
    <3>3. v5'[v3[k].leader] = v5[v3[k].leader]
      BY <2>1, <3>1, <3>2 DEF Article!Procs
    <3> QED
      BY <2>4, <3>3 DEF Article!SourceInv, Article!FlightsAreLed
  <2>5. Article!FlightsAreLed'
    BY <1>5, <2>2, <2>3, <2>4 DEF Article!FlightsAreLed, Article!Leading
  <2> QED
    BY <1>1, <1>4, <1>5, <2>5
<1>6. ASSUME NEW kind \in ArticleKinds, NEW priority \in Article!Priorities, Article!Call(c, kind, priority)
      PROVE  Article!SourceInv'
  <2> DEFINE x == [pc |-> "join", kind |-> kind, priority |-> priority]
  <2>1. x \in Article!Lookups /\ Article!LearntIsTrue(x)
    BY DEF Article!Lookups, Article!LearntIsTrue
  <2>2. v5' = [v5 EXCEPT ![c] = x] /\ v3' = v3 /\ l.pc = "idle"
    BY <1>6 DEF Article!Call
  <2> QED
    BY <1>5, <2>1, <2>2
<1>7. CASE Article!GiveUp(c)
  BY <1>2, <1>5, <1>7 DEF Article!GiveUp
<1>8. CASE Article!Join(c)
  <2>1. l.pc = "join" /\ l.kind \in ArticleKinds /\ l.priority \in Article!Priorities
    BY <1>1, <1>8, LookupHolds DEF Article!Join
  <2>2. CASE v3[l.kind] # Article!NoFlight
    <3> DEFINE x == [pc |-> "wait", kind |-> l.kind]
    <3>1. x \in Article!Lookups /\ Article!LearntIsTrue(x)
      BY <2>1 DEF Article!Lookups, Article!LearntIsTrue
    <3>2. v3' = v3 /\ v5' = [v5 EXCEPT ![c] = IF v3[l.kind].done THEN Article!Asleep ELSE x]
      BY <1>8, <2>2 DEF Article!Join
    <3> QED
      BY <1>2, <1>5, <2>1, <2>2, <3>1, <3>2
  <2>3. CASE v3[l.kind] = Article!NoFlight
    <3> DEFINE x == Article!FirstAsk(c, l.kind, l.priority)
               f == [leader |-> c, done |-> FALSE]
    <3>1. 1 \in DOMAIN ArticleProviders /\ \A i \in DOMAIN ArticleProviders : ~ (i < 1)
      BY ArticleAssumption
    <3>2. x \in Article!Lookups /\ Article!LearntIsTrue(x) /\ x.pc = "ask" /\ x.kind = l.kind
      BY <2>1, <3>1 DEF Article!FirstAsk, Article!Lookups, Article!LearntIsTrue
    <3>3. v3' = [v3 EXCEPT ![l.kind] = f] /\ v5' = [v5 EXCEPT ![c] = x]
      BY <1>8, <2>3 DEF Article!Join
    <3> HIDE DEF x
    <3>4. v5'[c] = x /\ \A q \in Article!Procs \ {c} : v5'[q] = v5[q]
      BY <1>1, <3>3
    <3>5. v3'[l.kind] = f /\ \A k \in ArticleKinds \ {l.kind} : v3'[k] = v3[k]
      BY <1>1, <2>1, <3>3
    <3>6. ASSUME NEW d \in ArticleCallers
          PROVE  /\ v5'[d].pc # "delay"
                 /\ Article!Leading(v5'[d]) => v3'[v5'[d].kind] = [leader |-> d, done |-> FALSE]
                 /\ v5'[d].pc = "delete" => v3'[v5'[d].kind] = [leader |-> d, done |-> TRUE]
                 /\ v5'[d].pc = "wait" => v3'[v5'[d].kind] # Article!NoFlight /\ ~ v3'[v5'[d].kind].done
      <4>1. CASE d = c
        BY <3>2, <3>4, <3>5, <4>1
      <4>2. CASE d # c
        <5>1. v5'[d] = v5[d] /\ v5[d] \in Article!Lookups
          BY <1>1, <3>4, <4>2 DEF Article!Procs
        <5>2. v5[d].pc \in {"ask", "query", "mark", "close", "delete", "wait"} => v5[d].kind \in ArticleKinds
          BY <5>1, LookupHolds
        <5>3. Article!Leading(v5[d]) \/ v5[d].pc \in {"delete", "wait"} => v3[v5[d].kind] # Article!NoFlight
          BY FlightIsRegistered
        <5>4. Article!Leading(v5[d]) \/ v5[d].pc \in {"delete", "wait"} => v3'[v5[d].kind] = v3[v5[d].kind]
          BY <2>3, <3>5, <5>2, <5>3 DEF Article!Leading
        <5> QED
          BY <5>1, <5>4 DEF Article!SourceInv, Article!FlightsAreLed
      <4> QED
        BY <4>1, <4>2
    <3>7. \A k \in ArticleConfirmers : v5'[k].pc \notin {"join", "wait", "delete"}
      BY <3>4, ArticleAssumption DEF Article!Procs, Article!SourceInv, Article!FlightsAreLed
    <3>8. ASSUME NEW k \in ArticleKinds, v3'[k] # Article!NoFlight
          PROVE  LET m == v5'[v3'[k].leader] IN
                 m.pc # "idle" /\ m.kind = k /\ IF v3'[k].done THEN m.pc = "delete" ELSE Article!Leading(m)
      <4>1. CASE k = l.kind
        BY <3>2, <3>4, <3>5, <4>1 DEF Article!Leading
      <4>2. CASE k # l.kind
        <5>1. v3'[k] = v3[k] /\ v3[k].leader \in ArticleCallers
          BY <1>1, <3>5, <3>8, <4>2
        <5>2. v3[k].leader # c
          BY <2>1, <3>8, <5>1 DEF Article!SourceInv, Article!FlightsAreLed, Article!Leading
        <5>3. v5'[v3[k].leader] = v5[v3[k].leader]
          BY <3>4, <5>1, <5>2 DEF Article!Procs
        <5> QED
          BY <3>8, <5>1, <5>3 DEF Article!SourceInv, Article!FlightsAreLed
      <4> QED
        BY <4>1, <4>2
    <3>9. Article!FlightsAreLed'
      BY <3>6, <3>7, <3>8 DEF Article!FlightsAreLed, Article!Leading
    <3>10. v3' \in [ArticleKinds -> {Article!NoFlight} \cup [leader : ArticleCallers, done : BOOLEAN]]
      BY <1>1, <3>3
    <3> QED
      BY <1>4, <3>2, <3>3, <3>9, <3>10
  <2> QED
    BY <2>2, <2>3
<1>9. CASE Article!Close(c)
  <2> DEFINE f == [leader |-> c, done |-> TRUE]
             x == [pc |-> "delete", kind |-> l.kind]
             Waits(q) == v5[q].pc = "wait" /\ v5[q].kind = l.kind
  <2>1. l.pc = "close" /\ l.kind \in ArticleKinds /\ l = [pc |-> "close", kind |-> l.kind]
    BY <1>1, <1>9, LookupHolds DEF Article!Close
  <2>2. v3[l.kind] = [leader |-> c, done |-> FALSE]
    BY <2>1 DEF Article!SourceInv, Article!FlightsAreLed, Article!Leading
  <2>3. v3' = [v3 EXCEPT ![l.kind] = f]
    <3>1. v3' = [v3 EXCEPT ![l.kind] = [v3[l.kind] EXCEPT !.done = TRUE]]
      BY <1>9 DEF Article!Close
    <3>2. \A a, b : [[leader |-> c, done |-> a] EXCEPT !.done = b] = [leader |-> c, done |-> b]
      OBVIOUS
    <3>3. [v3[l.kind] EXCEPT !.done = TRUE] = f
      BY <2>2, <3>2, Zenon
    <3> QED
      BY <3>1, <3>3
  <2>4. v3'[l.kind] = f /\ \A k \in ArticleKinds \ {l.kind} : v3'[k] = v3[k]
    BY <1>1, <2>1, <2>3
  <2>5. [v5[c] EXCEPT !.pc = "delete"] = x
    BY <2>1
  <2>6. v5' = [q \in Article!Procs |-> IF q = c THEN x ELSE IF Waits(q) THEN Article!Asleep ELSE v5[q]]
    BY <1>9, <2>5 DEF Article!Close
  <2>7. x \in Article!Lookups /\ Article!LearntIsTrue(x) /\ x.pc = "delete" /\ x.kind = l.kind
    BY <2>1 DEF Article!Lookups, Article!LearntIsTrue
  <2> HIDE DEF x
  <2>8. v5' \in [Article!Procs -> Article!Lookups]
    BY <1>1, <1>2, <2>6, <2>7
  <2>9. \A q \in Article!Procs : Article!LearntIsTrue(v5[q])'
    BY <1>1, <1>2, <2>6, <2>7 DEF Article!SourceInv, Article!LearntIsTrue
  <2>10. ASSUME NEW d \in ArticleCallers
         PROVE  /\ v5'[d].pc # "delay"
                /\ Article!Leading(v5'[d]) => v3'[v5'[d].kind] = [leader |-> d, done |-> FALSE]
                /\ v5'[d].pc = "delete" => v3'[v5'[d].kind] = [leader |-> d, done |-> TRUE]
                /\ v5'[d].pc = "wait" => v3'[v5'[d].kind] # Article!NoFlight /\ ~ v3'[v5'[d].kind].done
    <3>1. CASE d = c
      BY <1>1, <2>4, <2>6, <2>7, <3>1 DEF Article!Leading
    <3>2. CASE d # c /\ Waits(d)
      BY <1>2, <2>6, <3>2 DEF Article!Procs, Article!Leading
    <3>3. CASE d # c /\ ~ Waits(d)
      <4>1. v5'[d] = v5[d] /\ v5[d] \in Article!Lookups
        BY <1>1, <2>6, <3>3 DEF Article!Procs
      <4>2. v5[d].pc \in {"ask", "query", "mark", "close", "delete", "wait"} => v5[d].kind \in ArticleKinds
        BY <4>1, LookupHolds
      <4>3. Article!Leading(v5[d]) \/ v5[d].pc \in {"delete", "wait"} => v5[d].kind # l.kind
        BY <2>2, <3>3, FlightIsRegistered
      <4>4. Article!Leading(v5[d]) \/ v5[d].pc \in {"delete", "wait"} => v3'[v5[d].kind] = v3[v5[d].kind]
        BY <2>4, <4>2, <4>3 DEF Article!Leading
      <4> QED
        BY <4>1, <4>4 DEF Article!SourceInv, Article!FlightsAreLed
    <3> QED
      BY <3>1, <3>2, <3>3
  <2>11. \A k \in ArticleConfirmers : v5'[k].pc \notin {"join", "wait", "delete"}
    BY <1>2, <2>6, ArticleAssumption DEF Article!Procs, Article!SourceInv, Article!FlightsAreLed
  <2>12. ASSUME NEW k \in ArticleKinds, v3'[k] # Article!NoFlight
         PROVE  LET m == v5'[v3'[k].leader] IN
                m.pc # "idle" /\ m.kind = k /\ IF v3'[k].done THEN m.pc = "delete" ELSE Article!Leading(m)
    <3>1. CASE k = l.kind
      BY <1>1, <2>4, <2>6, <2>7, <3>1
    <3>2. CASE k # l.kind
      <4>1. v3'[k] = v3[k] /\ v3[k].leader \in ArticleCallers
        BY <1>1, <2>4, <2>12, <3>2
      <4>2. v3[k].leader # c /\ ~ Waits(v3[k].leader)
        BY <3>2, <2>12, <4>1 DEF Article!SourceInv, Article!FlightsAreLed, Article!Leading
      <4>3. v5'[v3[k].leader] = v5[v3[k].leader]
        BY <2>6, <4>1, <4>2 DEF Article!Procs
      <4> QED
        BY <2>12, <4>1, <4>3 DEF Article!SourceInv, Article!FlightsAreLed
    <3> QED
      BY <3>1, <3>2
  <2>13. Article!FlightsAreLed'
    BY <2>10, <2>11, <2>12 DEF Article!FlightsAreLed, Article!Leading
  <2>14. v3' \in [ArticleKinds -> {Article!NoFlight} \cup [leader : ArticleCallers, done : BOOLEAN]]
    BY <1>1, <2>3
  <2> QED
    BY <1>1, <1>3, <2>8, <2>9, <2>13, <2>14 DEF Article!SourceInv
<1>10. CASE Article!Delete(c)
  <2>1. l.pc = "delete" /\ l.kind \in ArticleKinds
    BY <1>1, <1>10, LookupHolds DEF Article!Delete
  <2>2. v3[l.kind] = [leader |-> c, done |-> TRUE]
    BY <2>1 DEF Article!SourceInv, Article!FlightsAreLed
  <2>3. v3' = [v3 EXCEPT ![l.kind] = Article!NoFlight] /\ v5' = [v5 EXCEPT ![c] = Article!Asleep]
    BY <1>10 DEF Article!Delete
  <2>4. v3'[l.kind] = Article!NoFlight /\ \A k \in ArticleKinds \ {l.kind} : v3'[k] = v3[k]
    BY <1>1, <2>1, <2>3
  <2>5. v5'[c] = Article!Asleep /\ \A q \in Article!Procs \ {c} : v5'[q] = v5[q]
    BY <1>1, <2>3
  <2>6. ASSUME NEW d \in ArticleCallers
        PROVE  /\ v5'[d].pc # "delay"
               /\ Article!Leading(v5'[d]) => v3'[v5'[d].kind] = [leader |-> d, done |-> FALSE]
               /\ v5'[d].pc = "delete" => v3'[v5'[d].kind] = [leader |-> d, done |-> TRUE]
               /\ v5'[d].pc = "wait" => v3'[v5'[d].kind] # Article!NoFlight /\ ~ v3'[v5'[d].kind].done
    <3>1. CASE d = c
      BY <1>2, <2>5, <3>1 DEF Article!Leading
    <3>2. CASE d # c
      <4>1. v5'[d] = v5[d] /\ v5[d] \in Article!Lookups
        BY <1>1, <2>5, <3>2 DEF Article!Procs
      <4>2. v5[d].pc \in {"ask", "query", "mark", "close", "delete", "wait"} => v5[d].kind \in ArticleKinds
        BY <4>1, LookupHolds
      <4>3. Article!Leading(v5[d]) \/ v5[d].pc \in {"delete", "wait"} => v5[d].kind # l.kind
        BY <2>2, <3>2, FlightIsRegistered
      <4>4. Article!Leading(v5[d]) \/ v5[d].pc \in {"delete", "wait"} => v3'[v5[d].kind] = v3[v5[d].kind]
        BY <2>4, <4>2, <4>3 DEF Article!Leading
      <4> QED
        BY <4>1, <4>4 DEF Article!SourceInv, Article!FlightsAreLed
    <3> QED
      BY <3>1, <3>2
  <2>7. \A k \in ArticleConfirmers : v5'[k].pc \notin {"join", "wait", "delete"}
    BY <2>5, ArticleAssumption DEF Article!Procs, Article!SourceInv, Article!FlightsAreLed
  <2>8. ASSUME NEW k \in ArticleKinds, v3'[k] # Article!NoFlight
        PROVE  LET m == v5'[v3'[k].leader] IN
               m.pc # "idle" /\ m.kind = k /\ IF v3'[k].done THEN m.pc = "delete" ELSE Article!Leading(m)
    <3>1. k # l.kind
      BY <2>4, <2>8
    <3>2. v3'[k] = v3[k] /\ v3[k].leader \in ArticleCallers
      BY <1>1, <2>4, <2>8, <3>1
    <3>3. v3[k].leader # c
      BY <3>1, <2>8, <3>2 DEF Article!SourceInv, Article!FlightsAreLed
    <3>4. v5'[v3[k].leader] = v5[v3[k].leader]
      BY <2>5, <3>2, <3>3 DEF Article!Procs
    <3> QED
      BY <2>8, <3>2, <3>4 DEF Article!SourceInv, Article!FlightsAreLed
  <2>9. Article!FlightsAreLed'
    BY <2>6, <2>7, <2>8 DEF Article!FlightsAreLed, Article!Leading
  <2>10. v3' \in [ArticleKinds -> {Article!NoFlight} \cup [leader : ArticleCallers, done : BOOLEAN]]
    BY <1>1, <2>3
  <2> QED
    BY <1>2, <1>4, <2>3, <2>9, <2>10
<1> QED
  BY <1>6, <1>7, <1>8, <1>9, <1>10

\* Every step of the fetch stack.
LEMMA ArticleSteps ==
  ASSUME Article!SourceInv, [Article!Next]_(Article!articleVars)
  PROVE  Article!SourceInv'
<1>1. CASE UNCHANGED <<v1, v3, v5>> /\ (v2' = v2 \/ v2' = Article!Unmarked)
  BY <1>1 DEF Article!SourceInv, Article!FlightsAreLed, Article!Leading, Article!LearntIsTrue, Article!DayMarkIsProof, Article!Unmarked
<1>2. ASSUME NEW p \in Article!Procs, Article!Step(p) PROVE Article!SourceInv'
  <2>1. p \in ArticleConfirmers => v5[p].pc # "delete"
    BY DEF Article!SourceInv, Article!FlightsAreLed
  <2> QED
    BY <1>2, <2>1, WalkSteps, MarkSteps, CallSteps DEF Article!Step, Article!Close, Article!Delete, Article!Procs
<1> QED
  BY <1>1, <1>2, CallSteps DEF Article!Next, Article!CoolDown, Article!Expire, Article!articleVars

-----------------------------------------------------------------------------
(* A sole reader of the cached copies.                                       *)

\* Nothing is cached and the reader has yet to begin.
LEMMA CopyBegins ==
  ASSUME Decoded!Init
  PROVE  Decoded!ForgottenInv
BY DEF Decoded!Init, Decoded!ForgottenInv, Decoded!Empty, Decoded!NoCopy, Decoded!Ready, Decoded!Steps, Decoded!HasBody

\* The reader goes on, perhaps with one thing more in its hands.
LEMMA ReaderGoes ==
  ASSUME Decoded!ForgottenInv, NEW pc \in Decoded!Steps
  PROVE  /\ v5' \in [{CopyReader} -> [pc : Decoded!Steps, body : Nat, info : Nat]] <=>
              v5' = [r \in {CopyReader} |-> v5'[CopyReader]] /\ v5'[CopyReader] \in [pc : Decoded!Steps, body : Nat, info : Nat]
         /\ Decoded!Goes(CopyReader, pc) =>
              v5' = [r \in {CopyReader} |-> [pc |-> pc, body |-> v5[CopyReader].body, info |-> v5[CopyReader].info]]
         /\ \A copy \in Nat : Decoded!Holds(CopyReader, pc, "body", copy) =>
              v5' = [r \in {CopyReader} |-> [pc |-> pc, body |-> copy, info |-> v5[CopyReader].info]]
         /\ \A copy \in Nat : Decoded!Holds(CopyReader, pc, "info", copy) =>
              v5' = [r \in {CopyReader} |-> [pc |-> pc, body |-> v5[CopyReader].body, info |-> copy]]
BY DEF Decoded!ForgottenInv, Decoded!Goes, Decoded!Holds

\* The steps of a sole reader, and the end of the process.
LEMMA CopySteps ==
  ASSUME Decoded!ForgottenInv, [Decoded!Next]_(Decoded!decodedVars)
  PROVE  Decoded!ForgottenInv'
<1> USE DEF Decoded!ForgottenInv, Decoded!NoCopy, Decoded!HasBody, Decoded!Steps, Decoded!At
<1> DEFINE r == CopyReader  me == v5[CopyReader]
<1>1. CASE Decoded!Restart
  BY <1>1 DEF Decoded!Restart, Decoded!Empty, Decoded!Ready
<1>2. CASE Decoded!RamBody(r) \/ Decoded!RamInfo(r)
  BY <1>2, ReaderGoes DEF Decoded!RamBody, Decoded!RamInfo
<1>3. CASE Decoded!RamPut(r)
  BY <1>3, ReaderGoes DEF Decoded!RamPut
<1>4. CASE Decoded!RamInfoPut(r)
  BY <1>4 DEF Decoded!RamInfoPut, Decoded!Landed
<1>5. CASE Decoded!Join(r, "ram", "ramJoin", "disk", "ramWait") \/ Decoded!Join(r, "disk", "diskJoin", "diskAgain", "diskWait")
  BY <1>5, ReaderGoes DEF Decoded!Join
<1>6. CASE Decoded!DiskBody(r) \/ Decoded!LookupPartInfo(r)
  BY <1>6, ReaderGoes DEF Decoded!DiskBody, Decoded!LookupPartInfo
<1>7. CASE Decoded!Refetch(r) \/ Decoded!Fetch(r)
  BY <1>7, ReaderGoes DEF Decoded!Refetch, Decoded!Fetch, Decoded!Brought
<1>8. CASE Decoded!Refill(r) \/ Decoded!DiskPut(r)
  BY <1>8, ReaderGoes DEF Decoded!Refill, Decoded!DiskPut
<1>9. CASE Decoded!DiskAgain(r)
  BY <1>9, ReaderGoes DEF Decoded!DiskAgain, Decoded!Landed
<1>10. CASE Decoded!InfoPut(r)
  BY <1>10 DEF Decoded!InfoPut, Decoded!Landed
<1>11. CASE Decoded!Check(r) \/ Decoded!Retry(r)
  BY <1>11 DEF Decoded!Check, Decoded!Retry, Decoded!Ready
<1>12. CASE Decoded!ForgetRam(r)
  BY <1>12, ReaderGoes DEF Decoded!ForgetRam
<1>13. CASE Decoded!ForgetDisk(r)
  BY <1>13, ReaderGoes DEF Decoded!ForgetDisk
<1>14. CASE UNCHANGED Decoded!decodedVars
  BY <1>14 DEF Decoded!decodedVars
<1> QED
  BY <1>1, <1>2, <1>3, <1>4, <1>5, <1>6, <1>7, <1>8, <1>9, <1>10, <1>11, <1>12, <1>13, <1>14 DEF Decoded!Next

-----------------------------------------------------------------------------
(* The read-ahead of the open streams.                                       *)

\* Nothing is open.
LEMMA AheadBegins ==
  ASSUME Ahead!Init
  PROVE  Ahead!AheadInv
<1>1. /\ v3 \in Nat /\ v1 \in [AheadIds -> Ahead!Sessions] /\ v2 \in [AheadSlots -> Ahead!Windows]
  BY DEF Ahead!Init, Ahead!Sessions, Ahead!Windows
<1>2. Ahead!Registered = {} /\ \A w \in AheadSlots : v2[w] = Ahead!Free
  BY DEF Ahead!Init, Ahead!Registered
<1> QED
  BY <1>1, <1>2 DEF Ahead!AheadInv, Ahead!NoOrphanWindow

\* What a window holds, and what a session does.
LEMMA WindowHolds ==
  ASSUME Ahead!AheadInv
  PROVE  /\ v2 \in [AheadSlots -> Ahead!Windows]
         /\ \A w \in AheadSlots : v2[w] # Ahead!Free =>
              /\ v2[w].pc \in {"launch", "drain", "settle"} /\ v2[w].id \in AheadIds /\ v2[w].obj \in Nat \ {0}
              /\ v2[w].generation \in Nat /\ v2[w].live \in BOOLEAN
         /\ v1 \in [AheadIds -> Ahead!Sessions]
         /\ \A i \in Ahead!Registered :
              /\ i \in AheadIds /\ v1[i].obj \in Nat \ {0} /\ v1[i].cancel \in AheadSlots \cup {Ahead!NoCancel}
              /\ v1[i].generation \in Nat
BY DEF Ahead!AheadInv, Ahead!Windows, Ahead!Sessions, Ahead!Registered, Ahead!Absent

\* The smallest free slot is a free one.
LEMMA SlotIsFree ==
  ASSUME Ahead!FreeSlots # {}
  PROVE  Ahead!Min(Ahead!FreeSlots) \in Ahead!FreeSlots
<1>1. Ahead!FreeSlots \in SUBSET Nat
  BY AheadAssumption DEF Ahead!FreeSlots
<1>2. \E n \in Ahead!FreeSlots : \A m \in Ahead!FreeSlots : n <= m
  BY <1>1, LeastNumber
<1> QED
  BY <1>2 DEF Ahead!Min

\* Of two numbers one is the smaller and one the greater.
LEMMA OfTwo ==
  ASSUME NEW a \in Int, NEW b \in Int
  PROVE  Ahead!Min({a, b}) \in {a, b} /\ Ahead!Max({a, b}) \in {a, b}
<1>1. \E x \in {a, b} : \A y \in {a, b} : x <= y
  OBVIOUS
<1>2. \E x \in {a, b} : \A y \in {a, b} : x >= y
  OBVIOUS
<1> QED
  BY <1>1, <1>2 DEF Ahead!Min, Ahead!Max

\* A session with another window, and one with a window scheduled.
LEMMA SessionMoves ==
  ASSUME NEW r, NEW S, NEW T, NEW c \in T, NEW b \in BOOLEAN, NEW g \in Nat, NEW n,
         r \in [obj : Nat \ {0}, file : S, cancel : T, start : Int, rescheduleAt : Int, valid : BOOLEAN, generation : Nat],
         n = [r EXCEPT !.cancel = c, !.valid = b, !.generation = g]
  PROVE  /\ n \in [obj : Nat \ {0}, file : S, cancel : T, start : Int, rescheduleAt : Int, valid : BOOLEAN, generation : Nat]
         /\ n.obj = r.obj /\ n.cancel = c /\ n.generation = g
<1> DEFINE x == [r EXCEPT !.cancel = c]
           y == [x EXCEPT !.valid = b]
<1>1. x = [obj |-> r.obj, file |-> r.file, cancel |-> c, start |-> r.start,
           rescheduleAt |-> r.rescheduleAt, valid |-> r.valid, generation |-> r.generation]
  OBVIOUS
<1>2. n = [y EXCEPT !.generation = g]
  OBVIOUS
<1> HIDE DEF x
<1>3. y = [obj |-> r.obj, file |-> r.file, cancel |-> c, start |-> r.start,
           rescheduleAt |-> r.rescheduleAt, valid |-> b, generation |-> r.generation]
  BY <1>1
<1> HIDE DEF y
<1>4. n = [obj |-> r.obj, file |-> r.file, cancel |-> c, start |-> r.start,
           rescheduleAt |-> r.rescheduleAt, valid |-> b, generation |-> g]
  BY <1>2, <1>3
<1> QED
  BY <1>4

LEMMA SessionIsScheduled ==
  ASSUME NEW r, NEW S, NEW T, NEW c \in T, NEW b \in BOOLEAN, NEW from \in Int, NEW to \in Int, NEW n,
         r \in [obj : Nat \ {0}, file : S, cancel : T, start : Int, rescheduleAt : Int, valid : BOOLEAN, generation : Nat],
         n = [r EXCEPT !.cancel = c, !.valid = b, !.start = from, !.rescheduleAt = to]
  PROVE  /\ n \in [obj : Nat \ {0}, file : S, cancel : T, start : Int, rescheduleAt : Int, valid : BOOLEAN, generation : Nat]
         /\ n.obj = r.obj /\ n.cancel = c /\ n.generation = r.generation
<1> DEFINE x == [r EXCEPT !.cancel = c]
           y == [x EXCEPT !.valid = b]
           z == [y EXCEPT !.start = from]
<1>1. x = [obj |-> r.obj, file |-> r.file, cancel |-> c, start |-> r.start,
           rescheduleAt |-> r.rescheduleAt, valid |-> r.valid, generation |-> r.generation]
  OBVIOUS
<1>2. n = [z EXCEPT !.rescheduleAt = to]
  OBVIOUS
<1> HIDE DEF x
<1>3. y = [obj |-> r.obj, file |-> r.file, cancel |-> c, start |-> r.start,
           rescheduleAt |-> r.rescheduleAt, valid |-> b, generation |-> r.generation]
  BY <1>1
<1> HIDE DEF y
<1>4. z = [obj |-> r.obj, file |-> r.file, cancel |-> c, start |-> from,
           rescheduleAt |-> r.rescheduleAt, valid |-> b, generation |-> r.generation]
  BY <1>3
<1> HIDE DEF z
<1>5. n = [obj |-> r.obj, file |-> r.file, cancel |-> c, start |-> from,
           rescheduleAt |-> to, valid |-> b, generation |-> r.generation]
  BY <1>2, <1>4
<1> QED
  BY <1>5

\* The window a session can cancel is stopped, and nothing else is.
LEMMA CancelStops ==
  ASSUME Ahead!AheadInv, NEW i \in AheadIds
  PROVE  LET c == Ahead!Cancelled(v2, v1[i]) IN
         /\ c \in [AheadSlots -> Ahead!Windows]
         /\ \A w \in AheadSlots :
              /\ c[w] = Ahead!Free <=> v2[w] = Ahead!Free
              /\ c[w] # Ahead!Free => /\ c[w].id = v2[w].id /\ c[w].obj = v2[w].obj /\ c[w].generation = v2[w].generation
                                      /\ c[w].live => v2[w].live /\ v2[w].id # i
<1> DEFINE s == v1[i]  c == Ahead!Cancelled(v2, s)
<1>1. \A w \in AheadSlots : v2[w] # Ahead!Free /\ v2[w].live => v1[v2[w].id].cancel = w /\ v1[v2[w].id].obj = v2[w].obj /\ v2[w].obj # 0
  BY WindowHolds DEF Ahead!AheadInv, Ahead!NoOrphanWindow
<1>2. CASE s # Ahead!Absent /\ s.cancel # Ahead!NoCancel
  <2>1. i \in Ahead!Registered /\ s.cancel \in AheadSlots /\ v2[s.cancel] # Ahead!Free
    BY <1>2, WindowHolds DEF Ahead!Registered, Ahead!AheadInv
  <2> DEFINE x == [v2[s.cancel] EXCEPT !.live = FALSE]
  <2>2. /\ x \in Ahead!Windows /\ x # Ahead!Free /\ x.id = v2[s.cancel].id /\ x.obj = v2[s.cancel].obj
        /\ x.generation = v2[s.cancel].generation /\ x.live = FALSE
    <3> DEFINE r == v2[s.cancel]
    <3>1. r \in Ahead!Windows /\ r # Ahead!Free
      BY <2>1, WindowHolds
    <3>2. r = [pc |-> r.pc, id |-> r.id, obj |-> r.obj, generation |-> r.generation, live |-> r.live, share |-> r.share,
               left |-> r.left, flying |-> r.flying, failed |-> r.failed]
      BY <3>1 DEF Ahead!Windows
    <3>3. \A b : [r EXCEPT !.live = b] =
              [pc |-> r.pc, id |-> r.id, obj |-> r.obj, generation |-> r.generation, live |-> b, share |-> r.share,
               left |-> r.left, flying |-> r.flying, failed |-> r.failed]
      BY <3>2
    <3>4. x = [pc |-> r.pc, id |-> r.id, obj |-> r.obj, generation |-> r.generation, live |-> FALSE, share |-> r.share,
               left |-> r.left, flying |-> r.flying, failed |-> r.failed]
      BY <3>3, Zenon
    <3> HIDE DEF x
    <3> QED
      BY <3>1, <3>4 DEF Ahead!Windows, Ahead!Free
  <2>3. c = [v2 EXCEPT ![s.cancel] = x]
    BY <1>2 DEF Ahead!Cancelled
  <2> HIDE DEF x
  <2> HIDE DEF c
  <2>4. c \in [AheadSlots -> Ahead!Windows] /\ c[s.cancel] = x /\ \A w \in AheadSlots \ {s.cancel} : c[w] = v2[w]
    BY <2>1, <2>2, <2>3, WindowHolds
  <2> QED
    BY <1>1, <2>1, <2>2, <2>4 DEF c
<1>3. CASE ~ (s # Ahead!Absent /\ s.cancel # Ahead!NoCancel)
  <2>1. c = v2
    BY <1>3 DEF Ahead!Cancelled
  <2>2. \A w \in AheadSlots : v2[w] # Ahead!Free /\ v2[w].live => v2[w].id # i
    <3> SUFFICES ASSUME NEW w \in AheadSlots, v2[w] # Ahead!Free, v2[w].live, v2[w].id = i
                 PROVE  FALSE
      OBVIOUS
    <3>1. s.cancel = w /\ s.obj # 0 /\ w # Ahead!NoCancel
      BY <1>1, AheadAssumption DEF Ahead!NoCancel
    <3> HIDE DEF s
    <3>2. s = Ahead!Absent
      BY <1>3, <3>1
    <3> QED
      BY <3>1, <3>2 DEF Ahead!Absent
  <2> QED
    BY <2>1, <2>2, WindowHolds
<1> QED
  BY <1>2, <1>3

\* Nothing but a new window can make a window an orphan, if those that lose their
\* session, or their place in it, are stopped.
LEMMA NoneIsOrphaned ==
  ASSUME Ahead!AheadInv, v3' \in Nat, v3' >= v3, v1' \in [AheadIds -> Ahead!Sessions], v2' \in [AheadSlots -> Ahead!Windows],
         \A w \in AheadSlots : v2'[w] # Ahead!Free =>
           /\ v2[w] # Ahead!Free /\ v2'[w].id = v2[w].id /\ v2'[w].obj = v2[w].obj /\ v2'[w].generation = v2[w].generation
           /\ v2'[w].live => /\ v2[w].live
                             /\ LET i == v2[w].id IN
                                v1'[i].obj = v1[i].obj /\ v1'[i].cancel = v1[i].cancel /\ v1'[i].generation = v1[i].generation,
         NEW new \in AheadIds,
         \A i \in AheadIds : v1'[i] # Ahead!Absent =>
           \/ i = new /\ v3' = v3 + 1 /\ v1'[i].obj = v3 + 1 /\ v1'[i].cancel = Ahead!NoCancel
           \/ /\ v1[i] # Ahead!Absent /\ v1'[i].obj = v1[i].obj /\ v1'[i].generation >= v1[i].generation
              /\ v1'[i].cancel # Ahead!NoCancel => /\ v1'[i].cancel = v1[i].cancel /\ v1'[i].generation = v1[i].generation
                                                   /\ v2'[v1[i].cancel] # Ahead!Free
  PROVE  Ahead!AheadInv'
<1> DEFINE In(i) == v1'[i] # Ahead!Absent
<1>1. Ahead!Registered' = {i \in AheadIds : In(i)}
  BY DEF Ahead!Registered, Ahead!Absent
<1>2. \A i \in AheadIds : v1[i] # Ahead!Absent => i \in Ahead!Registered /\ v1[i].obj \in Nat /\ v1[i].obj <= v3 /\ v1[i].generation \in Nat
  BY WindowHolds DEF Ahead!AheadInv, Ahead!Registered
<1>3. \A i \in AheadIds : In(i) => v1'[i].obj \in Nat /\ v1'[i].generation \in Nat /\ v1'[i].obj <= v3'
  <2>1. v3 \in Nat
    BY DEF Ahead!AheadInv
  <2>2. \A i \in AheadIds : In(i) => v1'[i].obj \in Nat /\ v1'[i].generation \in Nat
    BY DEF Ahead!Sessions, Ahead!Absent
  <2> QED
    BY <1>2, <2>1, <2>2
<1>4. \A i, j \in AheadIds : In(i) /\ In(j) /\ v1'[i].obj = v1'[j].obj => i = j
  BY <1>2 DEF Ahead!AheadInv
<1>5. ASSUME NEW w \in AheadSlots, v2'[w] # Ahead!Free
      PROVE  /\ v2'[w].obj <= v3'
             /\ \A i \in AheadIds : In(i) /\ v1'[i].obj = v2'[w].obj =>
                  v2'[w].id = i /\ v2'[w].generation <= v1'[i].generation
             /\ \A x \in AheadSlots : v2'[x] # Ahead!Free /\ v2'[x].obj = v2'[w].obj
                                     /\ v2'[x].generation = v2'[w].generation => x = w
  <2>1. v2[w] # Ahead!Free /\ v2[w].obj \in Nat /\ v2[w].obj <= v3 /\ v2[w].generation \in Nat /\ v3 \in Nat
    BY <1>5, WindowHolds DEF Ahead!AheadInv
  <2>2. ASSUME NEW i \in AheadIds, In(i), v1'[i].obj = v2'[w].obj
        PROVE  v2'[w].id = i /\ v2'[w].generation <= v1'[i].generation
    <3>1. v1[i] # Ahead!Absent /\ v1'[i].obj = v1[i].obj /\ v1'[i].generation >= v1[i].generation
      BY <1>5, <2>1, <2>2
    <3>2. i \in Ahead!Registered /\ v1[i].obj = v2[w].obj
      BY <1>2, <1>5, <2>2, <3>1
    <3>3. v2[w].id = i /\ v2[w].generation <= v1[i].generation
      BY <2>1, <3>2 DEF Ahead!AheadInv
    <3> QED
      BY <1>2, <1>3, <1>5, <2>1, <2>2, <3>1, <3>3
  <2>3. \A x \in AheadSlots : v2'[x] # Ahead!Free /\ v2'[x].obj = v2'[w].obj /\ v2'[x].generation = v2'[w].generation => x = w
    BY <1>5 DEF Ahead!AheadInv
  <2> QED
    BY <1>5, <2>1, <2>2, <2>3
<1>6. ASSUME NEW i \in AheadIds, In(i), v1'[i].cancel # Ahead!NoCancel
      PROVE  LET x == v2'[v1'[i].cancel] IN
             x # Ahead!Free /\ x.obj = v1'[i].obj /\ x.generation = v1'[i].generation
  <2>1. /\ v1[i] # Ahead!Absent /\ v1'[i].obj = v1[i].obj /\ v1'[i].cancel = v1[i].cancel
        /\ v1'[i].generation = v1[i].generation /\ v2'[v1[i].cancel] # Ahead!Free
    BY <1>6
  <2>2. i \in Ahead!Registered /\ v1[i].cancel \in AheadSlots
    BY <1>2, <1>6, <2>1, WindowHolds
  <2>3. v2[v1[i].cancel].obj = v1[i].obj /\ v2[v1[i].cancel].generation = v1[i].generation
    BY <1>6, <2>1, <2>2 DEF Ahead!AheadInv
  <2> QED
    BY <2>1, <2>2, <2>3
<1>7. Ahead!NoOrphanWindow'
  BY WindowHolds DEF Ahead!AheadInv, Ahead!NoOrphanWindow, Ahead!Free
<1> HIDE DEF In
<1>8. Ahead!AheadInv'
  BY <1>1, <1>3, <1>4, <1>5, <1>6, <1>7 DEF Ahead!AheadInv, In, Ahead!Free, Ahead!Absent, Ahead!NoCancel
<1> QED
  BY <1>8
\* A session taken off, put in anew, or changed in its place.
LEMMA RegisterSteps ==
  ASSUME Ahead!AheadInv, NEW i \in AheadIds, NEW f \in AheadFiles, Ahead!Register(i, f)
  PROVE  Ahead!AheadInv'
<1> DEFINE c == Ahead!Cancelled(v2, v1[i])
<1>1. v2' = c /\ v3' = v3 + 1 /\ v1' = [v1 EXCEPT ![i] = Ahead!Object(f)]
  BY DEF Ahead!Register
<1>2. v3 \in Nat /\ v3' \in Nat /\ v3' >= v3
  BY <1>1 DEF Ahead!AheadInv
<1>3. /\ Ahead!Object(f) \in Ahead!Sessions /\ Ahead!Object(f).obj = v3 + 1
      /\ Ahead!Object(f).cancel = Ahead!NoCancel
  BY <1>2 DEF Ahead!Object, Ahead!Sessions, Ahead!NoCancel
<1>4. v1' \in [AheadIds -> Ahead!Sessions] /\ v1'[i] = Ahead!Object(f) /\ \A j \in AheadIds \ {i} : v1'[j] = v1[j]
  BY <1>1, <1>3, WindowHolds
<1>5. /\ c \in [AheadSlots -> Ahead!Windows]
      /\ \A w \in AheadSlots :
           /\ c[w] = Ahead!Free <=> v2[w] = Ahead!Free
           /\ c[w] # Ahead!Free => /\ c[w].id = v2[w].id /\ c[w].obj = v2[w].obj /\ c[w].generation = v2[w].generation
                                   /\ c[w].live => v2[w].live /\ v2[w].id # i
  BY CancelStops
<1> HIDE DEF c
<1>6. \A w \in AheadSlots : v2'[w] # Ahead!Free =>
           /\ v2[w] # Ahead!Free /\ v2'[w].id = v2[w].id /\ v2'[w].obj = v2[w].obj /\ v2'[w].generation = v2[w].generation
           /\ v2'[w].live => /\ v2[w].live
                             /\ LET k == v2[w].id IN
                                v1'[k].obj = v1[k].obj /\ v1'[k].cancel = v1[k].cancel /\ v1'[k].generation = v1[k].generation
  BY <1>1, <1>4, <1>5, WindowHolds
<1>7. \A j \in AheadIds : v1'[j] # Ahead!Absent =>
           \/ j = i /\ v3' = v3 + 1 /\ v1'[j].obj = v3 + 1 /\ v1'[j].cancel = Ahead!NoCancel
           \/ /\ v1[j] # Ahead!Absent /\ v1'[j].obj = v1[j].obj /\ v1'[j].generation >= v1[j].generation
              /\ v1'[j].cancel # Ahead!NoCancel => /\ v1'[j].cancel = v1[j].cancel /\ v1'[j].generation = v1[j].generation
                                                   /\ v2'[v1[j].cancel] # Ahead!Free
  <2>1. ASSUME NEW j \in AheadIds \ {i}, v1[j] # Ahead!Absent
        PROVE  /\ v1[j].generation >= v1[j].generation
               /\ v1[j].cancel # Ahead!NoCancel => v2'[v1[j].cancel] # Ahead!Free
    BY <1>1, <1>5, <2>1, WindowHolds DEF Ahead!AheadInv, Ahead!Registered
  <2> QED
    BY <1>1, <1>3, <1>4, <2>1
<1> QED
  BY <1>1, <1>2, <1>4, <1>5, <1>6, <1>7, NoneIsOrphaned

\* What a seek, and a read past the end, leave of a session.
LEMMA SessionIsStopped ==
  ASSUME Ahead!AheadInv, NEW i \in AheadIds, i \in Ahead!Registered
  PROVE  LET n == [v1[i] EXCEPT !.cancel = Ahead!NoCancel, !.valid = FALSE, !.generation = v1[i].generation + 1] IN
         /\ n \in [obj : Nat \ {0}, file : AheadFiles, cancel : AheadSlots \cup {Ahead!NoCancel}, start : Int,
                   rescheduleAt : Int, valid : BOOLEAN, generation : Nat]
         /\ n \in Ahead!Sessions /\ v1[i] # Ahead!Absent /\ n.obj = v1[i].obj /\ n.cancel = Ahead!NoCancel
         /\ n.generation = v1[i].generation + 1 /\ v1[i].generation \in Nat
<1> DEFINE r == v1[i]
           n == [r EXCEPT !.cancel = Ahead!NoCancel, !.valid = FALSE, !.generation = r.generation + 1]
<1>1. r \in Ahead!Sessions /\ r # Ahead!Absent
  BY WindowHolds DEF Ahead!Registered
<1>2. r.generation \in Nat /\ r.generation + 1 \in Nat
  BY <1>1 DEF Ahead!Sessions, Ahead!Absent
<1>3. r \in [obj : Nat \ {0}, file : AheadFiles, cancel : AheadSlots \cup {Ahead!NoCancel}, start : Int,
             rescheduleAt : Int, valid : BOOLEAN, generation : Nat]
  BY <1>1 DEF Ahead!Sessions
<1> HIDE DEF r
<1>4. /\ n \in [obj : Nat \ {0}, file : AheadFiles, cancel : AheadSlots \cup {Ahead!NoCancel}, start : Int,
                 rescheduleAt : Int, valid : BOOLEAN, generation : Nat]
      /\ n.obj = r.obj /\ n.cancel = Ahead!NoCancel /\ n.generation = r.generation + 1
  BY <1>2, <1>3, SessionMoves
<1> HIDE DEF n
<1>5. n \in Ahead!Sessions
  BY <1>4 DEF Ahead!Sessions
<1> QED
  BY <1>1, <1>2, <1>4, <1>5 DEF n, r

\* Whatever window the session could cancel is stopped.
LEMMA WindowIsLost ==
  ASSUME Ahead!AheadInv, NEW i \in AheadIds, v2' = Ahead!Cancelled(v2, v1[i]), v3' = v3,
         v1' \in [AheadIds -> Ahead!Sessions], \A j \in AheadIds \ {i} : v1'[j] = v1[j],
         \/ v1'[i] = Ahead!Absent
         \/ /\ v1[i] # Ahead!Absent /\ v1'[i].obj = v1[i].obj /\ v1'[i].generation >= v1[i].generation
            /\ v1'[i].cancel = Ahead!NoCancel
  PROVE  Ahead!AheadInv'
<1> DEFINE c == Ahead!Cancelled(v2, v1[i])
<1>1. v2' = c /\ v3' = v3
  OBVIOUS
<1>2. v3 \in Nat /\ v3' \in Nat /\ v3' >= v3
  BY <1>1 DEF Ahead!AheadInv
<1>3. /\ v1' \in [AheadIds -> Ahead!Sessions] /\ \A j \in AheadIds \ {i} : v1'[j] = v1[j]
      /\ \/ v1'[i] = Ahead!Absent
         \/ /\ v1[i] # Ahead!Absent /\ v1'[i].obj = v1[i].obj /\ v1'[i].generation >= v1[i].generation
            /\ v1'[i].cancel = Ahead!NoCancel
  OBVIOUS
<1>5. /\ c \in [AheadSlots -> Ahead!Windows]
      /\ \A w \in AheadSlots :
           /\ c[w] = Ahead!Free <=> v2[w] = Ahead!Free
           /\ c[w] # Ahead!Free => /\ c[w].id = v2[w].id /\ c[w].obj = v2[w].obj /\ c[w].generation = v2[w].generation
                                   /\ c[w].live => v2[w].live /\ v2[w].id # i
  BY CancelStops
<1> HIDE DEF c
<1>6. \A w \in AheadSlots : v2'[w] # Ahead!Free =>
           /\ v2[w] # Ahead!Free /\ v2'[w].id = v2[w].id /\ v2'[w].obj = v2[w].obj /\ v2'[w].generation = v2[w].generation
           /\ v2'[w].live => /\ v2[w].live
                             /\ LET k == v2[w].id IN
                                v1'[k].obj = v1[k].obj /\ v1'[k].cancel = v1[k].cancel /\ v1'[k].generation = v1[k].generation
  BY <1>1, <1>3, <1>5, WindowHolds
<1>7. \A j \in AheadIds : v1'[j] # Ahead!Absent =>
           \/ j = i /\ v3' = v3 + 1 /\ v1'[j].obj = v3 + 1 /\ v1'[j].cancel = Ahead!NoCancel
           \/ /\ v1[j] # Ahead!Absent /\ v1'[j].obj = v1[j].obj /\ v1'[j].generation >= v1[j].generation
              /\ v1'[j].cancel # Ahead!NoCancel => /\ v1'[j].cancel = v1[j].cancel /\ v1'[j].generation = v1[j].generation
                                                   /\ v2'[v1[j].cancel] # Ahead!Free
  <2>1. ASSUME NEW j \in AheadIds \ {i}, v1[j] # Ahead!Absent
        PROVE  /\ v1[j].generation >= v1[j].generation
               /\ v1[j].cancel # Ahead!NoCancel => v2'[v1[j].cancel] # Ahead!Free
    BY <1>1, <1>5, <2>1, WindowHolds DEF Ahead!AheadInv, Ahead!Registered
  <2> QED
    BY <1>3, <2>1
<1> QED
  BY <1>1, <1>2, <1>3, <1>5, <1>6, <1>7, NoneIsOrphaned

LEMMA StopSteps ==
  ASSUME Ahead!AheadInv, NEW i \in AheadIds, Ahead!Stop(i) \/ Ahead!Seek(i)
  PROVE  Ahead!AheadInv'
<1>1. CASE Ahead!Stop(i)
  BY <1>1, WindowHolds, WindowIsLost DEF Ahead!Stop, Ahead!Sessions
<1>2. CASE Ahead!Seek(i)
  <2> DEFINE n == [v1[i] EXCEPT !.cancel = Ahead!NoCancel, !.valid = FALSE, !.generation = v1[i].generation + 1]
  <2>1. i \in Ahead!Registered /\ v1' = [v1 EXCEPT ![i] = n] /\ v2' = Ahead!Cancelled(v2, v1[i]) /\ v3' = v3
    BY <1>2 DEF Ahead!Seek
  <2>2. /\ n \in Ahead!Sessions /\ v1[i] # Ahead!Absent /\ n.obj = v1[i].obj /\ n.cancel = Ahead!NoCancel
        /\ n.generation = v1[i].generation + 1 /\ v1[i].generation \in Nat
    BY <2>1, SessionIsStopped
  <2> HIDE DEF n
  <2>3. v1' \in [AheadIds -> Ahead!Sessions] /\ v1'[i] = n /\ \A j \in AheadIds \ {i} : v1'[j] = v1[j]
    BY <2>1, <2>2, WindowHolds
  <2>4. n.generation >= v1[i].generation
    BY <2>2
  <2> QED
    BY <2>1, <2>2, <2>3, <2>4, WindowIsLost
<1> QED
  BY <1>1, <1>2

\* The sessions on the file that make way: their windows are stopped.
LEMMA MetaSteps ==
  ASSUME Ahead!AheadInv, NEW i \in AheadIds, NEW f \in AheadFiles, Ahead!RegisterMeta(i, f)
  PROVE  Ahead!AheadInv'
<1> DEFINE stale == {j \in Ahead!Registered \ {i} : v1[j].file = f}
           stopped == {v1[j].cancel : j \in stale}
<1>1. /\ v2' = [w \in AheadSlots |-> IF w \in stopped THEN [v2[w] EXCEPT !.live = FALSE] ELSE v2[w]]
      /\ v1' = [j \in AheadIds |-> IF j \in stale THEN Ahead!Absent
                                   ELSE IF j = i /\ i \in Ahead!Registered THEN [v1[i] EXCEPT !.file = f]
                                   ELSE v1[j]]
      /\ v3' = v3
  BY DEF Ahead!RegisterMeta
<1>2. v3 \in Nat /\ v3' \in Nat /\ v3' >= v3
  BY <1>1 DEF Ahead!AheadInv
<1>3. stale \subseteq Ahead!Registered /\ stale \subseteq AheadIds
  BY DEF Ahead!Registered
<1>4. \A w \in stopped : \E j \in stale : v1[j].cancel = w
  OBVIOUS
<1>5. \A j \in stale : v1[j].cancel \in stopped
  OBVIOUS
<1> HIDE DEF stopped, stale
<1>6. ASSUME NEW j \in AheadIds
      PROVE  /\ v1'[j] \in Ahead!Sessions
             /\ j \in stale => v1'[j] = Ahead!Absent
             /\ j \notin stale /\ v1'[j] # Ahead!Absent => v1[j] # Ahead!Absent
             /\ j \notin stale => v1'[j].obj = v1[j].obj /\ v1'[j].cancel = v1[j].cancel /\ v1'[j].generation = v1[j].generation
  <2>0. v1[j] \in Ahead!Sessions
    BY WindowHolds
  <2>1. CASE j \in stale
    BY <1>1, <2>1 DEF Ahead!Sessions
  <2>2. CASE j \notin stale /\ ~ (j = i /\ i \in Ahead!Registered)
    BY <1>1, <2>0, <2>2
  <2>3. CASE j \notin stale /\ j = i /\ i \in Ahead!Registered
    <3> DEFINE r == v1[j]
               n == [r EXCEPT !.file = f]
    <3>1. v1'[j] = n /\ r # Ahead!Absent
      BY <1>1, <2>3 DEF Ahead!Registered
    <3>2. n \in Ahead!Sessions /\ n.obj = r.obj /\ n.cancel = r.cancel /\ n.generation = r.generation
      BY <2>0, <3>1 DEF Ahead!Sessions
    <3> QED
      BY <2>3, <3>1, <3>2
  <2> QED
    BY <2>1, <2>2, <2>3
<1>7. \A w \in AheadSlots : v2[w] # Ahead!Free /\ v2[w].live => v1[v2[w].id].cancel = w /\ v1[v2[w].id].obj = v2[w].obj /\ v2[w].obj # 0
  BY WindowHolds DEF Ahead!AheadInv, Ahead!NoOrphanWindow
<1>8. ASSUME NEW w \in stopped, w \in AheadSlots PROVE v2[w] # Ahead!Free
  <2>1. PICK j \in stale : v1[j].cancel = w
    BY <1>4
  <2> QED
    BY <1>3, <1>8, <2>1, AheadAssumption DEF Ahead!AheadInv, Ahead!NoCancel
<1>9. ASSUME NEW w \in AheadSlots
      PROVE  /\ v2'[w] \in Ahead!Windows
             /\ v2'[w] # Ahead!Free <=> v2[w] # Ahead!Free
             /\ v2'[w].id = v2[w].id /\ v2'[w].obj = v2[w].obj /\ v2'[w].generation = v2[w].generation
             /\ v2[w] # Ahead!Free /\ v2'[w].live => v2[w].live /\ w \notin stopped
  <2>0. v2[w] \in Ahead!Windows
    BY WindowHolds
  <2>1. CASE w \notin stopped
    BY <1>1, <2>0, <2>1
  <2>2. CASE w \in stopped
    <3> DEFINE r == v2[w]
               x == [r EXCEPT !.live = FALSE]
    <3>0. v2'[w] = x
      BY <1>1, <2>2
    <3>1. r \in Ahead!Windows /\ r # Ahead!Free
      BY <1>8, <2>0, <2>2
    <3>2. r = [pc |-> r.pc, id |-> r.id, obj |-> r.obj, generation |-> r.generation, live |-> r.live, share |-> r.share,
               left |-> r.left, flying |-> r.flying, failed |-> r.failed]
      BY <3>1 DEF Ahead!Windows
    <3>3. \A b : [r EXCEPT !.live = b] =
              [pc |-> r.pc, id |-> r.id, obj |-> r.obj, generation |-> r.generation, live |-> b, share |-> r.share,
               left |-> r.left, flying |-> r.flying, failed |-> r.failed]
      BY <3>2
    <3>4. x = [pc |-> r.pc, id |-> r.id, obj |-> r.obj, generation |-> r.generation, live |-> FALSE, share |-> r.share,
               left |-> r.left, flying |-> r.flying, failed |-> r.failed]
      BY <3>3, Zenon
    <3> HIDE DEF x
    <3>5. x \in Ahead!Windows /\ x # Ahead!Free /\ x.id = r.id /\ x.obj = r.obj /\ x.generation = r.generation /\ x.live = FALSE
      BY <3>1, <3>4 DEF Ahead!Windows, Ahead!Free
    <3> QED
      BY <3>0, <3>1, <3>5
  <2> QED
    BY <2>1, <2>2
<1>10. v1' \in [AheadIds -> Ahead!Sessions] /\ v2' \in [AheadSlots -> Ahead!Windows]
  BY <1>1, <1>6, <1>9
<1>11. \A w \in AheadSlots : v2'[w] # Ahead!Free =>
           /\ v2[w] # Ahead!Free /\ v2'[w].id = v2[w].id /\ v2'[w].obj = v2[w].obj /\ v2'[w].generation = v2[w].generation
           /\ v2'[w].live => /\ v2[w].live
                             /\ LET k == v2[w].id IN
                                v1'[k].obj = v1[k].obj /\ v1'[k].cancel = v1[k].cancel /\ v1'[k].generation = v1[k].generation
  <2>1. ASSUME NEW w \in AheadSlots, v2[w] # Ahead!Free, v2'[w].live
        PROVE  v2[w].live /\ v2[w].id \in AheadIds /\ v2[w].id \notin stale
    BY <1>5, <1>7, <1>9, <2>1, WindowHolds
  <2> QED
    BY <1>6, <1>9, <2>1
<1>12. \A j \in AheadIds : v1'[j] # Ahead!Absent =>
           \/ j = i /\ v3' = v3 + 1 /\ v1'[j].obj = v3 + 1 /\ v1'[j].cancel = Ahead!NoCancel
           \/ /\ v1[j] # Ahead!Absent /\ v1'[j].obj = v1[j].obj /\ v1'[j].generation >= v1[j].generation
              /\ v1'[j].cancel # Ahead!NoCancel => /\ v1'[j].cancel = v1[j].cancel /\ v1'[j].generation = v1[j].generation
                                                   /\ v2'[v1[j].cancel] # Ahead!Free
  <2>1. ASSUME NEW j \in AheadIds, v1[j] # Ahead!Absent
        PROVE  /\ v1[j].generation >= v1[j].generation
               /\ v1[j].cancel # Ahead!NoCancel => v2'[v1[j].cancel] # Ahead!Free
    BY <1>9, <2>1, WindowHolds DEF Ahead!AheadInv, Ahead!Registered
  <2> QED
    BY <1>6, <2>1
<1> QED
  BY <1>2, <1>10, <1>11, <1>12, NoneIsOrphaned
\* A window goes on: it launches, gets an answer, drains and settles.
LEMMA WindowLaunches ==
  ASSUME NEW r \in Ahead!Windows, r # Ahead!Free, NEW n,
         NEW a \in Int, NEW b \in Int,
         n = [r EXCEPT !.left = a, !.flying = b]
  PROVE  n \in Ahead!Windows /\ n # Ahead!Free /\ n.id = r.id /\ n.obj = r.obj /\ n.generation = r.generation /\ n.live = r.live
<1>1. r = [pc |-> r.pc, id |-> r.id, obj |-> r.obj, generation |-> r.generation, live |-> r.live, share |-> r.share,
          left |-> r.left, flying |-> r.flying, failed |-> r.failed]
  BY DEF Ahead!Windows
<1> DEFINE x == [r EXCEPT !.left = a]
<1>2. n = [x EXCEPT !.flying = b]
  OBVIOUS
<1>3. x = [pc |-> r.pc, id |-> r.id, obj |-> r.obj, generation |-> r.generation, live |-> r.live, share |-> r.share,
          left |-> a, flying |-> r.flying, failed |-> r.failed]
  BY <1>1
<1> HIDE DEF x
<1>4. n = [pc |-> r.pc, id |-> r.id, obj |-> r.obj, generation |-> r.generation, live |-> r.live, share |-> r.share,
          left |-> a, flying |-> b, failed |-> r.failed]
  BY <1>3, <1>2
<1> QED
  BY <1>4 DEF Ahead!Windows, Ahead!Free

LEMMA WindowIsTold ==
  ASSUME NEW r \in Ahead!Windows, r # Ahead!Free, NEW n,
         NEW b \in Int, NEW e \in BOOLEAN,
         n = [r EXCEPT !.flying = b, !.failed = e]
  PROVE  n \in Ahead!Windows /\ n # Ahead!Free /\ n.id = r.id /\ n.obj = r.obj /\ n.generation = r.generation /\ n.live = r.live
<1>1. r = [pc |-> r.pc, id |-> r.id, obj |-> r.obj, generation |-> r.generation, live |-> r.live, share |-> r.share,
          left |-> r.left, flying |-> r.flying, failed |-> r.failed]
  BY DEF Ahead!Windows
<1> DEFINE x == [r EXCEPT !.flying = b]
<1>2. n = [x EXCEPT !.failed = e]
  OBVIOUS
<1>3. x = [pc |-> r.pc, id |-> r.id, obj |-> r.obj, generation |-> r.generation, live |-> r.live, share |-> r.share,
          left |-> r.left, flying |-> b, failed |-> r.failed]
  BY <1>1
<1> HIDE DEF x
<1>4. n = [pc |-> r.pc, id |-> r.id, obj |-> r.obj, generation |-> r.generation, live |-> r.live, share |-> r.share,
          left |-> r.left, flying |-> b, failed |-> e]
  BY <1>3, <1>2
<1> QED
  BY <1>4 DEF Ahead!Windows, Ahead!Free

LEMMA WindowEnds ==
  ASSUME NEW r \in Ahead!Windows, r # Ahead!Free, NEW n,
         NEW p \in {"launch", "drain", "settle"},
         n = [r EXCEPT !.pc = p]
  PROVE  n \in Ahead!Windows /\ n # Ahead!Free /\ n.id = r.id /\ n.obj = r.obj /\ n.generation = r.generation /\ n.live = r.live
<1>1. r = [pc |-> r.pc, id |-> r.id, obj |-> r.obj, generation |-> r.generation, live |-> r.live, share |-> r.share,
          left |-> r.left, flying |-> r.flying, failed |-> r.failed]
  BY DEF Ahead!Windows
<1>3. n = [pc |-> p, id |-> r.id, obj |-> r.obj, generation |-> r.generation, live |-> r.live, share |-> r.share,
          left |-> r.left, flying |-> r.flying, failed |-> r.failed]
  BY <1>1
<1> QED
  BY <1>3 DEF Ahead!Windows, Ahead!Free

LEMMA WindowGoes ==
  ASSUME Ahead!AheadInv, NEW w \in AheadSlots, v2[w] # Ahead!Free, NEW n \in Ahead!Windows, n # Ahead!Free,
         n.id = v2[w].id, n.obj = v2[w].obj, n.generation = v2[w].generation, n.live => v2[w].live,
         v2' = [v2 EXCEPT ![w] = n], v1' = v1, v3' = v3
  PROVE  Ahead!AheadInv'
<1>1. v2' \in [AheadSlots -> Ahead!Windows] /\ v2'[w] = n /\ \A x \in AheadSlots \ {w} : v2'[x] = v2[x]
  BY WindowHolds
<1>2. v3 \in Nat /\ v3' \in Nat /\ v3' >= v3
  BY DEF Ahead!AheadInv
<1>3. \A x \in AheadSlots : v2'[x] # Ahead!Free =>
           /\ v2[x] # Ahead!Free /\ v2'[x].id = v2[x].id /\ v2'[x].obj = v2[x].obj /\ v2'[x].generation = v2[x].generation
           /\ v2'[x].live => /\ v2[x].live
                             /\ LET k == v2[x].id IN
                                v1'[k].obj = v1[k].obj /\ v1'[k].cancel = v1[k].cancel /\ v1'[k].generation = v1[k].generation
  BY <1>1
<1>4. v2[w].id \in AheadIds
  BY WindowHolds
<1>5. \A j \in AheadIds : v1'[j] # Ahead!Absent =>
           \/ j = v2[w].id /\ v3' = v3 + 1 /\ v1'[j].obj = v3 + 1 /\ v1'[j].cancel = Ahead!NoCancel
           \/ /\ v1[j] # Ahead!Absent /\ v1'[j].obj = v1[j].obj /\ v1'[j].generation >= v1[j].generation
              /\ v1'[j].cancel # Ahead!NoCancel => /\ v1'[j].cancel = v1[j].cancel /\ v1'[j].generation = v1[j].generation
                                                   /\ v2'[v1[j].cancel] # Ahead!Free
  BY <1>1, WindowHolds DEF Ahead!AheadInv, Ahead!Registered
<1> QED
  BY <1>1, <1>2, <1>3, <1>4, <1>5, WindowHolds, NoneIsOrphaned

LEMMA WindowSteps ==
  ASSUME Ahead!AheadInv, NEW w \in AheadSlots,
         (\E err \in BOOLEAN : Ahead!Fetched(w, err)) \/ Ahead!Launch(w) \/ Ahead!LaunchEnd(w) \/ Ahead!Drained(w)
  PROVE  Ahead!AheadInv'
<1> DEFINE r == v2[w]
<1>1. r \in Ahead!Windows /\ r # Ahead!Free
  BY WindowHolds DEF Ahead!Fetched, Ahead!Launch, Ahead!LaunchEnd, Ahead!Drained, Ahead!Free
<1>2. r.flying \in Int /\ r.left \in Int /\ r.failed \in BOOLEAN /\ r.live \in BOOLEAN
  BY <1>1 DEF Ahead!Windows
<1>3. v1' = v1 /\ v3' = v3
  BY DEF Ahead!Fetched, Ahead!Launch, Ahead!LaunchEnd, Ahead!Drained
<1> DEFINE Goes(n) == v2' = [v2 EXCEPT ![w] = n] /\ n \in Ahead!Windows /\ n # Ahead!Free /\ n.id = r.id /\ n.obj = r.obj
                      /\ n.generation = r.generation /\ (n.live => r.live)
<1>4. CASE \E err \in BOOLEAN : Ahead!Fetched(w, err)
  <2>1. PICK err \in BOOLEAN : Ahead!Fetched(w, err)
    BY <1>4
  <2> DEFINE n == [r EXCEPT !.flying = r.flying - 1, !.failed = r.failed \/ (err /\ r.live)]
  <2>2. v2' = [v2 EXCEPT ![w] = n]
    BY <2>1 DEF Ahead!Fetched
  <2>3. r.flying - 1 \in Int /\ (r.failed \/ (err /\ r.live)) \in BOOLEAN
    BY <1>2
  <2>4. \A b \in Int : \A e \in BOOLEAN : LET m == [r EXCEPT !.flying = b, !.failed = e] IN
          m \in Ahead!Windows /\ m # Ahead!Free /\ m.id = r.id /\ m.obj = r.obj /\ m.generation = r.generation /\ m.live = r.live
    BY <1>1, WindowIsTold
  <2>5. n \in Ahead!Windows /\ n # Ahead!Free /\ n.id = r.id /\ n.obj = r.obj /\ n.generation = r.generation /\ n.live = r.live
    BY <2>3, <2>4, Zenon
  <2> QED
    BY <1>1, <1>3, <2>2, <2>5, WindowGoes
<1>5. CASE Ahead!Launch(w)
  <2> DEFINE n == [r EXCEPT !.left = r.left - 1, !.flying = r.flying + 1]
  <2>2. v2' = [v2 EXCEPT ![w] = n]
    BY <1>5 DEF Ahead!Launch
  <2>3. r.left - 1 \in Int /\ r.flying + 1 \in Int
    BY <1>2
  <2>5. n \in Ahead!Windows /\ n # Ahead!Free /\ n.id = r.id /\ n.obj = r.obj /\ n.generation = r.generation /\ n.live = r.live
    BY <1>1, <2>3, WindowLaunches
  <2> QED
    BY <1>1, <1>3, <2>2, <2>5, WindowGoes
<1>6. CASE Ahead!LaunchEnd(w)
  <2> DEFINE n == [r EXCEPT !.pc = "drain"]
  <2>2. v2' = [v2 EXCEPT ![w] = n]
    BY <1>6 DEF Ahead!LaunchEnd
  <2>5. n \in Ahead!Windows /\ n # Ahead!Free /\ n.id = r.id /\ n.obj = r.obj /\ n.generation = r.generation /\ n.live = r.live
    BY <1>1, WindowEnds
  <2> QED
    BY <1>1, <1>3, <2>2, <2>5, WindowGoes
<1>7. CASE Ahead!Drained(w)
  <2> DEFINE e == r.failed /\ r.live
             x == [r EXCEPT !.pc = "settle"]
             y == [x EXCEPT !.failed = e]
             n == [y EXCEPT !.live = FALSE]
  <2>1. v2' = [v2 EXCEPT ![w] = n]
    BY <1>7 DEF Ahead!Drained
  <2>2. e \in BOOLEAN
    BY <1>2
  <2> HIDE DEF e
  <2>3. r = [pc |-> r.pc, id |-> r.id, obj |-> r.obj, generation |-> r.generation, live |-> r.live, share |-> r.share,
             left |-> r.left, flying |-> r.flying, failed |-> r.failed]
    BY <1>1 DEF Ahead!Windows
  <2>4. x = [pc |-> "settle", id |-> r.id, obj |-> r.obj, generation |-> r.generation, live |-> r.live, share |-> r.share,
             left |-> r.left, flying |-> r.flying, failed |-> r.failed]
    BY <2>3
  <2> HIDE DEF x
  <2>5. \A b : [x EXCEPT !.failed = b] = [pc |-> "settle", id |-> r.id, obj |-> r.obj, generation |-> r.generation, live |-> r.live, share |-> r.share,
             left |-> r.left, flying |-> r.flying, failed |-> b]
    BY <2>4
  <2>6. y = [pc |-> "settle", id |-> r.id, obj |-> r.obj, generation |-> r.generation, live |-> r.live, share |-> r.share,
             left |-> r.left, flying |-> r.flying, failed |-> e]
    BY <2>5, Zenon
  <2> HIDE DEF y
  <2>7. \A b : [y EXCEPT !.live = b] = [pc |-> "settle", id |-> r.id, obj |-> r.obj, generation |-> r.generation, live |-> b, share |-> r.share,
             left |-> r.left, flying |-> r.flying, failed |-> e]
    BY <2>6
  <2>8. n = [pc |-> "settle", id |-> r.id, obj |-> r.obj, generation |-> r.generation, live |-> FALSE, share |-> r.share,
             left |-> r.left, flying |-> r.flying, failed |-> e]
    BY <2>7, Zenon
  <2> HIDE DEF n
  <2>9. n \in Ahead!Windows /\ n # Ahead!Free /\ n.id = r.id /\ n.obj = r.obj /\ n.generation = r.generation /\ n.live = FALSE
    BY <1>1, <2>2, <2>8 DEF Ahead!Windows, Ahead!Free
  <2> QED
    BY <1>1, <1>3, <2>1, <2>9, WindowGoes
<1> QED
  BY <1>4, <1>5, <1>6, <1>7

\* A window that is over leaves its session, if it is still that session's.
LEMMA SettleSteps ==
  ASSUME Ahead!AheadInv, NEW w \in AheadSlots, Ahead!Settle(w)
  PROVE  Ahead!AheadInv'
<1> DEFINE r == v2[w]
           i == r.id
           mine == v1[i].obj = r.obj /\ v1[i].generation = r.generation
           s == v1[i]
           n == [s EXCEPT !.cancel = Ahead!NoCancel, !.valid = s.valid /\ ~ r.failed]
<1>1. r \in Ahead!Windows /\ r # Ahead!Free /\ i \in AheadIds /\ r.obj \in Nat \ {0} /\ r.failed \in BOOLEAN
  BY WindowHolds DEF Ahead!Settle, Ahead!Free, Ahead!Windows
<1>2. v2' = [v2 EXCEPT ![w] = Ahead!Free] /\ v3' = v3 /\ v1' = IF mine THEN [v1 EXCEPT ![i] = n] ELSE v1
  BY DEF Ahead!Settle
<1>3. v3 \in Nat /\ v3' \in Nat /\ v3' >= v3
  BY <1>2 DEF Ahead!AheadInv
<1>4. v2' \in [AheadSlots -> Ahead!Windows] /\ v2'[w] = Ahead!Free /\ \A x \in AheadSlots \ {w} : v2'[x] = v2[x]
  BY <1>2, WindowHolds DEF Ahead!Windows
<1>5. mine => /\ n \in Ahead!Sessions /\ n.obj = s.obj /\ n.cancel = Ahead!NoCancel /\ n.generation = s.generation
              /\ s # Ahead!Absent
  <2> SUFFICES ASSUME mine
               PROVE  /\ n \in Ahead!Sessions /\ n.obj = s.obj /\ n.cancel = Ahead!NoCancel /\ n.generation = s.generation
                      /\ s # Ahead!Absent
    OBVIOUS
  <2>1. s \in [obj : Nat \ {0}, file : AheadFiles, cancel : AheadSlots \cup {Ahead!NoCancel}, start : Int,
               rescheduleAt : Int, valid : BOOLEAN, generation : Nat]
    BY <1>1, WindowHolds DEF Ahead!Sessions, Ahead!Absent
  <2>2. s.generation \in Nat /\ (s.valid /\ ~ r.failed) \in BOOLEAN /\ s # Ahead!Absent
    BY <1>1, <2>1 DEF Ahead!Absent
  <2> DEFINE b == s.valid /\ ~ r.failed
             y == [s EXCEPT !.cancel = Ahead!NoCancel]
  <2>3. n = [y EXCEPT !.valid = b]
    OBVIOUS
  <2>4. y = [obj |-> s.obj, file |-> s.file, cancel |-> Ahead!NoCancel, start |-> s.start,
             rescheduleAt |-> s.rescheduleAt, valid |-> s.valid, generation |-> s.generation]
    BY <2>1
  <2> HIDE DEF y
  <2>5. \A c : [y EXCEPT !.valid = c] = [obj |-> s.obj, file |-> s.file, cancel |-> Ahead!NoCancel, start |-> s.start,
             rescheduleAt |-> s.rescheduleAt, valid |-> c, generation |-> s.generation]
    BY <2>4
  <2> HIDE DEF b
  <2>6. n = [obj |-> s.obj, file |-> s.file, cancel |-> Ahead!NoCancel, start |-> s.start,
             rescheduleAt |-> s.rescheduleAt, valid |-> b, generation |-> s.generation]
    BY <2>3, <2>5, Zenon
  <2>7. b \in BOOLEAN
    BY <2>2 DEF b
  <2> HIDE DEF n
  <2> HIDE DEF s
  <2> QED
    BY <2>1, <2>2, <2>6, <2>7 DEF Ahead!Sessions, Ahead!NoCancel
<1> HIDE DEF n
<1>6. /\ v1' \in [AheadIds -> Ahead!Sessions]
      /\ \A j \in AheadIds : j # i \/ ~ mine => v1'[j] = v1[j]
      /\ mine => v1'[i] = n
  BY <1>1, <1>2, <1>5, WindowHolds
<1>7. ASSUME NEW j \in AheadIds, v1[j] # Ahead!Absent, v1[j].cancel = w
      PROVE  j = i /\ mine
  <2>1. j \in Ahead!Registered /\ v1[j].cancel # Ahead!NoCancel /\ r.obj = v1[j].obj /\ r.generation = v1[j].generation
    BY <1>7, AheadAssumption DEF Ahead!AheadInv, Ahead!Registered, Ahead!NoCancel
  <2>2. r.id = j
    BY <1>1, <2>1 DEF Ahead!AheadInv
  <2> QED
    BY <2>1, <2>2
<1>8. \A x \in AheadSlots : v2'[x] # Ahead!Free =>
           /\ v2[x] # Ahead!Free /\ v2'[x].id = v2[x].id /\ v2'[x].obj = v2[x].obj /\ v2'[x].generation = v2[x].generation
           /\ v2'[x].live => /\ v2[x].live
                             /\ LET k == v2[x].id IN
                                v1'[k].obj = v1[k].obj /\ v1'[k].cancel = v1[k].cancel /\ v1'[k].generation = v1[k].generation
  <2>1. ASSUME NEW x \in AheadSlots, v2[x] # Ahead!Free, v2[x].live, x # w
        PROVE  v2[x].id \in AheadIds /\ (v2[x].id # i \/ ~ mine)
    <3>1. v2[x].id \in AheadIds /\ v1[v2[x].id].obj = v2[x].obj /\ v1[v2[x].id].generation = v2[x].generation
      BY <2>1, WindowHolds DEF Ahead!AheadInv, Ahead!NoOrphanWindow
    <3>2. v2[x].obj = r.obj /\ v2[x].generation = r.generation => x = w
      BY <1>1, <2>1 DEF Ahead!AheadInv
    <3> QED
      BY <2>1, <3>1, <3>2
  <2> HIDE DEF mine
  <2> QED
    BY <1>4, <1>6, <2>1
<1>9. \A j \in AheadIds : v1'[j] # Ahead!Absent =>
           \/ j = i /\ v3' = v3 + 1 /\ v1'[j].obj = v3 + 1 /\ v1'[j].cancel = Ahead!NoCancel
           \/ /\ v1[j] # Ahead!Absent /\ v1'[j].obj = v1[j].obj /\ v1'[j].generation >= v1[j].generation
              /\ v1'[j].cancel # Ahead!NoCancel => /\ v1'[j].cancel = v1[j].cancel /\ v1'[j].generation = v1[j].generation
                                                   /\ v2'[v1[j].cancel] # Ahead!Free
  <2>1. ASSUME NEW j \in AheadIds, v1[j] # Ahead!Absent
        PROVE  /\ v1[j].generation \in Nat
               /\ v1[j].cancel # Ahead!NoCancel => v1[j].cancel \in AheadSlots /\ v2[v1[j].cancel] # Ahead!Free
    BY <2>1, WindowHolds DEF Ahead!AheadInv, Ahead!Registered
  <2> HIDE DEF mine
  <2>2. ASSUME NEW j \in AheadIds, v1'[j] # Ahead!Absent, j # i \/ ~ mine
        PROVE  /\ v1[j] # Ahead!Absent /\ v1'[j].obj = v1[j].obj /\ v1'[j].generation >= v1[j].generation
               /\ v1'[j].cancel # Ahead!NoCancel => /\ v1'[j].cancel = v1[j].cancel /\ v1'[j].generation = v1[j].generation
                                                   /\ v2'[v1[j].cancel] # Ahead!Free
    <3>1. v1'[j] = v1[j]
      BY <1>6, <2>2
    <3>2. v1[j].cancel # w
      BY <1>7, <2>2, <3>1
    <3> QED
      BY <1>4, <2>1, <2>2, <3>1, <3>2
  <2>3. ASSUME mine
        PROVE  v1[i] # Ahead!Absent /\ v1'[i].obj = v1[i].obj /\ v1'[i].generation >= v1[i].generation /\ v1'[i].cancel = Ahead!NoCancel
    BY <1>1, <1>5, <1>6, <2>1, <2>3
  <2> QED
    BY <2>2, <2>3
<1> HIDE DEF mine
<1> QED
  BY <1>1, <1>3, <1>4, <1>6, <1>8, <1>9, NoneIsOrphaned

\* A new window takes the place of the one that is stopped.
LEMMA ScheduleSteps ==
  ASSUME Ahead!AheadInv, NEW i \in AheadIds, NEW offset \in 0 .. AheadArticles, Ahead!Schedule(i, offset)
  PROVE  Ahead!AheadInv'
<1> DEFINE s == v1[i]
           c == Ahead!Cancelled(v2, s)
           end == Ahead!Min({offset + AheadWindow, AheadArticles})
           half == offset + (end - offset) \div 2
           n == [s EXCEPT !.cancel = Ahead!NoCancel, !.valid = FALSE, !.generation = s.generation + 1]
           share == Ahead!Max({1, AheadParallelism \div Ahead!Cardinality(Ahead!Registered)})
           w == Ahead!Min(Ahead!FreeSlots)
           new == [pc |-> "launch", id |-> i, obj |-> s.obj, generation |-> n.generation,
                   live |-> TRUE, share |-> share, left |-> end - offset, flying |-> 0, failed |-> FALSE]
           to == IF half > offset THEN half ELSE end
           z == [n EXCEPT !.cancel = w, !.valid = TRUE, !.start = offset, !.rescheduleAt = to]
<1>1. /\ i \in Ahead!Registered /\ v3' = v3
      /\ \/ offset >= AheadArticles /\ v2' = c /\ v1' = [v1 EXCEPT ![i] = n]
         \/ /\ Ahead!FreeSlots # {} /\ v2' = [c EXCEPT ![w] = new]
            /\ v1' = [v1 EXCEPT ![i] = z]
  <2>1. i \in Ahead!Registered /\ v3' = v3
    BY DEF Ahead!Schedule
  <2>2. CASE offset >= AheadArticles
    BY <2>1, <2>2, Zenon DEF Ahead!Schedule
  <2>3. CASE ~ (offset >= AheadArticles)
    BY <2>1, <2>3, Zenon DEF Ahead!Schedule
  <2> QED
    BY <2>2, <2>3, Zenon
<1>2. /\ n \in [obj : Nat \ {0}, file : AheadFiles, cancel : AheadSlots \cup {Ahead!NoCancel}, start : Int,
               rescheduleAt : Int, valid : BOOLEAN, generation : Nat]
      /\ n \in Ahead!Sessions /\ s # Ahead!Absent /\ n.obj = s.obj /\ n.cancel = Ahead!NoCancel
      /\ n.generation = s.generation + 1 /\ s.generation \in Nat
  BY <1>1, SessionIsStopped
<1>3. share \in Ahead!Shares /\ end \in Int /\ offset \in Int /\ to \in Int
  <2>4. offset \in Int /\ offset + AheadWindow \in Int /\ AheadArticles \in Int
    BY AheadAssumption
  <2>5. share \in Ahead!Shares
    <3>1. Ahead!Registered \in (SUBSET AheadIds) \ {{}}
      BY <1>1 DEF Ahead!Registered
    <3> QED
      BY <3>1 DEF Ahead!Shares
  <2>6. end \in Int
    BY <2>4, OfTwo
  <2> HIDE DEF end
  <2>7. half \in Int
    BY <2>4, <2>6
  <2> QED
    BY <2>4, <2>5, <2>6, <2>7
<1>4. v3 \in Nat
  BY DEF Ahead!AheadInv
<1>5. /\ c \in [AheadSlots -> Ahead!Windows]
      /\ \A x \in AheadSlots :
           /\ c[x] = Ahead!Free <=> v2[x] = Ahead!Free
           /\ c[x] # Ahead!Free => /\ c[x].id = v2[x].id /\ c[x].obj = v2[x].obj /\ c[x].generation = v2[x].generation
                                   /\ c[x].live => v2[x].live /\ v2[x].id # i
  BY CancelStops
<1> HIDE DEF c, n, share, end, to
<1>6. CASE v2' = c /\ v1' = [v1 EXCEPT ![i] = n]
  <2>1. v1' \in [AheadIds -> Ahead!Sessions] /\ v1'[i] = n /\ \A j \in AheadIds \ {i} : v1'[j] = v1[j]
    BY <1>2, <1>6, WindowHolds
  <2>2. n.generation >= s.generation
    BY <1>2
  <2> QED
    BY <1>1, <1>2, <1>6, <2>1, <2>2, WindowIsLost DEF c
<1>7. CASE Ahead!FreeSlots # {} /\ v2' = [c EXCEPT ![w] = new] /\ v1' = [v1 EXCEPT ![i] = z]
  <2>1. w \in AheadSlots /\ v2[w] = Ahead!Free
    BY <1>7, SlotIsFree DEF Ahead!FreeSlots
  <2> HIDE DEF w
  <2>2. z \in Ahead!Sessions /\ z.obj = s.obj /\ z.cancel = w /\ z.generation = s.generation + 1
    <3>1. w \in AheadSlots \cup {Ahead!NoCancel}
      BY <2>1
    <3> QED
      BY <1>2, <1>3, <3>1, SessionIsScheduled DEF Ahead!Sessions
  <2> HIDE DEF z
  <2>3. /\ new \in Ahead!Windows /\ new # Ahead!Free /\ new.id = i /\ new.obj = s.obj /\ new.generation = s.generation + 1
        /\ s.obj \in Nat \ {0}
    <3>1. s.obj \in Nat \ {0}
      BY <1>2 DEF Ahead!Sessions
    <3>2. end - offset \in Int /\ n.generation \in Nat
      BY <1>2, <1>3
    <3>3. DOMAIN new # DOMAIN Ahead!Free
      BY DEF Ahead!Free
    <3> QED
      BY <1>2, <1>3, <3>1, <3>2, <3>3 DEF Ahead!Windows
  <2> HIDE DEF new
  <2>4. /\ v2' \in [AheadSlots -> Ahead!Windows] /\ v2'[w] = new /\ \A x \in AheadSlots \ {w} : v2'[x] = c[x]
        /\ v1' \in [AheadIds -> Ahead!Sessions] /\ v1'[i] = z /\ \A j \in AheadIds \ {i} : v1'[j] = v1[j]
    BY <1>5, <1>7, <2>1, <2>2, <2>3, WindowHolds
  <2>5. z # Ahead!Absent
    BY <2>2, <2>3 DEF Ahead!Absent
  <2>6. Ahead!Registered' = Ahead!Registered
    BY <1>1, <2>4, <2>5 DEF Ahead!Registered, Ahead!Absent
  <2>7. \A j \in Ahead!Registered : v1'[j].obj = v1[j].obj /\ v1[j].obj <= v3' /\ j \in AheadIds
    BY <1>1, <2>2, <2>4 DEF Ahead!AheadInv, Ahead!Registered
  <2>8. \A j, k \in Ahead!Registered : v1'[j].obj = v1'[k].obj => j = k
    BY <2>7 DEF Ahead!AheadInv
  <2>9. ASSUME NEW x \in AheadSlots, x # w, v2'[x] # Ahead!Free
        PROVE  /\ v2[x] # Ahead!Free /\ v2'[x].id = v2[x].id /\ v2'[x].obj = v2[x].obj /\ v2'[x].generation = v2[x].generation
               /\ v2[x].generation \in Nat
               /\ v2'[x].live => v2[x].live /\ v2[x].id # i /\ v2[x].id \in AheadIds
               /\ \A j \in Ahead!Registered : v1[j].obj = v2[x].obj => v2[x].id = j /\ v2[x].generation <= v1[j].generation
               /\ v2[x].obj <= v3
    BY <1>5, <2>4, <2>9, WindowHolds DEF Ahead!AheadInv
  <2>10. ASSUME NEW x \in AheadSlots, v2'[x] # Ahead!Free
         PROVE  /\ v2'[x].obj <= v3'
                /\ \A j \in Ahead!Registered : v1'[j].obj = v2'[x].obj =>
                     v2'[x].id = j /\ v2'[x].generation <= v1'[j].generation
    <3>1. CASE x = w
      <4>1. \A j \in Ahead!Registered : v1[j].obj = s.obj => j = i
        BY <1>1 DEF Ahead!AheadInv
      <4>2. v1'[i].generation >= new.generation
        BY <1>2, <2>2, <2>3, <2>4
      <4> QED
        BY <1>1, <2>3, <2>4, <2>7, <3>1, <4>1, <4>2
    <3>2. CASE x # w
      <4>1. \A j \in Ahead!Registered : v1'[j].generation >= v1[j].generation /\ v1'[j].generation \in Nat /\ v1[j].generation \in Nat
        BY <1>2, <2>2, <2>4, WindowHolds
      <4> QED
        BY <1>1, <2>7, <2>9, <2>10, <3>2, <4>1
    <3> QED
      BY <3>1, <3>2
  <2>11. ASSUME NEW x \in AheadSlots, v2'[x] # Ahead!Free, NEW y \in AheadSlots, v2'[y] # Ahead!Free, v2'[y].obj = v2'[x].obj,
                v2'[y].generation = v2'[x].generation
         PROVE  x = y
    <3>1. \A q \in AheadSlots : q # w /\ v2'[q] # Ahead!Free => ~ (v2'[q].obj = new.obj /\ v2'[q].generation = new.generation)
      BY <1>1, <1>2, <2>3, <2>9
    <3> QED
      BY <2>4, <2>9, <2>11, <3>1 DEF Ahead!AheadInv
  <2>12. ASSUME NEW j \in Ahead!Registered, v1'[j].cancel # Ahead!NoCancel
         PROVE  LET x == v2'[v1'[j].cancel] IN
                x # Ahead!Free /\ x.obj = v1'[j].obj /\ x.generation = v1'[j].generation
    <3>1. CASE j = i
      BY <2>2, <2>3, <2>4, <3>1
    <3>2. CASE j # i
      <4>1. v1'[j] = v1[j] /\ v1[j].cancel \in AheadSlots /\ v1[j].cancel # Ahead!NoCancel
        BY <2>4, <2>12, <3>2, WindowHolds
      <4>2. LET x == v2[v1[j].cancel] IN x # Ahead!Free /\ x.obj = v1[j].obj /\ x.generation = v1[j].generation
        BY <4>1 DEF Ahead!AheadInv
      <4>3. v1[j].cancel # w
        BY <2>1, <4>2
      <4> QED
        BY <1>5, <2>4, <4>1, <4>2, <4>3
    <3> QED
      BY <3>1, <3>2
  <2>13. ASSUME NEW x \in AheadSlots, v2'[x] # Ahead!Free, v2'[x].live
         PROVE  LET k == v1'[v2'[x].id] IN k.obj = v2'[x].obj /\ k.cancel = x /\ k.generation = v2'[x].generation
    <3>1. CASE x = w
      BY <2>2, <2>3, <2>4, <3>1
    <3>2. CASE x # w
      BY <2>4, <2>9, <2>13, <3>2 DEF Ahead!AheadInv, Ahead!NoOrphanWindow
    <3> QED
      BY <3>1, <3>2
  <2>14. v3' \in Nat
    BY <1>1, <1>4
  <2> HIDE DEF s
  <2>15. Ahead!NoOrphanWindow'
    BY <2>13 DEF Ahead!NoOrphanWindow, Ahead!Free
  <2> QED
    BY <2>4, <2>6, <2>7, <2>8, <2>10, <2>11, <2>12, <2>14, <2>15 DEF Ahead!AheadInv, Ahead!Free, Ahead!NoCancel
<1> QED
  BY <1>1, <1>6, <1>7

LEMMA AheadSteps ==
  ASSUME Ahead!AheadInv, Ahead!Next
  PROVE  Ahead!AheadInv'
BY RegisterSteps, MetaSteps, StopSteps, ScheduleSteps, WindowSteps, SettleSteps DEF Ahead!Next

-----------------------------------------------------------------------------
(* The handles and their sessions.                                           *)

LEMMA SessionsBegin ==
  ASSUME Content!Init
  PROVE  Content!SessionsInv
<1>1. v6 = [c \in DavClients |-> Content!Idle] /\ v7 = <<>>
  BY DEF Content!Init
<1>2. DOMAIN v7 = {}
  BY <1>1
<1> QED
  BY <1>1, <1>2 DEF Content!SessionsInv, Content!SessionIsOfAReader

\* Who has no session yet goes on without one.
LEMMA OthersGoOn ==
  ASSUME Content!SessionsInv, v7' = v7, DOMAIN v6' = DavClients,
         \A c \in DavClients :
           \/ v6'[c] = v6[c]
           \/ /\ v6[c].at # "handle"
              /\ \/ v6'[c] = Content!Idle
                 \/ v6'[c].at = "handle" /\ Content!IsHandle(v6'[c])
                 \/ /\ v6'[c].at \in {"missed", "waits", "answered"}
                    /\ DOMAIN v6'[c] = {"at", "path", "open", "since", "gone", "answer"}
  PROVE  Content!SessionsInv'
<1>1. \A c \in DOMAIN v7 : c \in DavClients /\ v6'[c] = v6[c]
  BY DEF Content!SessionsInv, Content!SessionIsOfAReader
<1>2. Content!SessionIsOfAReader'
  BY <1>1 DEF Content!SessionsInv, Content!SessionIsOfAReader
<1>3. \A c \in DavClients :
       \/ v6'[c] = Content!Idle
       \/ v6'[c].at = "handle" /\ Content!IsHandle(v6'[c])
       \/ /\ v6'[c].at \in {"missed", "waits", "answered"}
          /\ DOMAIN v6'[c] = {"at", "path", "open", "since", "gone", "answer"}
  BY DEF Content!SessionsInv
<1> QED
  BY <1>2, <1>3 DEF Content!SessionsInv, Content!IsHandle, Content!Idle

\* A request, until it has its answer.
LEMMA RequestSteps ==
  ASSUME Content!SessionsInv, NEW c \in DavClients,
         Content!Ask(c) \/ Content!EnterFlight(c) \/ Content!Leave(c) \/ Content!Done(c)
  PROVE  Content!SessionsInv'
<1>1. v7' = v7 /\ DOMAIN v6 = DavClients
  BY DEF Content!Ask, Content!EnterFlight, Content!Leave, Content!Done, Content!SessionsInv
<1>2. ASSUME NEW n, v6' = [v6 EXCEPT ![c] = n], v6[c].at # "handle",
             \/ n = Content!Idle
             \/ n.at = "handle" /\ Content!IsHandle(n)
             \/ n.at \in {"missed", "waits", "answered"} /\ DOMAIN n = {"at", "path", "open", "since", "gone", "answer"}
      PROVE  Content!SessionsInv'
  <2>1. DOMAIN v6' = DavClients /\ v6'[c] = n /\ \A d \in DavClients \ {c} : v6'[d] = v6[d]
    BY <1>1, <1>2
  <2> QED
    BY <1>1, <1>2, <2>1, OthersGoOn
<1>3. v6[c].at \in {"missed", "waits", "answered"} => DOMAIN v6[c] = {"at", "path", "open", "since", "gone", "answer"}
  BY DEF Content!SessionsInv, Content!Idle
<1>4. CASE Content!Ask(c)
  <2>0. PICK r \in ContentRequests : \E n :
          /\ v6' = [v6 EXCEPT ![c] = n]
          /\ LET asked == [at |-> "missed", path |-> r.path, open |-> r.open,
                           since |-> v1, gone |-> FALSE, answer |-> Content!None]
             IN n = asked \/ \E s : n = Content!Answered(asked, s)
    BY <1>4 DEF Content!Ask
  <2>1. PICK n :
          /\ v6' = [v6 EXCEPT ![c] = n]
          /\ LET asked == [at |-> "missed", path |-> r.path, open |-> r.open,
                           since |-> v1, gone |-> FALSE, answer |-> Content!None]
             IN n = asked \/ \E s : n = Content!Answered(asked, s)
    BY <2>0
  <2> DEFINE asked == [at |-> "missed", path |-> r.path, open |-> r.open,
                       since |-> v1, gone |-> FALSE, answer |-> Content!None]
  <2>2. asked.at = "missed" /\ DOMAIN asked = {"at", "path", "open", "since", "gone", "answer"}
    OBVIOUS
  <2> HIDE DEF asked
  <2>3. \A s : /\ Content!Answered(asked, s).at = "answered"
               /\ DOMAIN Content!Answered(asked, s) = {"at", "path", "open", "since", "gone", "answer"}
    BY <2>2 DEF Content!Answered
  <2>4. n.at \in {"missed", "answered"} /\ DOMAIN n = {"at", "path", "open", "since", "gone", "answer"}
    BY <2>1, <2>2, <2>3 DEF asked
  <2> QED
    BY <1>2, <1>4, <2>1, <2>4 DEF Content!Ask
<1>5. CASE Content!EnterFlight(c)
  <2> DEFINE n == [v6[c] EXCEPT !.at = "waits"]
  <2>1. v6' = [v6 EXCEPT ![c] = n] /\ v6[c].at = "missed"
    BY <1>5 DEF Content!EnterFlight
  <2>2. n.at = "waits" /\ DOMAIN n = {"at", "path", "open", "since", "gone", "answer"}
    BY <1>3, <2>1
  <2> QED
    BY <1>2, <2>1, <2>2
<1>6. CASE Content!Leave(c)
  <2> DEFINE n == [v6[c] EXCEPT !.gone = TRUE]
  <2>1. v6' = [v6 EXCEPT ![c] = n] /\ v6[c].at = "waits"
    BY <1>6 DEF Content!Leave
  <2>2. n.at = "waits" /\ DOMAIN n = {"at", "path", "open", "since", "gone", "answer"}
    BY <1>3, <2>1
  <2> QED
    BY <1>2, <2>1, <2>2
<1>7. CASE Content!Done(c)
  <2>1. \E p, s : v6' = [v6 EXCEPT ![c] = Content!Handle(p, s)] \/ v6' = [v6 EXCEPT ![c] = Content!Idle]
    BY <1>7 DEF Content!Done
  <2>2. \A p, s : Content!Handle(p, s).at = "handle" /\ Content!IsHandle(Content!Handle(p, s))
    BY DEF Content!Handle, Content!IsHandle
  <2>3. v6[c].at # "handle"
    BY <1>7 DEF Content!Done
  <2> HIDE DEF Content!Handle, Content!Idle
  <2> QED
    BY <1>2, <2>1, <2>2, <2>3
<1> QED
  BY <1>4, <1>5, <1>6, <1>7

\* A rebuild ends, well or badly, for all that wait for it.
LEMMA FlightSteps ==
  ASSUME Content!SessionsInv, NEW s \in Content!Sections, Content!StoreSnapshot(s) \/ Content!FailFlight(s)
  PROVE  Content!SessionsInv'
<1>1. v7' = v7 /\ DOMAIN v6' = DavClients
  BY DEF Content!StoreSnapshot, Content!FailFlight
<1>2. ASSUME NEW c \in DavClients
      PROVE  \/ v6'[c] = v6[c]
             \/ /\ v6[c].at # "handle"
                /\ \/ v6'[c] = Content!Idle
                   \/ v6'[c].at = "handle" /\ Content!IsHandle(v6'[c])
                   \/ /\ v6'[c].at \in {"missed", "waits", "answered"}
                      /\ DOMAIN v6'[c] = {"at", "path", "open", "since", "gone", "answer"}
  <2>1. CASE v6'[c] = v6[c]
    BY <2>1
  <2>2. CASE v6[c].at = "waits" /\ v6'[c] = Content!Idle
    BY <2>2
  <2>3. CASE v6[c].at = "waits" /\ v6'[c] = Content!Answered(v6[c], v5[s].of)
    <3>1. DOMAIN v6[c] = {"at", "path", "open", "since", "gone", "answer"}
      BY <2>3 DEF Content!SessionsInv, Content!Idle
    <3>2. v6'[c].at = "answered" /\ DOMAIN v6'[c] = {"at", "path", "open", "since", "gone", "answer"}
      BY <2>3, <3>1 DEF Content!Answered
    <3> QED
      BY <2>3, <3>2
  <2> QED
    BY <2>1, <2>2, <2>3 DEF Content!StoreSnapshot, Content!FailFlight
<1> QED
  BY <1>1, <1>2, OthersGoOn

\* A handle that moves, with what its session is told of it.
LEMMA HandleGoes ==
  ASSUME Content!SessionsInv, NEW c \in DavClients, v6[c].at = "handle",
         NEW n, n = Content!Idle \/ (n.at = "handle" /\ Content!IsHandle(n) /\ n.path = v6[c].path),
         v6' = [v6 EXCEPT ![c] = n],
         DOMAIN v7' \subseteq DOMAIN v7 \cup {c},
         \A d \in DOMAIN v7' \ {c} : v7'[d] = v7[d],
         c \in DOMAIN v7' =>
           /\ n.at = "handle" /\ n.vf = "opened"
           /\ n.hasRead /\ v7'[c] # n.pos => n.pos = n.lastEnd
           /\ \A d \in DOMAIN v7' \ {c} : v6[d].path # n.path
  PROVE  Content!SessionsInv'
<1>1. DOMAIN v6' = DavClients /\ v6'[c] = n /\ \A d \in DavClients \ {c} : v6'[d] = v6[d]
  BY DEF Content!SessionsInv
<1>2. DOMAIN v7' \subseteq DavClients
  BY DEF Content!SessionsInv
<1>3. ASSUME NEW d \in DOMAIN v7'
      PROVE  /\ v6'[d].at = "handle" /\ v6'[d].vf = "opened"
             /\ v6'[d].hasRead /\ v7'[d] # v6'[d].pos => v6'[d].pos = v6'[d].lastEnd
             /\ \A e \in DOMAIN v7' \ {d} : v6'[e].path # v6'[d].path
  <2>1. CASE d = c
    BY <1>1, <1>2, <2>1
  <2>2. CASE d # c
    <3>1. d \in DavClients /\ v6'[d] = v6[d] /\ v7'[d] = v7[d] /\ d \in DOMAIN v7
      BY <1>1, <1>2, <2>2
    <3>2. /\ v6[d].at = "handle" /\ v6[d].vf = "opened"
          /\ v6[d].hasRead /\ v7[d] # v6[d].pos => v6[d].pos = v6[d].lastEnd
          /\ \A e \in DOMAIN v7 \ {d} : v6[e].path # v6[d].path
      BY <3>1 DEF Content!SessionsInv, Content!SessionIsOfAReader
    <3>3. ASSUME NEW e \in DOMAIN v7' \ {d} PROVE v6'[e].path # v6'[d].path
      <4>1. CASE e = c
        BY <1>1, <2>2, <3>1, <4>1
      <4>2. CASE e # c
        BY <1>1, <1>2, <3>1, <3>2, <4>2
      <4> QED
        BY <4>1, <4>2
    <3> QED
      BY <3>1, <3>2, <3>3
  <2> QED
    BY <2>1, <2>2
<1>4. Content!SessionIsOfAReader'
  BY <1>3 DEF Content!SessionIsOfAReader
<1>5. \A d \in DavClients :
       \/ v6'[d] = Content!Idle
       \/ v6'[d].at = "handle" /\ Content!IsHandle(v6'[d])
       \/ /\ v6'[d].at \in {"missed", "waits", "answered"}
          /\ DOMAIN v6'[d] = {"at", "path", "open", "since", "gone", "answer"}
  BY <1>1 DEF Content!SessionsInv
<1> QED
  BY <1>1, <1>2, <1>4, <1>5 DEF Content!SessionsInv, Content!IsHandle, Content!Idle

LEMMA HandleSteps ==
  ASSUME Content!SessionsInv, NEW c \in DavClients,
         Content!Seek(c) \/ Content!EnsureOpen(c) \/ Content!Read(c) \/ Content!CloseHandle(c)
  PROVE  Content!SessionsInv'
<1> DEFINE h == v6[c]
<1>1. h.at = "handle" /\ Content!IsHandle(h)
  <2>1. h.at = "handle"
    BY DEF Content!Seek, Content!EnsureOpen, Content!Read, Content!CloseHandle
  <2>2. \/ h = Content!Idle
        \/ h.at = "handle" /\ Content!IsHandle(h)
        \/ h.at \in {"missed", "waits", "answered"}
    BY DEF Content!SessionsInv
  <2> HIDE DEF h
  <2> QED
    BY <2>1, <2>2 DEF Content!Idle
<1>2. c \in DOMAIN v7 => /\ h.vf = "opened"
                         /\ h.hasRead /\ v7[c] # h.pos => h.pos = h.lastEnd
                         /\ \A d \in DOMAIN v7 \ {c} : v6[d].path # h.path
  BY DEF Content!SessionsInv, Content!SessionIsOfAReader
<1>3. \A d \in DOMAIN v7 : c \in DOMAIN v7 /\ d # c => v6[d].path # h.path
  BY <1>2
<1>4. CASE Content!Seek(c)
  <2>1. PICK to : /\ v6' = [v6 EXCEPT ![c].pos = to]
                  /\ v7' = IF h.hasRead /\ to # h.lastEnd THEN Content!Moved(c, to) ELSE v7
    BY <1>4 DEF Content!Seek
  <2> DEFINE n == [h EXCEPT !.pos = to]
  <2>2. v6' = [v6 EXCEPT ![c] = n]
    BY <2>1
  <2>3. /\ n.at = "handle" /\ Content!IsHandle(n) /\ n.path = h.path /\ n.vf = h.vf /\ n.pos = to
        /\ n.hasRead = h.hasRead /\ n.lastEnd = h.lastEnd
    BY <1>1 DEF Content!IsHandle
  <2> HIDE DEF n
  <2>4. /\ DOMAIN v7' = DOMAIN v7 /\ \A d \in DOMAIN v7 \ {c} : v7'[d] = v7[d]
        /\ c \in DOMAIN v7 /\ h.hasRead /\ to # h.lastEnd => v7'[c] = to
    BY <2>1 DEF Content!Moved
  <2> HIDE DEF h
  <2>5. c \in DOMAIN v7' =>
           /\ n.at = "handle" /\ n.vf = "opened"
           /\ n.hasRead /\ v7'[c] # n.pos => n.pos = n.lastEnd
           /\ \A d \in DOMAIN v7' \ {c} : v6[d].path # n.path
    BY <1>2, <2>3, <2>4
  <2> QED
    BY <1>1, <2>2, <2>3, <2>4, <2>5, HandleGoes DEF h
<1>5. CASE Content!EnsureOpen(c)
  <2>1. h.vf = "unopened" /\ h.hasRead = FALSE /\ c \notin DOMAIN v7
    BY <1>1, <1>2, <1>5 DEF Content!EnsureOpen, Content!IsHandle
  <2>2. PICK vf \in {"opened", "failed"} :
          /\ v6' = [v6 EXCEPT ![c].vf = vf]
          /\ \/ v7' = v7
             \/ /\ vf = "opened"
                /\ LET others == {d \in DOMAIN v7 : v6[d].path = h.path}
                   IN v7' = [d \in (DOMAIN v7 \ others) \cup {c} |-> IF d = c THEN 0 ELSE v7[d]]
    BY <1>5 DEF Content!EnsureOpen
  <2> DEFINE n == [h EXCEPT !.vf = vf]
  <2>3. v6' = [v6 EXCEPT ![c] = n]
    BY <2>2
  <2>4. /\ n.at = "handle" /\ Content!IsHandle(n) /\ n.path = h.path /\ n.vf = vf
        /\ n.hasRead = FALSE
    BY <1>1, <2>1 DEF Content!IsHandle
  <2> HIDE DEF n
  <2>5. CASE v7' = v7
    BY <1>1, <2>1, <2>3, <2>4, <2>5, HandleGoes
  <2>6. CASE vf = "opened" /\ v7' # v7
    <3> DEFINE others == {d \in DOMAIN v7 : v6[d].path = h.path}
    <3>1. v7' = [d \in (DOMAIN v7 \ others) \cup {c} |-> IF d = c THEN 0 ELSE v7[d]]
      BY <2>2, <2>6
    <3>2. /\ DOMAIN v7' \subseteq DOMAIN v7 \cup {c}
          /\ \A d \in DOMAIN v7' \ {c} : v7'[d] = v7[d]
          /\ \A d \in DOMAIN v7' \ {c} : v6[d].path # h.path
      BY <3>1
    <3> HIDE DEF others
    <3> QED
      BY <1>1, <2>3, <2>4, <2>6, <3>2, HandleGoes
  <2> QED
    BY <2>2, <2>5, <2>6
<1>6. CASE Content!Read(c)
  <2>1. PICK end : /\ v6' = [v6 EXCEPT ![c].pos = end, ![c].hasRead = TRUE, ![c].lastEnd = end]
                   /\ v7' = Content!Moved(c, end)
    BY <1>6 DEF Content!Read
  <2> DEFINE x == [h EXCEPT !.pos = end]
             y == [x EXCEPT !.hasRead = TRUE]
             n == [y EXCEPT !.lastEnd = end]
  <2>2. v6' = [v6 EXCEPT ![c] = n]
    <3>1. c \in DOMAIN v6
      BY DEF Content!SessionsInv
    <3> QED
      BY <2>1, <3>1
  <2>3. h.vf = "opened"
    BY <1>6 DEF Content!Read
  <2>4. x.at = "handle" /\ Content!IsHandle(x) /\ x.path = h.path /\ x.vf = "opened" /\ x.pos = end
    BY <1>1, <2>3 DEF Content!IsHandle
  <2> HIDE DEF x
  <2>5. y.at = "handle" /\ Content!IsHandle(y) /\ y.path = h.path /\ y.vf = "opened" /\ y.pos = end
    BY <2>4 DEF Content!IsHandle
  <2> HIDE DEF y
  <2>6. n.at = "handle" /\ Content!IsHandle(n) /\ n.path = h.path /\ n.vf = "opened" /\ n.pos = end /\ n.lastEnd = end
    BY <2>5 DEF Content!IsHandle
  <2> HIDE DEF n
  <2>7. /\ DOMAIN v7' = DOMAIN v7 /\ \A d \in DOMAIN v7 \ {c} : v7'[d] = v7[d]
    BY <2>1 DEF Content!Moved
  <2> QED
    BY <1>1, <1>2, <2>2, <2>6, <2>7, HandleGoes
<1>7. CASE Content!CloseHandle(c)
  <2>1. v6' = [v6 EXCEPT ![c] = Content!Idle] /\ v7' = [d \in DOMAIN v7 \ {c} |-> v7[d]]
    BY <1>7 DEF Content!CloseHandle, Content!Without
  <2>2. DOMAIN v7' = DOMAIN v7 \ {c} /\ \A d \in DOMAIN v7' \ {c} : v7'[d] = v7[d]
    BY <2>1
  <2> QED
    BY <1>1, <2>1, <2>2, HandleGoes
<1> QED
  BY <1>4, <1>5, <1>6, <1>7

LEMMA SessionSteps ==
  ASSUME Content!SessionsInv, Content!Next
  PROVE  Content!SessionsInv'
<1>1. CASE v6' = v6 /\ v7' = v7
  BY <1>1, OthersGoOn DEF Content!SessionsInv
<1>2. CASE Content!Tick \/ Content!Change \/ \E s \in Content!Sections : Content!QueryCatalogue(s)
  BY <1>1, <1>2 DEF Content!Tick, Content!Change, Content!QueryCatalogue
<1> QED
  BY <1>2, RequestSteps, FlightSteps, HandleSteps DEF Content!Next

-----------------------------------------------------------------------------
(* A change of the settings.                                                 *)

LEMMA SettingsBegin ==
  ASSUME Live!Init
  PROVE  Live!SettingsInv
<1>1. Live!NoReader \in [at : {"idle", "has pipeline", "has session"}, chain : 0 .. 0, gen : Nat]
  BY DEF Live!NoReader
<1>2. v8 \in [SettingsReaders -> [at : {"idle", "has pipeline", "has session"}, chain : 0 .. 0, gen : Nat]]
  BY <1>1 DEF Live!Init
<1>3. v2 = [at |-> "idle", want |-> SettingsFirst, undo |-> FALSE, old |-> 0]
  BY DEF Live!Init, Live!NoUpdate
<1>4. \A r \in SettingsReaders : v8[r].at = "idle"
  BY DEF Live!Init, Live!NoReader
<1>5. /\ v3 = [cfg |-> SettingsFirst.route, gen |-> 0] /\ v7 = {}
      /\ v5 = [id |-> 0, usenet |-> Live!Applied(SettingsFirst), route |-> SettingsFirst.route]
      /\ v4 = IF SettingsFirst.route \in SettingsTunnelled THEN {0} ELSE {}
      /\ v1 = SettingsFirst /\ v9 = SettingsFirst.workers /\ v10 = SettingsFirst.interval
  BY DEF Live!Init
<1>6. v7 \subseteq [chain : 0 .. v5.id, gen : Nat] /\ v3.gen \in Nat /\ v5.id \in Nat
  BY <1>5
<1>7. v8 \in [SettingsReaders -> [at : {"idle", "has pipeline", "has session"}, chain : 0 .. v5.id, gen : Nat]]
  BY <1>2, <1>5
<1>8. v4 = Live!TunnelOf(v3) /\ v5.route = v3.cfg
  BY <1>5 DEF Live!TunnelOf
<1>9. Live!SavedIsRunning
  BY <1>5 DEF Live!SavedIsRunning
<1> QED
  BY <1>3, <1>4, <1>5, <1>6, <1>7, <1>8, <1>9
     DEF Live!SettingsInv, Live!Shapes, Live!WantIsDone, Live!OneTunnel, Live!OverTheRoute

\* An update that goes on to another step.
LEMMA UpdateGoes ==
  ASSUME Live!SettingsInv, NEW step, Live!To(step)
  PROVE  /\ v2' = [at |-> step, want |-> v2.want, undo |-> v2.undo, old |-> v2.old]
         /\ v11' = v11
<1>1. v2 = [at |-> v2.at, want |-> v2.want, undo |-> v2.undo, old |-> v2.old]
  BY DEF Live!SettingsInv, Live!Shapes
<1> QED
  BY <1>1 DEF Live!To

LEMMA UpdateFails ==
  ASSUME Live!SettingsInv, Live!ApplyFails
  PROVE  \/ v2.undo /\ v2' = [at |-> "idle", want |-> SettingsFirst, undo |-> FALSE, old |-> 0] /\ v11' = FALSE
         \/ ~ v2.undo /\ v2' = [at |-> "reload", want |-> v1, undo |-> TRUE, old |-> 0] /\ v11' = v11
BY DEF Live!ApplyFails, Live!NoUpdate

LEMMA ShapesStay ==
  ASSUME Live!Shapes, NEW a, NEW w, NEW u \in BOOLEAN, NEW o, v2' = [at |-> a, want |-> w, undo |-> u, old |-> o],
         a \in {"idle", "reload", "drain", "untunnel", "rebuild", "resize", "reschedule", "rename"},
         v3'.gen \in Nat, v5' = v5, v7' \subseteq v7, v8' = v8
  PROVE  Live!Shapes'
<1>1. /\ v2' = [at |-> v2'.at, want |-> v2'.want, undo |-> v2'.undo, old |-> v2'.old]
      /\ v2'.at = a /\ v2'.undo = u
  OBVIOUS
<1>2. v5'.id \in Nat /\ v7' \subseteq [chain : 0 .. v5'.id, gen : Nat]
      /\ v8' \in [SettingsReaders -> [at : {"idle", "has pipeline", "has session"}, chain : 0 .. v5'.id, gen : Nat]]
  BY DEF Live!Shapes
<1> QED
  BY <1>1, <1>2 DEF Live!Shapes

\* One that begins, and one whose step fails.
LEMMA UpdateTurns ==
  ASSUME Live!SettingsInv, UNCHANGED <<v1, v3, v4, v5, v7, v8, v9, v10>>,
         v2.at \notin {"drain", "untunnel", "rebuild"},
         \/ v2.at = "idle" /\ (\E s \in SettingsSubmitted : v2' = [at |-> "reload", want |-> Live!MergeSecrets(v1, s), undo |-> FALSE, old |-> 0])
                           /\ v11' = v11
         \/ Live!ApplyFails
  PROVE  Live!SettingsInv'
<1>1. \/ \E w : v2' = [at |-> "reload", want |-> w, undo |-> FALSE, old |-> 0]
      \/ v2' = [at |-> "idle", want |-> SettingsFirst, undo |-> FALSE, old |-> 0] /\ v11' = FALSE
      \/ v2' = [at |-> "reload", want |-> v1, undo |-> TRUE, old |-> 0]
  BY UpdateFails
<1>2. Live!Shapes'
  <2>1. Live!Shapes /\ v3'.gen \in Nat /\ v7' \subseteq v7 /\ FALSE \in BOOLEAN /\ TRUE \in BOOLEAN
    BY DEF Live!SettingsInv, Live!Shapes
  <2> QED
    BY <1>1, <2>1, ShapesStay
<1>3. Live!WantIsDone'
  BY <1>1 DEF Live!WantIsDone
<1>4. Live!OneTunnel'
  BY <1>1 DEF Live!SettingsInv, Live!OneTunnel, Live!TunnelOf
<1>5. Live!OverTheRoute'
  BY DEF Live!SettingsInv, Live!OverTheRoute
<1>6. Live!SavedIsRunning'
  BY <1>1 DEF Live!SavedIsRunning
<1> QED
  BY <1>2, <1>3, <1>4, <1>5, <1>6 DEF Live!SettingsInv

\* The new route, and the end of the old one.
LEMMA RouteSteps ==
  ASSUME Live!SettingsInv, Live!Reload \/ Live!Drain \/ Live!Untunnel
  PROVE  Live!SettingsInv'
<1>1. CASE Live!Reload /\ v3.cfg = v2.want.route
  <2>1. /\ v2' = [at |-> "rebuild", want |-> v2.want, undo |-> v2.undo, old |-> v2.old] /\ v2.at = "reload"
        /\ UNCHANGED <<v1, v3, v4, v5, v6, v7, v8, v9, v10>>
    BY <1>1, UpdateGoes DEF Live!Reload
  <2>2. Live!Shapes'
    BY <2>1 DEF Live!SettingsInv, Live!Shapes
  <2>3. Live!WantIsDone'
    BY <1>1, <2>1 DEF Live!SettingsInv, Live!WantIsDone
  <2>4. Live!OneTunnel'
    BY <2>1 DEF Live!SettingsInv, Live!OneTunnel, Live!TunnelOf
  <2>5. Live!OverTheRoute'
    BY <2>1 DEF Live!SettingsInv, Live!OverTheRoute
  <2>6. Live!SavedIsRunning'
    BY <2>1 DEF Live!SavedIsRunning
  <2> QED
    BY <2>2, <2>3, <2>4, <2>5, <2>6 DEF Live!SettingsInv
<1>2. CASE Live!Reload /\ v3.cfg # v2.want.route /\ Live!ApplyFails /\ UNCHANGED <<v3, v4>>
  BY <1>2, UpdateTurns DEF Live!Reload
<1>3. CASE /\ v2.at = "reload" /\ v3.cfg # v2.want.route
           /\ v3' = [cfg |-> v2.want.route, gen |-> v3.gen + 1]
           /\ v4' = IF v2.want.route \in SettingsTunnelled THEN v4 \cup {v3.gen + 1} ELSE v4
           /\ v2' = [v2 EXCEPT !.at = "drain", !.old = v3.gen]
           /\ UNCHANGED <<v1, v5, v6, v7, v8, v9, v10>>
  <2>1. v2' = [at |-> "drain", want |-> v2.want, undo |-> v2.undo, old |-> v3.gen]
    <3> DEFINE z == [v2 EXCEPT !.at = "drain"]
    <3>0. \A a : [v2 EXCEPT !.at = a] = [at |-> a, want |-> v2.want, undo |-> v2.undo, old |-> v2.old]
      <4>1. v2 = [at |-> v2.at, want |-> v2.want, undo |-> v2.undo, old |-> v2.old]
        BY DEF Live!SettingsInv, Live!Shapes
      <4> QED
        BY <4>1
    <3>1. z = [at |-> "drain", want |-> v2.want, undo |-> v2.undo, old |-> v2.old]
      BY <3>0, Zenon
    <3>2. v2' = [z EXCEPT !.old = v3.gen]
      BY <1>3
    <3> HIDE DEF z
    <3> QED
      BY <3>1, <3>2
  <2>2. v3.gen \in Nat
    BY DEF Live!SettingsInv, Live!Shapes
  <2>3. v4 = Live!TunnelOf(v3) /\ v5.route = v3.cfg
    BY <1>3 DEF Live!SettingsInv, Live!OneTunnel
  <2>4. Live!Shapes'
    <3>0. v3'.gen = v3.gen + 1 /\ v7' \subseteq v7
      BY <1>3
    <3>1. Live!Shapes /\ v2.undo \in BOOLEAN
      BY DEF Live!SettingsInv, Live!Shapes
    <3>2. v3'.gen \in Nat
      BY <2>2, <3>0
    <3> QED
      BY <1>3, <2>1, <3>0, <3>1, <3>2, ShapesStay
  <2>5. Live!WantIsDone'
    BY <1>3, <2>1 DEF Live!SettingsInv, Live!WantIsDone
  <2>6. Live!OneTunnel'
    BY <1>3, <2>1, <2>2, <2>3 DEF Live!OneTunnel, Live!TunnelOf
  <2>7. Live!OverTheRoute'
    BY <1>3, <2>3 DEF Live!OverTheRoute
  <2>8. Live!SavedIsRunning'
    BY <2>1 DEF Live!SavedIsRunning
  <2> QED
    BY <2>4, <2>5, <2>6, <2>7, <2>8 DEF Live!SettingsInv
<1>4. CASE Live!Drain
  <2>1. /\ v2' = [at |-> "untunnel", want |-> v2.want, undo |-> v2.undo, old |-> v2.old] /\ v2.at = "drain"
        /\ v7' \subseteq v7 /\ UNCHANGED <<v1, v3, v4, v5, v6, v8, v9, v10>>
    BY <1>4, UpdateGoes DEF Live!Drain
  <2>2. Live!Shapes'
    BY <2>1 DEF Live!SettingsInv, Live!Shapes
  <2>3. Live!WantIsDone'
    BY <2>1 DEF Live!SettingsInv, Live!WantIsDone
  <2>4. Live!OneTunnel'
    BY <2>1 DEF Live!SettingsInv, Live!OneTunnel, Live!TunnelOf
  <2>5. Live!OverTheRoute'
    BY <2>1 DEF Live!SettingsInv, Live!OverTheRoute
  <2>6. Live!SavedIsRunning'
    BY <2>1 DEF Live!SavedIsRunning
  <2> QED
    BY <2>2, <2>3, <2>4, <2>5, <2>6 DEF Live!SettingsInv
<1>5. CASE Live!Untunnel
  <2>1. /\ v2' = [at |-> "rebuild", want |-> v2.want, undo |-> v2.undo, old |-> v2.old] /\ v2.at = "untunnel"
        /\ v4' = v4 \ {v2.old} /\ UNCHANGED <<v1, v3, v5, v6, v7, v8, v9, v10>>
    BY <1>5, UpdateGoes DEF Live!Untunnel
  <2>2. Live!Shapes'
    BY <2>1 DEF Live!SettingsInv, Live!Shapes
  <2>3. Live!WantIsDone'
    BY <2>1 DEF Live!SettingsInv, Live!WantIsDone
  <2>4. Live!OneTunnel'
    BY <2>1 DEF Live!SettingsInv, Live!OneTunnel, Live!TunnelOf
  <2>5. Live!OverTheRoute'
    BY <2>1 DEF Live!SettingsInv, Live!OverTheRoute
  <2>6. Live!SavedIsRunning'
    BY <2>1 DEF Live!SavedIsRunning
  <2> QED
    BY <2>2, <2>3, <2>4, <2>5, <2>6 DEF Live!SettingsInv
<1>6. CASE Live!Reload
  BY <1>1, <1>2, <1>3, <1>6 DEF Live!Reload
<1> QED
  BY <1>4, <1>5, <1>6

\* A pipeline in the place of another, and the end of one.
LEMMA PipelineSteps ==
  ASSUME Live!SettingsInv, Live!Rebuild \/ Live!Close
  PROVE  Live!SettingsInv'
<1>1. CASE Live!Rebuild
  <2>1. /\ v2' = [at |-> "resize", want |-> v2.want, undo |-> v2.undo, old |-> v2.old] /\ v2.at = "rebuild"
        /\ UNCHANGED <<v1, v3, v4, v7, v8, v9, v10>>
    BY <1>1, UpdateGoes DEF Live!Rebuild
  <2>2. \/ v5' = v5 /\ v5.usenet = Live!Applied(v2.want) /\ v5.route = v3.cfg
        \/ v5' = [id |-> v5.id + 1, usenet |-> Live!Applied(v2.want), route |-> v3.cfg]
    BY <1>1 DEF Live!Rebuild, Live!Unchanged
  <2>3. v5'.usenet = Live!Applied(v2.want) /\ v5'.route = v3.cfg /\ (v5' = v5 \/ v5'.id = v5.id + 1)
    BY <2>2
  <2>4. v5.id \in Nat /\ v5'.id \in Nat /\ 0 .. v5.id \subseteq 0 .. v5'.id
    <3>1. v5.id \in Nat
      BY DEF Live!SettingsInv, Live!Shapes
    <3> DEFINE k == v5.id
               m == v5'.id
    <3>2. k \in Nat /\ (m = k \/ m = k + 1)
      BY <2>3, <3>1
    <3> HIDE DEF k, m
    <3>3. k \in Nat /\ m \in Nat /\ 0 .. k \subseteq 0 .. m
      BY <3>2
    <3> QED
      BY <3>3 DEF k, m
  <2>5. Live!Shapes'
    <3>1. /\ v2' = [at |-> v2'.at, want |-> v2'.want, undo |-> v2'.undo, old |-> v2'.old]
          /\ v2'.at = "resize" /\ v2'.undo = v2.undo
      BY <2>1
    <3>2. /\ v3'.gen \in Nat /\ v7' \subseteq [chain : 0 .. v5'.id, gen : Nat]
          /\ v8' \in [SettingsReaders -> [at : {"idle", "has pipeline", "has session"}, chain : 0 .. v5'.id, gen : Nat]]
      BY <2>1, <2>4 DEF Live!SettingsInv, Live!Shapes
    <3>3. v2.undo \in BOOLEAN
      BY DEF Live!SettingsInv, Live!Shapes
    <3> QED
      BY <2>4, <3>1, <3>2, <3>3 DEF Live!Shapes
  <2>6. Live!WantIsDone'
    BY <2>1, <2>3 DEF Live!SettingsInv, Live!WantIsDone, Live!Applied
  <2>7. Live!OneTunnel'
    BY <2>1, <2>3 DEF Live!SettingsInv, Live!OneTunnel, Live!TunnelOf
  <2>8. Live!OverTheRoute'
    <3>1. CASE v5' = v5
      BY <2>1, <3>1 DEF Live!SettingsInv, Live!OverTheRoute
    <3>2. CASE v5'.id = v5.id + 1
      <4>1. v7 \subseteq [chain : 0 .. v5.id, gen : Nat]
            /\ v8 \in [SettingsReaders -> [at : {"idle", "has pipeline", "has session"}, chain : 0 .. v5.id, gen : Nat]]
        BY DEF Live!SettingsInv, Live!Shapes
      <4>2. /\ \A s \in v7 : s.chain # v5.id + 1
            /\ \A r \in SettingsReaders : v8[r].chain # v5.id + 1
        <5> DEFINE k == v5.id
        <5>1. /\ \A s \in v7 : s.chain \in 0 .. k
              /\ \A r \in SettingsReaders : v8[r].chain \in 0 .. k
          BY <4>1
        <5>2. k \in Nat
          BY <2>4
        <5> HIDE DEF k
        <5>3. \A x \in 0 .. k : x # k + 1
          BY <5>2
        <5> QED
          BY <5>1, <5>3 DEF k
      <4> QED
        BY <2>1, <3>2, <4>2 DEF Live!OverTheRoute
    <3> QED
      BY <2>3, <3>1, <3>2
  <2>9. Live!SavedIsRunning'
    BY <2>1 DEF Live!SavedIsRunning
  <2> QED
    BY <2>5, <2>6, <2>7, <2>8, <2>9 DEF Live!SettingsInv
<1>2. CASE Live!Close
  <2>1. v7' \subseteq v7 /\ UNCHANGED <<v1, v2, v3, v4, v5, v8, v9, v10, v11>>
    BY <1>2 DEF Live!Close
  <2>2. Live!Shapes' /\ Live!OverTheRoute'
    BY <2>1 DEF Live!SettingsInv, Live!Shapes, Live!OverTheRoute
  <2>3. Live!WantIsDone' /\ Live!OneTunnel'
    BY <2>1 DEF Live!SettingsInv, Live!WantIsDone, Live!OneTunnel, Live!TunnelOf
  <2>4. Live!SavedIsRunning'
    BY <2>1 DEF Live!SettingsInv, Live!SavedIsRunning
  <2> QED
    BY <2>2, <2>3, <2>4 DEF Live!SettingsInv
<1> QED
  BY <1>1, <1>2

\* The pool, the schedule and the file.
LEMMA LastSteps ==
  ASSUME Live!SettingsInv, Live!Resize \/ Live!Reschedule \/ Live!Rename
  PROVE  Live!SettingsInv'
<1>1. UNCHANGED <<v3, v4, v5, v7, v8>>
  BY DEF Live!Resize, Live!Reschedule, Live!Rename
<1>2. Live!Shapes /\ v3'.gen \in Nat /\ v7' \subseteq v7 /\ v2.undo \in BOOLEAN /\ FALSE \in BOOLEAN
  BY <1>1 DEF Live!SettingsInv, Live!Shapes
<1>3. /\ v2.at \in {"resize", "reschedule", "rename"} /\ v4 = Live!TunnelOf(v3) /\ v5.route = v3.cfg
      /\ v3.cfg = v2.want.route /\ v5.usenet = Live!Applied(v2.want)
  BY DEF Live!Resize, Live!Reschedule, Live!Rename, Live!SettingsInv, Live!OneTunnel, Live!WantIsDone
<1>4. Live!OverTheRoute'
  BY <1>1 DEF Live!SettingsInv, Live!OverTheRoute
<1>5. ASSUME NEW a \in {"resize", "reschedule", "rename", "idle"}, NEW w, NEW u \in BOOLEAN, NEW o,
             v2' = [at |-> a, want |-> w, undo |-> u, old |-> o]
      PROVE  Live!Shapes' /\ Live!OneTunnel'
  <2>1. Live!Shapes'
    BY <1>1, <1>2, <1>5, ShapesStay
  <2>2. Live!OneTunnel'
    BY <1>1, <1>3, <1>5 DEF Live!OneTunnel, Live!TunnelOf
  <2> QED
    BY <2>1, <2>2
<1>6. ASSUME NEW s \in {"reschedule", "rename"},
             v2' = [at |-> s, want |-> v2.want, undo |-> v2.undo, old |-> v2.old], v1' = v1,
             s = "rename" => ~ v2.undo /\ v10' = v2.want.interval, v9' = v2.want.workers
      PROVE  Live!SettingsInv'
  <2>1. Live!Shapes' /\ Live!OneTunnel'
    BY <1>2, <1>5, <1>6
  <2>2. Live!WantIsDone'
    BY <1>1, <1>3, <1>6 DEF Live!SettingsInv, Live!WantIsDone, Live!Applied
  <2>3. Live!SavedIsRunning'
    BY <1>6 DEF Live!SavedIsRunning
  <2> QED
    BY <1>4, <2>1, <2>2, <2>3 DEF Live!SettingsInv
<1>7. ASSUME v2' = Live!NoUpdate, v1' = v2.want, v9' = v2.want.workers, v10' = v2.want.interval
      PROVE  Live!SettingsInv'
  <2>1. v2' = [at |-> "idle", want |-> SettingsFirst, undo |-> FALSE, old |-> 0]
    BY <1>7 DEF Live!NoUpdate
  <2>2. Live!Shapes' /\ Live!OneTunnel'
    BY <1>2, <1>5, <2>1
  <2>3. Live!WantIsDone'
    BY <2>1 DEF Live!WantIsDone
  <2>4. Live!SavedIsRunning'
    BY <1>1, <1>3, <1>7 DEF Live!SavedIsRunning, Live!TunnelOf, Live!Applied
  <2> QED
    BY <1>4, <2>2, <2>3, <2>4 DEF Live!SettingsInv
<1>8. CASE Live!ApplyFails /\ UNCHANGED <<v1, v9, v10>>
  BY <1>1, <1>3, <1>8, UpdateTurns
<1>9. CASE Live!Resize
  <2>1. CASE v9' = v2.want.workers /\ Live!To("reschedule")
    BY <1>6, <1>9, <2>1, UpdateGoes DEF Live!Resize
  <2> QED
    BY <1>8, <1>9, <2>1 DEF Live!Resize
<1>10. CASE Live!Reschedule
  <2>1. v9' = v2.want.workers /\ v10' = v2.want.interval /\ v1' = v1 /\ v2.at = "reschedule"
    BY <1>10 DEF Live!Reschedule, Live!SettingsInv, Live!WantIsDone
  <2>2. CASE v2.undo
    <3>1. v2.want = v1 /\ v2' = Live!NoUpdate
      BY <1>10, <2>1, <2>2 DEF Live!Reschedule, Live!SettingsInv, Live!WantIsDone
    <3> QED
      BY <1>7, <2>1, <3>1
  <2>3. CASE ~ v2.undo
    <3>1. Live!To("rename")
      BY <1>10, <2>3 DEF Live!Reschedule
    <3> QED
      BY <1>6, <2>1, <2>3, <3>1, UpdateGoes
  <2> QED
    BY <2>2, <2>3
<1>11. CASE Live!Rename
  <2>1. v9' = v2.want.workers /\ v10' = v2.want.interval
    BY <1>11 DEF Live!Rename, Live!SettingsInv, Live!WantIsDone
  <2> QED
    BY <1>7, <1>8, <1>11, <2>1 DEF Live!Rename
<1> QED
  BY <1>9, <1>10, <1>11

\* A reader holds what it was given.
LEMMA SessionIsGiven ==
  ASSUME NEW S, NEW T, NEW q \in [at : S, chain : T, gen : Nat], NEW a, NEW g
  PROVE  [q EXCEPT !.at = a, !.gen = g] = [at |-> a, chain |-> q.chain, gen |-> g]
<1> DEFINE y == [q EXCEPT !.at = a]
<1>1. y = [at |-> a, chain |-> q.chain, gen |-> q.gen]
  OBVIOUS
<1>2. [q EXCEPT !.at = a, !.gen = g] = [y EXCEPT !.gen = g]
  OBVIOUS
<1> HIDE DEF y
<1>3. [y EXCEPT !.gen = g] = [at |-> a, chain |-> q.chain, gen |-> g]
  BY <1>1
<1> QED
  BY <1>2, <1>3

LEMMA ReadSteps ==
  ASSUME Live!SettingsInv, Live!Read
  PROVE  Live!SettingsInv'
<1>1. UNCHANGED <<v1, v2, v3, v4, v5, v9, v10, v11>>
  BY DEF Live!Read
<1>2. PICK r \in SettingsReaders : Live!Get(r) \/ Live!Acquire(r) \/ Live!Release(r)
  BY DEF Live!Read
<1> DEFINE ids == 0 .. v5.id
           Kinds == [at : {"idle", "has pipeline", "has session"}, chain : ids, gen : Nat]
<1>3. /\ v3.gen \in Nat /\ v7 \subseteq [chain : ids, gen : Nat]
      /\ v8 \in [SettingsReaders -> Kinds]
  BY DEF Live!SettingsInv, Live!Shapes
<1>0. v5.id \in ids /\ 0 \in ids
  <2> DEFINE k == v5.id
  <2>1. k \in Nat
    BY DEF Live!SettingsInv, Live!Shapes
  <2> HIDE DEF k
  <2>2. k \in 0 .. k /\ 0 \in 0 .. k
    BY <2>1
  <2> QED
    BY <2>2 DEF k
<1> HIDE DEF ids
<1>4. \E n \in Kinds :
        /\ v8' = [v8 EXCEPT ![r] = n]
        /\ n.at = "has session" => \/ n.gen = v3.gen
                                   \/ \E s \in v7 : n.gen = s.gen /\ n.chain = s.chain
  <2>1. CASE Live!Get(r)
    <3>1. [at |-> "has pipeline", chain |-> v5.id, gen |-> 0] \in Kinds
      BY <1>0
    <3> QED
      BY <2>1, <3>1 DEF Live!Get
  <2>2. Live!NoReader \in Kinds /\ Live!NoReader.at = "idle"
    BY <1>0 DEF Live!NoReader
  <2>3. CASE Live!Acquire(r) /\ v8' # [v8 EXCEPT ![r] = Live!NoReader]
    <3>1. PICK g : /\ v8' = [v8 EXCEPT ![r].at = "has session", ![r].gen = g]
                   /\ g = v3.gen \/ \E s \in v7 : s.chain = v8[r].chain /\ g = s.gen
      BY <2>3 DEF Live!Acquire
    <3> DEFINE q == v8[r]
               n == [q EXCEPT !.at = "has session", !.gen = g]
    <3>2. q \in Kinds /\ g \in Nat
      BY <1>3, <3>1
    <3>3. v8' = [v8 EXCEPT ![r] = n]
      BY <1>3, <3>1
    <3> HIDE DEF q
    <3>5. n = [at |-> "has session", chain |-> q.chain, gen |-> g]
      BY <3>2, SessionIsGiven
    <3> HIDE DEF n
    <3>6. n \in Kinds /\ n.gen = g /\ n.chain = q.chain
      BY <3>2, <3>5
    <3> QED
      BY <3>1, <3>3, <3>6 DEF q
  <2>4. CASE v8' = [v8 EXCEPT ![r] = Live!NoReader]
    BY <2>2, <2>4
  <2> QED
    BY <1>2, <2>1, <2>3, <2>4 DEF Live!Release
<1>5. PICK n \in Kinds :
        /\ v8' = [v8 EXCEPT ![r] = n]
        /\ n.at = "has session" => \/ n.gen = v3.gen
                                   \/ \E s \in v7 : n.gen = s.gen /\ n.chain = s.chain
  BY <1>4
<1>6. \A s \in v7' : s \in v7 \/ (v8[r].at = "has session" /\ s = [chain |-> v8[r].chain, gen |-> v8[r].gen])
  BY <1>2 DEF Live!Get, Live!Acquire, Live!Release
<1>7. v8' \in [SettingsReaders -> Kinds] /\ v8'[r] = n /\ \A q \in SettingsReaders \ {r} : v8'[q] = v8[q]
  BY <1>3, <1>5
<1>8. v7' \subseteq [chain : ids, gen : Nat]
  <2>1. v8[r] \in Kinds
    BY <1>3
  <2>2. [chain |-> v8[r].chain, gen |-> v8[r].gen] \in [chain : ids, gen : Nat]
    BY <2>1
  <2> HIDE DEF Kinds
  <2> QED
    BY <1>3, <1>6, <2>2
<1>9. Live!Shapes'
  <2>1. v2 = [at |-> v2.at, want |-> v2.want, undo |-> v2.undo, old |-> v2.old]
    BY DEF Live!SettingsInv, Live!Shapes
  <2> QED
    BY <1>1, <1>7, <1>8, <2>1 DEF Live!SettingsInv, Live!Shapes, ids
<1>10. Live!OverTheRoute'
  <2> SUFFICES ASSUME v5.route = v3.cfg
               PROVE  /\ \A s \in v7' : s.chain = v5.id => s.gen = v3.gen
                      /\ \A q \in SettingsReaders : v8'[q].at = "has session" /\ v8'[q].chain = v5.id => v8'[q].gen = v3.gen
    BY <1>1 DEF Live!OverTheRoute
  <2>1. /\ \A s \in v7 : s.chain = v5.id => s.gen = v3.gen
        /\ \A q \in SettingsReaders : v8[q].at = "has session" /\ v8[q].chain = v5.id => v8[q].gen = v3.gen
    BY DEF Live!SettingsInv, Live!OverTheRoute
  <2> HIDE DEF Kinds
  <2>2. ASSUME NEW s \in v7', s.chain = v5.id
        PROVE  s.gen = v3.gen
    <3>1. CASE s \in v7
      BY <2>1, <2>2, <3>1
    <3>2. CASE v8[r].at = "has session" /\ s = [chain |-> v8[r].chain, gen |-> v8[r].gen]
      <4>1. s.chain = v8[r].chain /\ s.gen = v8[r].gen
        BY <3>2
      <4> QED
        BY <2>1, <2>2, <3>2, <4>1
    <3> QED
      BY <1>6, <3>1, <3>2
  <2>3. ASSUME NEW q \in SettingsReaders, v8'[q].at = "has session", v8'[q].chain = v5.id
        PROVE  v8'[q].gen = v3.gen
    BY <1>5, <1>7, <2>1, <2>3
  <2> QED
    BY <2>2, <2>3
<1>11. Live!WantIsDone' /\ Live!OneTunnel' /\ Live!SavedIsRunning'
  BY <1>1 DEF Live!SettingsInv, Live!WantIsDone, Live!OneTunnel, Live!TunnelOf, Live!SavedIsRunning
<1> QED
  BY <1>9, <1>10, <1>11 DEF Live!SettingsInv

\* The program starts again on what is saved.
LEMMA RestartSteps ==
  ASSUME Live!SettingsInv, Live!Restart
  PROVE  Live!SettingsInv'
<1>1. PICK up \in BOOLEAN : Live!Start(v1, up)
  BY DEF Live!Restart
<1>2. v1' = v1
  BY DEF Live!Restart
<1> DEFINE cfg == IF up THEN v1.route ELSE Live!NoRoute
<1>3. /\ v3' = [cfg |-> cfg, gen |-> 0] /\ v7' = {} /\ v8' = [r \in SettingsReaders |-> Live!NoReader]
      /\ v5' = [id |-> 0, usenet |-> Live!Applied(v1), route |-> cfg]
      /\ v4' = IF up /\ v1.route \in SettingsTunnelled THEN {0} ELSE {}
      /\ v9' = v1.workers /\ v10' = v1.interval /\ v11' = up
      /\ v2' = [at |-> "idle", want |-> SettingsFirst, undo |-> FALSE, old |-> 0]
  BY <1>1 DEF Live!Start, Live!NoUpdate
<1>4. v3'.cfg = cfg /\ v3'.gen = 0 /\ v5'.id = 0 /\ v5'.usenet = Live!Applied(v1) /\ v5'.route = cfg
  BY <1>3
<1>5. Live!NoReader \in [at : {"idle", "has pipeline", "has session"}, chain : 0 .. 0, gen : Nat] /\ Live!NoReader.at = "idle"
  BY DEF Live!NoReader
<1>6. Live!Shapes'
  BY <1>3, <1>4, <1>5 DEF Live!Shapes
<1>7. Live!WantIsDone'
  BY <1>3 DEF Live!WantIsDone
<1>8. v4' = Live!TunnelOf(v3)'
  BY <1>3, <1>4, SettingsAssumption DEF Live!TunnelOf
<1>9. Live!OneTunnel'
  BY <1>3, <1>4, <1>8 DEF Live!OneTunnel
<1>10. Live!OverTheRoute'
  BY <1>3, <1>5 DEF Live!OverTheRoute
<1>11. Live!SavedIsRunning'
  BY <1>2, <1>3, <1>4 DEF Live!SavedIsRunning
<1> QED
  BY <1>6, <1>7, <1>9, <1>10, <1>11 DEF Live!SettingsInv

LEMMA SettingsSteps ==
  ASSUME Live!SettingsInv, Live!Next
  PROVE  Live!SettingsInv'
<1>1. CASE Live!UpdateSettings
  BY <1>1, UpdateTurns DEF Live!UpdateSettings
<1> QED
  BY <1>1, RouteSteps, PipelineSteps, LastSteps, ReadSteps, RestartSteps DEF Live!Next

-----------------------------------------------------------------------------
(* The files of the cache.                                                   *)

\* Nothing is on the disk and nobody uses it.
LEMMA DiskBegins ==
  ASSUME Disk!Init
  PROVE  Disk!DiskInv
BY FS_EmptySet DEF Disk!Init, Disk!DiskInv, Disk!Uses, Disk!Unused, Disk!IsFiniteSet, IsFiniteSet

\* Taking a file out of the index leaves the others in it.
LEMMA WithoutKeeps ==
  ASSUME v2 \in Seq(Disk!Files), NEW f \in Disk!Files
  PROVE  /\ Disk!Without(f) \in Seq(Disk!Files)
         /\ \A g \in Disk!Range(v2) : g # f => g \in Disk!Range(Disk!Without(f))
<1> DEFINE I == {i \in 1 .. Len(v2) : v2[i] = f}  i == Disk!Min(I)
<1>1. CASE I = {}
  <2>1. Disk!Without(f) = v2
    BY <1>1 DEF Disk!Without, Disk!RemoveFirst
  <2> QED
    BY <2>1
<1>2. CASE I # {}
  <2>1. i \in I
    <3>1. \E n \in I : \A m \in I : n <= m
      <4>1. I \in SUBSET Nat
        OBVIOUS
      <4> QED
        BY <4>1, <1>2, LeastNumber
    <3> QED
      BY <3>1 DEF Disk!Min
  <2>4. Disk!Without(f) = Disk!RemoveAt(v2, i)
    BY <1>2 DEF Disk!Without, Disk!RemoveFirst, Disk!SelectInSeq, Disk!SelectInSubSeq
  <2> DEFINE a == SubSeq(v2, 1, i - 1)  b == SubSeq(v2, i + 1, Len(v2))
  <2>2. Disk!Without(f) = a \o b
    BY <2>4 DEF Disk!RemoveAt
  <2>9. i \in 1 .. Len(v2) /\ v2[i] = f /\ Len(v2) \in Nat
    BY <2>1
  <2> HIDE DEF i
  <2>3. /\ a \in Seq(Disk!Files) /\ Len(a) = i - 1 /\ \A j \in 1 .. i - 1 : a[j] = v2[j]
        /\ b \in Seq(Disk!Files) /\ Len(b) = Len(v2) - i /\ \A j \in 1 .. Len(v2) - i : b[j] = v2[i + j]
    BY <2>9
  <2> HIDE DEF a, b, I
  <2> DEFINE c == a \o b
  <2>5. /\ c \in Seq(Disk!Files)
        /\ Len(c) = Len(v2) - 1
        /\ \A k \in 1 .. i - 1 : c[k] = a[k]
        /\ \A k \in i .. Len(v2) - 1 : c[k] = b[k - (i - 1)]
    <3>1. c \in Seq(Disk!Files)
      BY <2>3
    <3>2. Len(c) = Len(a) + Len(b)
      BY <2>3
    <3>3. \A k \in 1 .. Len(a) : c[k] = a[k]
      BY <2>3
    <3>4. \A k \in Len(a) + 1 .. Len(a) + Len(b) : c[k] = b[k - Len(a)]
      BY <2>3
    <3> QED
      BY <3>1, <3>2, <3>3, <3>4, <2>3, <2>9
  <2> HIDE DEF c
  <2>6. ASSUME NEW j \in 1 .. Len(v2), v2[j] # f
        PROVE  \E k \in 1 .. Len(c) : c[k] = v2[j]
    <3>1. CASE j < i
      <4>1. j \in 1 .. Len(c) /\ j \in 1 .. i - 1
        BY <3>1, <2>9, <2>5
      <4> QED
        BY <4>1, <2>3, <2>5
    <3>2. CASE j > i
      <4>1. j - 1 \in 1 .. Len(c) /\ j - 1 \in i .. Len(v2) - 1 /\ j - i \in 1 .. Len(v2) - i
        BY <3>2, <2>9, <2>5
      <4>2. c[j - 1] = b[j - i]
        BY <4>1, <2>5, <2>9
      <4>3. b[j - i] = v2[j]
        BY <4>1, <2>3, <2>9
      <4> QED
        BY <4>1, <4>2, <4>3
    <3> QED
      BY <3>1, <3>2, <2>9, <2>6
  <2>7. Disk!Without(f) = c /\ c \in Seq(Disk!Files)
    BY <2>2, <2>5 DEF c
  <2>8. /\ Disk!Range(v2) = {v2[j] : j \in 1 .. Len(v2)}
        /\ Disk!Range(c) = {c[j] : j \in 1 .. Len(c)}
    BY <2>7 DEF Disk!Range
  <2> QED
    BY <2>6, <2>7, <2>8
<1> QED
  BY <1>1, <1>2

\* A listing of the directory has every file of it.
LEMMA SeedIsWhole ==
  ASSUME IsFiniteSet(v1), v1 \subseteq Disk!Files, NEW s \in Disk!SetToSeqs(v1)
  PROVE  s \in Seq(Disk!Files) /\ Disk!Range(s) = v1
<1> DEFINE n == Cardinality(v1)
<1>1. Disk!Cardinality(v1) = n
  BY DEF Disk!Cardinality, Cardinality
<1>2. n \in Nat
  BY FS_CardinalityType
<1>3. s \in [1 .. n -> v1] /\ \A i, j \in 1 .. n : i # j => s[i] # s[j]
  BY <1>1 DEF Disk!SetToSeqs
<1>4. s \in Injection(1 .. n, v1)
  BY <1>3 DEF Injection, IsInjective
<1>5. IsFiniteSet(1 .. n) /\ Cardinality(1 .. n) = n
  BY <1>2, FS_Interval
<1>6. s \in Surjection(1 .. n, v1)
  BY <1>4, <1>5, FS_Injection
<1>7. \A f \in v1 : \E i \in 1 .. n : s[i] = f
  BY <1>6 DEF Surjection
<1> HIDE DEF n
<1>8. s \in Seq(Disk!Files)
  BY <1>2, <1>3
<1> QED
  BY <1>3, <1>7, <1>8 DEF Disk!Range

\* Whatever a goroutine does next, the others hold what they held.
LEMMA UserGoes ==
  ASSUME Disk!DiskInv, NEW w \in DiskWorkers, NEW u \in Disk!Uses, v4' = [v4 EXCEPT ![w] = u]
  PROVE  /\ v4' \in [DiskWorkers -> Disk!Uses]
         /\ \A f : Disk!Holds(u, f) => \E x \in DiskWorkers : Disk!Holds(v4'[x], f)
         /\ \A f : (\E x \in DiskWorkers : Disk!Holds(v4[x], f)) =>
                     Disk!Holds(v4[w], f) \/ \E x \in DiskWorkers : Disk!Holds(v4'[x], f)
<1>1. v4 \in [DiskWorkers -> Disk!Uses] /\ v4'[w] = u /\ \A x \in DiskWorkers \ {w} : v4'[x] = v4[x]
  BY DEF Disk!DiskInv
<1> QED
  BY <1>1

\* No file stays outside the index without a goroutine that accounts for it.
LEMMA DiskSteps ==
  ASSUME Disk!DiskInv, Disk!Next
  PROVE  Disk!DiskInv'
<1>0. /\ v1 \subseteq Disk!Files /\ IsFiniteSet(v1)
      /\ v2 \in Seq(Disk!Files) /\ v4 \in [DiskWorkers -> Disk!Uses]
      /\ v3 => \A f \in v1 \ Disk!Range(v2) : \E w \in DiskWorkers : Disk!Holds(v4[w], f)
  BY DEF Disk!DiskInv, Disk!Indexed, Disk!IsFiniteSet, IsFiniteSet
<1>i. \A S : Disk!IsFiniteSet(S) <=> IsFiniteSet(S)
  BY DEF Disk!IsFiniteSet, IsFiniteSet
<1>1. CASE Disk!EnsureSeeded
  <2>1. v2' \in Seq(Disk!Files) /\ Disk!Range(v2') = v1
    BY <1>1, <1>0, SeedIsWhole DEF Disk!EnsureSeeded
  <2> QED
    BY <2>1, <1>0, <1>1, <1>i DEF Disk!EnsureSeeded, Disk!DiskInv, Disk!Indexed
<1>2. CASE Disk!Restart
  BY <1>2, <1>0, <1>i DEF Disk!Restart, Disk!DiskInv, Disk!Uses
<1>w. ASSUME NEW w \in DiskWorkers, NEW u \in Disk!Uses, v4' = [v4 EXCEPT ![w] = u],
             v1' \subseteq Disk!Files, IsFiniteSet(v1'), v2' \in Seq(Disk!Files), v3' = v3,
             \A f \in v1' \ Disk!Range(v2') : f \in v1 \ Disk!Range(v2) \/ Disk!Holds(u, f),
             \A f \in v1' \ Disk!Range(v2') : Disk!Holds(v4[w], f) => Disk!Holds(u, f)
      PROVE  Disk!DiskInv'
  <2> QED
    BY <1>0, <1>i, <1>w, UserGoes DEF Disk!DiskInv, Disk!Indexed
<1>r. \A s \in Seq(Disk!Files), f \in Disk!Files : f \in Disk!Range(s) <=> \E i \in 1 .. Len(s) : s[i] = f
  BY DEF Disk!Range
<1>n. \A s \in Seq(Disk!Files) : \A f : f \in Disk!Range(s) => f \in Disk!Files
  BY DEF Disk!Range
<1>b. \A k \in DiskKeys : Disk!Bin(k) \in Disk!Files /\ Disk!Tmp(k) \in Disk!Files
  BY DEF Disk!Bin, Disk!Tmp, Disk!Files
<1>m. ASSUME NEW f \in Disk!Files
      PROVE  /\ Disk!MovedToBack(f) \in Seq(Disk!Files)
             /\ \A g \in Disk!Range(v2) : g \in Disk!Range(Disk!MovedToBack(f))
             /\ f \in Disk!Range(Disk!MovedToBack(f))
  <2> DEFINE s == Disk!Without(f)
  <2>1. s \in Seq(Disk!Files) /\ \A g \in Disk!Range(v2) : g # f => g \in Disk!Range(s)
    BY <1>0, WithoutKeeps
  <2> HIDE DEF s
  <2> DEFINE t == Append(s, f)
  <2>2. /\ t \in Seq(Disk!Files) /\ Len(s) \in Nat /\ Len(t) = Len(s) + 1 /\ t[Len(s) + 1] = f
        /\ \A i \in 1 .. Len(s) : t[i] = s[i]
    BY <2>1
  <2> HIDE DEF t
  <2>3. f \in Disk!Range(t)
    BY <2>2, <1>r
  <2>4. ASSUME NEW g \in Disk!Range(s) PROVE g \in Disk!Range(t)
    <3>1. PICK i \in 1 .. Len(s) : s[i] = g
      BY <2>1, <1>r, <1>n
    <3>2. i \in 1 .. Len(t) /\ t[i] = g
      BY <3>1, <2>2
    <3> QED
      BY <3>2, <2>1, <2>2, <1>r, <1>n
  <2>5. Disk!MovedToBack(f) = t
    BY DEF s, t, Disk!MovedToBack
  <2> QED
    BY <2>1, <2>2, <2>3, <2>4, <2>5, <1>n
<1>u. ASSUME NEW w \in DiskWorkers, NEW pc, Disk!Goes(w, pc)
      PROVE  v4' = [v4 EXCEPT ![w] = [v4[w] EXCEPT !.pc = pc]]
  BY <1>0, <1>u DEF Disk!Goes
<1>3. ASSUME NEW w \in DiskWorkers, NEW k \in DiskKeys, Disk!Get(w, k) PROVE Disk!DiskInv'
  <2> DEFINE u == [pc |-> "touch", op |-> "get", key |-> k]
  <2>1. u \in Disk!Uses /\ v4' = [v4 EXCEPT ![w] = u] /\ \A f : ~ Disk!Holds(v4[w], f)
    BY <1>3 DEF Disk!Get, Disk!Uses, Disk!Holds
  <2>2. v1' = v1 /\ v2' = v2 /\ v3' = v3
    BY <1>3 DEF Disk!Get
  <2> HIDE DEF u
  <2> QED
    BY <2>1, <2>2, <1>0, <1>w
<1>4. ASSUME NEW w \in DiskWorkers, NEW k \in DiskKeys, Disk!PutWrite(w, k) PROVE Disk!DiskInv'
  <2> DEFINE u == [pc |-> "rename", op |-> "put", key |-> k]
  <2>1. u \in Disk!Uses /\ v4' = [v4 EXCEPT ![w] = u] /\ (\A f : ~ Disk!Holds(v4[w], f)) /\ Disk!Holds(u, Disk!Tmp(k))
    BY <1>4 DEF Disk!PutWrite, Disk!Uses, Disk!Holds
  <2>2. IsFiniteSet(v1 \cup {Disk!Tmp(k)})
    BY <1>0, FS_AddElement
  <2>3. v1' = v1 \cup {Disk!Tmp(k)} /\ v2' = v2 /\ v3' = v3
    BY <1>4 DEF Disk!PutWrite
  <2> HIDE DEF u
  <2>4. \A f \in v1' \ Disk!Range(v2') : f \in v1 \ Disk!Range(v2) \/ Disk!Holds(u, f)
    BY <2>1, <2>3
  <2>5. v1' \subseteq Disk!Files
    BY <2>3, <1>0, <1>b
  <2> QED
    BY <2>1, <2>2, <2>3, <2>4, <2>5, <1>0, <1>w
<1>5. ASSUME NEW w \in DiskWorkers, NEW k \in DiskKeys, Disk!RemoveIndex(w, k) PROVE Disk!DiskInv'
  <2> DEFINE u == [pc |-> "remove", op |-> "remove", key |-> k]
  <2>1. u \in Disk!Uses /\ v4' = [v4 EXCEPT ![w] = u] /\ (\A f : ~ Disk!Holds(v4[w], f)) /\ Disk!Holds(u, Disk!Bin(k))
    BY <1>5 DEF Disk!RemoveIndex, Disk!Uses, Disk!Holds
  <2>2. /\ v2' = Disk!Without(Disk!Bin(k)) /\ v1' = v1 /\ v3' = v3
    BY <1>5 DEF Disk!RemoveIndex
  <2>3. v2' \in Seq(Disk!Files) /\ \A g \in Disk!Range(v2) : g # Disk!Bin(k) => g \in Disk!Range(v2')
    BY <2>2, <1>0, <1>b, WithoutKeeps
  <2> HIDE DEF u
  <2>4. \A f \in v1' \ Disk!Range(v2') : f \in v1 \ Disk!Range(v2) \/ Disk!Holds(u, f)
    BY <2>1, <2>2, <2>3
  <2> QED
    BY <2>1, <2>2, <2>3, <2>4, <1>0, <1>w
<1>6. ASSUME NEW w \in DiskWorkers, Disk!Touch(w) PROVE Disk!DiskInv'
  <2>1. Disk!Unused \in Disk!Uses /\ v4' = [v4 EXCEPT ![w] = Disk!Unused] /\ (\A f : ~ Disk!Holds(v4[w], f)) /\ v1' = v1 /\ v3' = v3
    BY <1>6 DEF Disk!Touch, Disk!Done, Disk!Uses, Disk!Holds
  <2>2. v4[w].key \in DiskKeys
    BY <1>0, <1>6 DEF Disk!Touch, Disk!Uses, Disk!Unused
  <2>3. v2' = v2 \/ v2' = Disk!MovedToBack(Disk!Bin(v4[w].key))
    BY <1>6 DEF Disk!Touch
  <2>4. v2' \in Seq(Disk!Files) /\ \A g \in Disk!Range(v2) : g \in Disk!Range(v2')
    BY <2>2, <2>3, <1>b, <1>m, <1>0
  <2> QED
    BY <2>1, <2>4, <1>0, <1>w
<1>7. ASSUME NEW w \in DiskWorkers, Disk!PutRename(w) PROVE Disk!DiskInv'
  <2>1. PICK k \in DiskKeys : v4[w] = [pc |-> "rename", op |-> "put", key |-> k]
    BY <1>0, <1>7 DEF Disk!PutRename, Disk!Uses, Disk!Unused
  <2>2. \A f : Disk!Holds(v4[w], f) <=> f = Disk!Tmp(k)
    BY <2>1 DEF Disk!Holds
  <2>3. v2' = v2 /\ v3' = v3
    BY <1>7 DEF Disk!PutRename
  <2>4. CASE Disk!Tmp(k) \in v1
    <3> DEFINE u == [pc |-> "index", op |-> "put", key |-> k]
    <3>1. u \in Disk!Uses /\ v4' = [v4 EXCEPT ![w] = u] /\ Disk!Holds(u, Disk!Bin(k))
      BY <2>1, <2>4, <1>7, <1>u DEF Disk!PutRename, Disk!Uses, Disk!Holds
    <3>2. v1' = (v1 \ {Disk!Tmp(k)}) \cup {Disk!Bin(k)}
      BY <2>1, <2>4, <1>7 DEF Disk!PutRename
    <3>3. IsFiniteSet(v1')
      BY <3>2, <1>0, FS_AddElement, FS_RemoveElement
    <3>4. Disk!Tmp(k) # Disk!Bin(k)
      BY DEF Disk!Tmp, Disk!Bin
    <3> HIDE DEF u
    <3>5. \A f \in v1' \ Disk!Range(v2') : f \in v1 \ Disk!Range(v2) \/ Disk!Holds(u, f)
      BY <3>1, <3>2, <2>3
    <3>6. \A f \in v1' \ Disk!Range(v2') : Disk!Holds(v4[w], f) => Disk!Holds(u, f)
      BY <3>2, <3>4, <2>2
    <3>7. v1' \subseteq Disk!Files
      BY <3>2, <1>0, <1>b
    <3> QED
      BY <3>1, <3>3, <3>5, <3>6, <3>7, <2>3, <1>0, <1>w
  <2>5. CASE Disk!Tmp(k) \notin v1
    <3>1. Disk!Unused \in Disk!Uses /\ v4' = [v4 EXCEPT ![w] = Disk!Unused] /\ v1' = v1
      BY <2>1, <2>5, <1>7 DEF Disk!PutRename, Disk!Done, Disk!Uses
    <3>2. \A f \in v1' \ Disk!Range(v2') : ~ Disk!Holds(v4[w], f)
      BY <3>1, <2>2, <2>5
    <3> QED
      BY <3>1, <3>2, <2>3, <1>0, <1>w
  <2> QED
    BY <2>4, <2>5
<1>8. ASSUME NEW w \in DiskWorkers, Disk!PutIndex(w) PROVE Disk!DiskInv'
  <2>1. PICK k \in DiskKeys : v4[w] = [pc |-> "index", op |-> "put", key |-> k]
    BY <1>0, <1>8 DEF Disk!PutIndex, Disk!Uses, Disk!Unused
  <2> DEFINE u == [pc |-> "trim", op |-> "put", key |-> k]
  <2>2. /\ \A f : Disk!Holds(v4[w], f) <=> f = Disk!Bin(k)
        /\ u \in Disk!Uses /\ v4' = [v4 EXCEPT ![w] = u]
    BY <2>1, <1>8, <1>u DEF Disk!PutIndex, Disk!Uses, Disk!Holds
  <2>3. v1' = v1 /\ v3' = v3 /\ v2' = Disk!MovedToBack(Disk!Bin(k))
    BY <2>1, <1>8 DEF Disk!PutIndex
  <2> QED
    BY <2>2, <2>3, <1>0, <1>b, <1>m, <1>w
<1>9. ASSUME NEW w \in DiskWorkers, Disk!TrimPick(w) PROVE Disk!DiskInv'
  <2>1. PICK k \in DiskKeys : v4[w] = [pc |-> "trim", op |-> "put", key |-> k]
    BY <1>0, <1>9 DEF Disk!TrimPick, Disk!Uses, Disk!Unused
  <2>2. v1' = v1 /\ v3' = v3 /\ \A f : ~ Disk!Holds(v4[w], f)
    BY <2>1, <1>9 DEF Disk!TrimPick, Disk!Holds
  <2>3. CASE v2' = v2 /\ v4' = [v4 EXCEPT ![w] = Disk!Unused]
    BY <2>2, <2>3, <1>0, <1>w DEF Disk!Uses
  <2>4. CASE v2 # <<>> /\ v2' = Tail(v2) /\ v4' = [v4 EXCEPT ![w] = [pc |-> "evict", op |-> "put", key |-> @.key, victim |-> Head(v2)]]
    <3> DEFINE u == [pc |-> "evict", op |-> "put", key |-> k, victim |-> Head(v2)]
    <3>1. /\ Tail(v2) \in Seq(Disk!Files) /\ Head(v2) \in Disk!Files
          /\ \A g \in Disk!Range(v2) : g # Head(v2) => g \in Disk!Range(Tail(v2))
      <4>1. /\ Len(v2) \in Nat \ {0} /\ Tail(v2) \in Seq(Disk!Files) /\ Len(Tail(v2)) = Len(v2) - 1
            /\ Head(v2) = v2[1] /\ \A i \in 1 .. Len(v2) - 1 : Tail(v2)[i] = v2[i + 1]
        BY <2>4, <1>0
      <4>2. ASSUME NEW i \in 1 .. Len(v2), v2[i] # Head(v2)
            PROVE  i - 1 \in 1 .. Len(Tail(v2)) /\ Tail(v2)[i - 1] = v2[i]
        <5>1. i # 1
          BY <4>1, <4>2
        <5>2. i - 1 \in 1 .. Len(v2) - 1
          BY <5>1, <4>1
        <5> QED
          BY <5>2, <4>1
      <4>3. ASSUME NEW g \in Disk!Range(v2), g # Head(v2) PROVE g \in Disk!Range(Tail(v2))
        <5>1. g \in Disk!Files
          BY <1>0, <1>n
        <5>2. PICK i \in 1 .. Len(v2) : v2[i] = g
          BY <5>1, <1>0, <1>r
        <5>3. i - 1 \in 1 .. Len(Tail(v2)) /\ Tail(v2)[i - 1] = g
          BY <5>2, <4>2, <4>3
        <5> QED
          BY <5>1, <5>3, <4>1, <1>r
      <4>4. Head(v2) \in Disk!Files
        BY <4>1, <1>0
      <4> QED
        BY <4>1, <4>3, <4>4
    <3>2. u \in Disk!Uses /\ v4' = [v4 EXCEPT ![w] = u] /\ Disk!Holds(u, Head(v2))
      BY <3>1, <2>1, <2>4 DEF Disk!Uses, Disk!Holds
    <3> HIDE DEF u
    <3>3. \A f \in v1' \ Disk!Range(v2') : f \in v1 \ Disk!Range(v2) \/ Disk!Holds(u, f)
      BY <3>1, <3>2, <2>2, <2>4
    <3> QED
      BY <3>1, <3>2, <3>3, <2>2, <2>4, <1>0, <1>w
  <2> QED
    BY <2>3, <2>4, <1>9 DEF Disk!TrimPick, Disk!Done
<1>10. ASSUME NEW w \in DiskWorkers, Disk!TrimRemove(w) PROVE Disk!DiskInv'
  <2>1. PICK k \in DiskKeys, f \in Disk!Files : v4[w] = [pc |-> "evict", op |-> "put", key |-> k, victim |-> f]
    BY <1>0, <1>10 DEF Disk!TrimRemove, Disk!Uses, Disk!Unused
  <2> DEFINE u == [pc |-> "trim", op |-> "put", key |-> k]
  <2>2. /\ \A g : Disk!Holds(v4[w], g) <=> g = f
        /\ u \in Disk!Uses /\ v4' = [v4 EXCEPT ![w] = u] /\ v1' = v1 \ {f} /\ v2' = v2 /\ v3' = v3
    BY <2>1, <1>10 DEF Disk!TrimRemove, Disk!Uses, Disk!Holds
  <2>3. IsFiniteSet(v1')
    BY <2>2, <1>0, FS_RemoveElement
  <2> QED
    BY <2>2, <2>3, <1>0, <1>w
<1>11. ASSUME NEW w \in DiskWorkers, Disk!RemoveFile(w) PROVE Disk!DiskInv'
  <2>1. PICK k \in DiskKeys : v4[w] = [pc |-> "remove", op |-> "remove", key |-> k]
    BY <1>0, <1>11 DEF Disk!RemoveFile, Disk!Uses, Disk!Unused
  <2>2. /\ \A f : Disk!Holds(v4[w], f) <=> f = Disk!Bin(k)
        /\ Disk!Unused \in Disk!Uses /\ v4' = [v4 EXCEPT ![w] = Disk!Unused]
        /\ v1' = v1 \ {Disk!Bin(k)} /\ v2' = v2 /\ v3' = v3
    BY <2>1, <1>11 DEF Disk!RemoveFile, Disk!Done, Disk!Uses, Disk!Holds
  <2>3. IsFiniteSet(v1')
    BY <2>2, <1>0, FS_RemoveElement
  <2> QED
    BY <2>2, <2>3, <1>0, <1>w
<1> QED
  BY <1>1, <1>2, <1>3, <1>4, <1>5, <1>6, <1>7, <1>8, <1>9, <1>10, <1>11 DEF Disk!Next

-----------------------------------------------------------------------------
(* The links of the library.                                                 *)

\* The state of a sweep, field by field.
SweepOf(pc, records, todo, paths, drop, start, whole, due, strays) ==
  [pc |-> pc, records |-> records, todo |-> todo, paths |-> paths, drop |-> drop, start |-> start,
   whole |-> whole, due |-> due, strays |-> strays]


\* Nothing is published and no maintenance runs.
LEMMA LinksBegin ==
  ASSUME Library!Init
  PROVE  Library!LinksInv
<1> USE DEF Library!Init, Library!Unknown, Library!Quiet, Library!Nothing, Library!NoSweep
<1>1. Library!Published
  BY LinksAssumption DEF Library!Published, Library!Releases
<1>2. Library!Recorded
  BY DEF Library!Recorded, Library!Releases
<1>3. Library!SweepType
  BY DEF Library!SweepType
<1>4. Library!DueIsAhead /\ Library!StraysAreAhead
  BY DEF Library!DueIsAhead, Library!StraysAreAhead
<1> QED
  BY <1>1, <1>2, <1>3, <1>4 DEF Library!LinksInv

\* A deletion takes no path from a release and brings no row.
LEMMA DeleteKeeps ==
  ASSUME Library!Published, NEW rs, Library!Delete(rs)
  PROVE  /\ v2' \in [Library!Releases -> [live : BOOLEAN, path : LinkPaths \cup {"none"}]]
         /\ \A r \in Library!Releases : v2'[r].path = v2[r].path /\ (v2'[r].live => v2[r].live)
         /\ v5' \subseteq v5
<1>1. \A r \in Library!Releases : v2[r] \in [live : BOOLEAN, path : LinkPaths \cup {"none"}]
  BY DEF Library!Published
<1>2. \A r \in Library!Releases : \A b :
        [v2[r] EXCEPT !.live = b] = [live |-> b, path |-> v2[r].path]
  BY <1>1
<1>3. \A r \in Library!Releases : [v2[r] EXCEPT !.live = FALSE] = [live |-> FALSE, path |-> v2[r].path]
  BY <1>2, Zenon
<1>4. v2' = [r \in Library!Releases |-> IF r \in rs THEN [live |-> FALSE, path |-> v2[r].path] ELSE v2[r]]
  BY <1>3 DEF Library!Delete
<1>5. v5' \subseteq v5
  BY DEF Library!Delete
<1> QED
  BY <1>1, <1>4, <1>5

\* One publication moves, or none, and no release loses its path.
LEMMA SlotMoves ==
  ASSUME Library!Published, NEW p, NEW x,
         \A r \in Library!Releases : v2'[r].path \in {v2[r].path} \cup LinkPaths,
         \/ v8' = v8
         \/ /\ p \in LinkSlots /\ v8' = [v8 EXCEPT ![p] = x]
            /\ x \in [pc : {"idle", "link", "row", "mark"}, at : {0} \cup Library!Releases,
                      by : {"nobody", "worker", "repair", "start"}]
            /\ x.pc # "idle" => x.at # 0 /\ v2[x.at].path \in LinkPaths
  PROVE  /\ v8' \in [LinkSlots -> [pc : {"idle", "link", "row", "mark"}, at : {0} \cup Library!Releases,
                                  by : {"nobody", "worker", "repair", "start"}]]
         /\ \A q \in LinkSlots : v8'[q].pc # "idle" => v8'[q].at # 0 /\ v2'[v8'[q].at].path \in LinkPaths
<1>1. /\ v8 \in [LinkSlots -> [pc : {"idle", "link", "row", "mark"}, at : {0} \cup Library!Releases,
                              by : {"nobody", "worker", "repair", "start"}]]
      /\ \A q \in LinkSlots : v8[q].pc # "idle" => v8[q].at # 0 /\ v2[v8[q].at].path \in LinkPaths
  BY DEF Library!Published, Library!At, Library!PathOf
<1>2. CASE v8' = v8
  BY <1>1, <1>2
<1>3. CASE v8' # v8
  <2>1. v8'[p] = x /\ \A q \in LinkSlots \ {p} : v8'[q] = v8[q]
    BY <1>1, <1>3
  <2>2. ASSUME NEW q \in LinkSlots, v8'[q].pc # "idle"
        PROVE  v8'[q].at # 0 /\ v8'[q].at \in {0} \cup Library!Releases /\ v2[v8'[q].at].path \in LinkPaths
    BY <1>1, <2>1, <2>2
  <2>3. v8' \in [LinkSlots -> [pc : {"idle", "link", "row", "mark"}, at : {0} \cup Library!Releases,
                              by : {"nobody", "worker", "repair", "start"}]]
    BY <1>1, <1>3
  <2> QED
    BY <2>2, <2>3
<1> QED
  BY <1>2, <1>3

\* What leaves the releases and the publications alone.
LEMMA PublishedStays ==
  ASSUME Library!Published, UNCHANGED <<v2, v3, v4, v8>>, v1' \in Int
  PROVE  Library!Published'
BY DEF Library!Published, Library!At, Library!PathOf

\* What changes a publication, if anything, and takes no path from a release.
LEMMA PublishedGoes ==
  ASSUME Library!Published, NEW p, NEW x, v1' = v1, v3' \in Nat,
         v2' \in [Library!Releases -> [live : BOOLEAN, path : LinkPaths \cup {"none"}]],
         \A r \in Library!Releases : v2'[r].live => v2'[r].path \in LinkPaths,
         v4' \in [selected : {0} \cup Library!Releases, available : BOOLEAN],
         \A r \in Library!Releases : v2'[r].path \in {v2[r].path} \cup LinkPaths,
         \/ v8' = v8
         \/ /\ p \in LinkSlots /\ v8' = [v8 EXCEPT ![p] = x]
            /\ x \in [pc : {"idle", "link", "row", "mark"}, at : {0} \cup Library!Releases,
                      by : {"nobody", "worker", "repair", "start"}]
            /\ x.pc # "idle" => x.at # 0 /\ v2[x.at].path \in LinkPaths
  PROVE  Library!Published'
<1>1. /\ v8' \in [LinkSlots -> [pc : {"idle", "link", "row", "mark"}, at : {0} \cup Library!Releases,
                               by : {"nobody", "worker", "repair", "start"}]]
      /\ \A q \in LinkSlots : v8'[q].pc # "idle" => v8'[q].at # 0 /\ v2'[v8'[q].at].path \in LinkPaths
  BY SlotMoves
<1> QED
  BY <1>1 DEF Library!Published, Library!At, Library!PathOf

\* Every publication under way is of a release with a path.
LEMMA PublishedSteps ==
  ASSUME Library!LinksInv, Library!Next
  PROVE  Library!Published'
<1>0. Library!Published
  BY DEF Library!LinksInv
<1>1. /\ v1 \in Int /\ v3 \in Nat
      /\ v2 \in [Library!Releases -> [live : BOOLEAN, path : LinkPaths \cup {"none"}]]
      /\ \A r \in Library!Releases : v2[r].live => v2[r].path \in LinkPaths
      /\ v4 \in [selected : {0} \cup Library!Releases, available : BOOLEAN]
      /\ v8 \in [LinkSlots -> [pc : {"idle", "link", "row", "mark"}, at : {0} \cup Library!Releases,
                              by : {"nobody", "worker", "repair", "start"}]]
      /\ \A q \in LinkSlots : v8[q].pc # "idle" => v8[q].at # 0 /\ v2[v8[q].at].path \in LinkPaths
  BY <1>0 DEF Library!Published, Library!At, Library!PathOf
<1>2. Library!Quiet \in [pc : {"idle", "link", "row", "mark"}, at : {0} \cup Library!Releases,
                         by : {"nobody", "worker", "repair", "start"}] /\ Library!Quiet.pc = "idle"
  BY DEF Library!Quiet
<1>3. ASSUME NEW r \in Library!Releases, NEW by \in {"nobody", "worker", "repair", "start"}, Library!Begin(by, r),
             UNCHANGED <<v1, v2, v3, v4>>
      PROVE  Library!Published'
  <2> DEFINE x == [pc |-> "link", at |-> r, by |-> by]
  <2>1. PICK p \in LinkSlots : v8' = [v8 EXCEPT ![p] = x]
    BY <1>3 DEF Library!Begin
  <2>2. r # 0 /\ v2[r].live
    BY <1>3 DEF Library!Begin, Library!Live
  <2>3. /\ x \in [pc : {"idle", "link", "row", "mark"}, at : {0} \cup Library!Releases,
                  by : {"nobody", "worker", "repair", "start"}]
        /\ x.at # 0 /\ v2[x.at].path \in LinkPaths
    BY <2>2, <1>1
  <2> HIDE DEF x
  <2> QED
    BY <2>1, <2>3, <1>0, <1>1, <1>3, PublishedGoes
<1>4. ASSUME NEW p \in LinkSlots, NEW pc \in {"row", "mark"}, Library!Goto(p, pc), v8[p].pc # "idle", UNCHANGED <<v1, v2, v3, v4>>
      PROVE  Library!Published'
  <2> DEFINE x == [pc |-> pc, at |-> v8[p].at, by |-> v8[p].by]
  <2>1. v8' = [v8 EXCEPT ![p] = [v8[p] EXCEPT !.pc = pc]]
    BY <1>1, <1>4 DEF Library!Goto
  <2>2. [v8[p] EXCEPT !.pc = pc] = x
    BY <1>1
  <2>3. /\ x \in [pc : {"idle", "link", "row", "mark"}, at : {0} \cup Library!Releases,
                  by : {"nobody", "worker", "repair", "start"}]
        /\ x.at # 0 /\ v2[x.at].path \in LinkPaths
    BY <1>1, <1>4
  <2>4. v8' = [v8 EXCEPT ![p] = x]
    BY <2>1, <2>2
  <2> HIDE DEF x
  <2> QED
    BY <2>3, <2>4, <1>0, <1>1, <1>4, PublishedGoes
<1>5. ASSUME NEW p \in LinkPaths, Library!Import(p) PROVE Library!Published'
  <2>1. v3 + 1 \in Library!Releases
    BY <1>1, <1>5, LinksAssumption DEF Library!Import, Library!Releases
  <2>2. v2' = [v2 EXCEPT ![v3 + 1] = [live |-> TRUE, path |-> p]] /\ v3' = v3 + 1 /\ v1' = v1 /\ v8' = v8
    BY <1>5 DEF Library!Import
  <2>3. v4' \in [selected : {0} \cup Library!Releases, available : BOOLEAN]
    BY <2>1, <1>1, <1>5 DEF Library!Import
  <2> DEFINE n == v3 + 1
  <2>4. n \in Library!Releases /\ n \in Nat
    BY <2>1, <1>1
  <2> HIDE DEF n
  <2>5. ASSUME NEW b \in BOOLEAN, v2' = [v2 EXCEPT ![n] = [live |-> b, path |-> p]]
        PROVE  /\ v2' \in [Library!Releases -> [live : BOOLEAN, path : LinkPaths \cup {"none"}]]
               /\ \A r \in Library!Releases : v2'[r].live => v2'[r].path \in LinkPaths
               /\ \A r \in Library!Releases : v2'[r].path \in {v2[r].path} \cup LinkPaths
    BY <2>4, <2>5, <1>1
  <2>6. v2' = [v2 EXCEPT ![n] = [live |-> TRUE, path |-> p]] /\ v3' = n
    BY <2>2 DEF n
  <2>7. /\ v2' \in [Library!Releases -> [live : BOOLEAN, path : LinkPaths \cup {"none"}]]
        /\ \A r \in Library!Releases : v2'[r].live => v2'[r].path \in LinkPaths
        /\ \A r \in Library!Releases : v2'[r].path \in {v2[r].path} \cup LinkPaths
    BY <2>5, <2>6
  <2> QED
    BY <2>2, <2>3, <2>4, <2>6, <2>7, <1>0, PublishedGoes
<1>6. ASSUME NEW rs, Library!Delete(rs), v1' = v1, v3' = v3, NEW p, v8' = v8 \/ (p \in LinkSlots /\ Library!GiveUp(p)),
             v4' \in [selected : {0} \cup Library!Releases, available : BOOLEAN]
      PROVE  Library!Published'
  <2>1. /\ v2' \in [Library!Releases -> [live : BOOLEAN, path : LinkPaths \cup {"none"}]]
        /\ \A r \in Library!Releases : v2'[r].path = v2[r].path /\ (v2'[r].live => v2[r].live)
    BY <1>0, <1>6, DeleteKeeps
  <2>2. v8' = v8 \/ (p \in LinkSlots /\ v8' = [v8 EXCEPT ![p] = Library!Quiet])
    BY <1>6 DEF Library!GiveUp
  <2> QED
    BY <2>1, <2>2, <1>0, <1>1, <1>2, <1>6, PublishedGoes
<1>7. ASSUME NEW r \in Library!Releases, Library!FailSelectedReleaseAndPromoteNext(r) PROVE Library!Published'
  BY <1>1, <1>6, <1>7 DEF Library!FailSelectedReleaseAndPromoteNext
<1>8. ASSUME NEW r \in Library!Releases, Library!PruneOrphanedSelectedReleases(r) PROVE Library!Published'
  BY <1>1, <1>6, <1>8 DEF Library!PruneOrphanedSelectedReleases
<1>9. CASE Library!Tick
  BY <1>0, <1>1, <1>9, PublishedStays DEF Library!Tick
<1>10. ASSUME NEW r \in Library!Releases, Library!PublishSelectedRelease(r) PROVE Library!Published'
  BY <1>3, <1>10 DEF Library!PublishSelectedRelease
<1>11. CASE Library!Republish
  <2>1. PICK r \in Library!ListSelectedReleasesByLibraryItem : Library!Begin("repair", r)
    BY <1>11 DEF Library!Republish
  <2>2. r \in Library!Releases
    <3> DEFINE files == {q \in Library!Releases : Library!Live(q)}
               others == files \ {v4.selected}
    <3>1. r \in (IF others = {} THEN files ELSE {Library!Min(others)})
      BY <2>1 DEF Library!ListSelectedReleasesByLibraryItem
    <3>2. CASE others # {}
      <4>1. others \in SUBSET Nat /\ others \subseteq Library!Releases
        BY DEF Library!Releases
      <4> HIDE DEF others
      <4>2. \E n \in others : \A m \in others : n <= m
        BY <4>1, <3>2, LeastNumber
      <4>3. Library!Min(others) \in others
        BY <4>2 DEF Library!Min
      <4> QED
        BY <3>1, <3>2, <4>1, <4>3
    <3> QED
      BY <3>1, <3>2
  <2> QED
    BY <2>1, <2>2, <1>3, <1>11 DEF Library!Republish
<1>12. CASE Library!RepublishPendingLibrary \/ Library!RunHealthCheck \/ Library!RepublishLibraryItem
  BY <1>11, <1>12 DEF Library!RepublishPendingLibrary, Library!RunHealthCheck, Library!RepublishLibraryItem
<1>13. ASSUME NEW p \in LinkSlots, Library!Publish(p) \/ Library!UpsertSymlinkPublication(p) PROVE Library!Published'
  BY <1>4, <1>13 DEF Library!Publish, Library!UpsertSymlinkPublication
<1>14. ASSUME NEW p \in LinkSlots, Library!MarkReleaseAvailable(p) PROVE Library!Published'
  <2>1. v8[p].at \in Library!Releases
    BY <1>1, <1>14 DEF Library!MarkReleaseAvailable, Library!Live, Library!At
  <2>2. v4' \in [selected : {0} \cup Library!Releases, available : BOOLEAN]
    <3>1. \A b \in BOOLEAN : [selected |-> v8[p].at, available |-> b] \in [selected : {0} \cup Library!Releases, available : BOOLEAN]
      BY <2>1
    <3> QED
      BY <3>1, <1>14 DEF Library!MarkReleaseAvailable, Library!At
  <2> QED
    BY <2>2, <1>6, <1>14 DEF Library!MarkReleaseAvailable
<1>15. ASSUME NEW p \in LinkSlots, Library!Abandon(p) PROVE Library!Published'
  BY <1>0, <1>1, <1>2, <1>15, PublishedGoes DEF Library!Abandon, Library!GiveUp
<1>16. CASE Library!ResetLibraryItemState
  <2>1. CASE Library!Delete({v4.selected}) /\ v4' = [selected |-> 0, available |-> FALSE]
    <3>1. \A b \in BOOLEAN : [selected |-> 0, available |-> b] \in [selected : {0} \cup Library!Releases, available : BOOLEAN]
      OBVIOUS
    <3>2. v4' \in [selected : {0} \cup Library!Releases, available : BOOLEAN]
      BY <2>1, <3>1
    <3> QED
      BY <2>1, <3>2, <1>6, <1>16 DEF Library!ResetLibraryItemState
  <2>2. CASE UNCHANGED <<v2, v4>>
    BY <2>2, <1>0, <1>1, <1>16, PublishedStays DEF Library!ResetLibraryItemState
  <2> QED
    BY <2>1, <2>2, <1>16 DEF Library!ResetLibraryItemState
<1>17. CASE Library!RebuildPublications
  <2> DEFINE none == [p \in LinkSlots |-> Library!Quiet]
             x == [pc |-> "link", at |-> v4.selected, by |-> "start"]
  <2>1. UNCHANGED <<v1, v2, v3, v4>>
    BY <1>17 DEF Library!RebuildPublications
  <2>2. CASE v8' = none
    BY <2>1, <2>2, <1>1, <1>2 DEF Library!Published, Library!At, Library!PathOf
  <2>3. CASE Library!Live(v4.selected) /\ \E p \in LinkSlots : v8' = [none EXCEPT ![p] = x]
    <3>1. PICK p \in LinkSlots : v8' = [none EXCEPT ![p] = x]
      BY <2>3
    <3>2. /\ x \in [pc : {"idle", "link", "row", "mark"}, at : {0} \cup Library!Releases,
                    by : {"nobody", "worker", "repair", "start"}]
          /\ x.at # 0 /\ v2[x.at].path \in LinkPaths
      BY <2>3, <1>1 DEF Library!Live
    <3> HIDE DEF x
    <3>3. v8' = [q \in LinkSlots |-> IF q = p THEN x ELSE Library!Quiet]
      BY <3>1
    <3> QED
      BY <3>2, <3>3, <2>1, <1>1, <1>2 DEF Library!Published, Library!At, Library!PathOf
  <2> QED
    BY <2>2, <2>3, <1>17 DEF Library!RebuildPublications
<1>18. ASSUME UNCHANGED <<v1, v2, v3, v4, v8>> PROVE Library!Published'
  BY <1>0, <1>1, <1>18, PublishedStays
<1>19. ASSUME NEW p \in LinkPaths, Library!Unlink(p) \/ Library!RemoveOrphanedContent(p) \/ Library!Meddle(p, "none") \/ Library!Meddle(p, "file")
       PROVE  Library!Published'
  BY <1>18, <1>19 DEF Library!Unlink, Library!RemoveOrphanedContent, Library!Meddle
<1>20. ASSUME NEW w, Library!RemoveBrokenMediaSymlinks(w) \/ Library!RemoveOrphanedCompletedSymlinks(w) PROVE Library!Published'
  BY <1>18, <1>20 DEF Library!RemoveBrokenMediaSymlinks, Library!RemoveOrphanedCompletedSymlinks
<1>21. CASE Library!DeleteSymlinkPublicationsForLibraryItem \/ Library!RunSymlinkMaintenance \/ Library!DeleteSymlinkPublication \/ Library!EndOfPass
  BY <1>18, <1>21 DEF Library!DeleteSymlinkPublicationsForLibraryItem, Library!RunSymlinkMaintenance, Library!DeleteSymlinkPublication, Library!EndOfPass
<1> QED
  BY <1>5, <1>7, <1>8, <1>9, <1>10, <1>12, <1>13, <1>14, <1>15, <1>16, <1>17, <1>19, <1>20, <1>21 DEF Library!Next

\* What the maintenance has to answer for stays ahead of it when rows and links go.
LEMMA OthersMove ==
  ASSUME Library!LinksInv, v6' = v6, v5' \subseteq v5, v1' \in Int, v1' >= v1,
         v7' \in [LinkPaths -> [kind : {"none", "link", "file"}, to : {0} \cup Library!Releases, at : Int]],
         \A p \in LinkPaths : v7'[p] = v7[p] \/ v7'[p].kind # "link",
         v10' = v10
  PROVE  Library!Recorded' /\ Library!SweepType' /\ Library!DueIsAhead' /\ Library!StraysAreAhead'
<1>1. Library!Recorded'
  BY DEF Library!LinksInv, Library!Recorded
<1>2. Library!SweepType'
  BY DEF Library!LinksInv, Library!SweepType
<1>3. \A w \in v5 : w.path \in LinkPaths
  BY DEF Library!LinksInv, Library!Recorded
<1>4. Library!DueIsAhead'
  BY <1>3 DEF Library!LinksInv, Library!DueIsAhead
<1>5. Library!StraysAreAhead'
  <2>1. ASSUME v10.pc # "idle", v10.whole, NEW p \in v10.strays, v7'[p].kind = "link", p \in LinkPaths
        PROVE  /\ \A w \in v10.records : w.path # p
               /\ \/ v10.pc \in {"broken", "completed"} /\ v1' - v7'[p].at >= LinkGrace
                  \/ v10.pc = "content" /\ p \in v10.paths /\ v10.start - v7'[p].at >= LinkGrace
    <3>1. v7'[p] = v7[p]
      BY <2>1
    <3>2. v7[p].at \in Int /\ v1 \in Int
      BY <2>1 DEF Library!LinksInv, Library!Recorded, Library!Published
    <3>3. Library!StraysAreAhead
      BY DEF Library!LinksInv
    <3>4. /\ \A w \in v10.records : w.path # p
          /\ \/ v10.pc \in {"broken", "completed"} /\ v1 - v7[p].at >= LinkGrace
             \/ v10.pc = "content" /\ p \in v10.paths /\ v10.start - v7[p].at >= LinkGrace
      BY <2>1, <3>1, <3>3 DEF Library!StraysAreAhead
    <3>5. v1 - v7[p].at >= LinkGrace => v1' - v7[p].at >= LinkGrace
      BY <3>2, LinksAssumption
    <3> QED
      BY <3>1, <3>4, <3>5
  <2>2. v10.strays \subseteq LinkPaths
    BY DEF Library!LinksInv, Library!SweepType
  <2> QED
    BY <2>1, <2>2 DEF Library!StraysAreAhead
<1> QED
  BY <1>1, <1>2, <1>4, <1>5

\* The state of a sweep is made of its fields.
LEMMA SweepIs == Library!SweepType =>
  v10 = SweepOf(v10.pc, v10.records, v10.todo, v10.paths, v10.drop, v10.start, v10.whole, v10.due, v10.strays)
BY DEF Library!SweepType, SweepOf

\* Whoever writes at a path takes it off what the sweep has to answer for.
LEMMA Excuses ==
  ASSUME Library!LinksInv, NEW p \in LinkPaths, v10' = Library!Excused(p)
  PROVE  /\ v10' = [pc |-> v10'.pc, records |-> v10'.records, todo |-> v10'.todo, paths |-> v10'.paths,
                    drop |-> v10'.drop, start |-> v10'.start, whole |-> v10'.whole, due |-> v10'.due,
                    strays |-> v10'.strays]
         /\ v10'.pc = v10.pc /\ v10'.records = v10.records /\ v10'.todo = v10.todo /\ v10'.paths = v10.paths
         /\ v10'.drop = v10.drop /\ v10'.start = v10.start /\ v10'.whole = v10.whole
         /\ v10'.due = v10.due \ {w.id : w \in {x \in v5 : x.path = p}} /\ v10'.strays = v10.strays \ {p}
<1> DEFINE x == v10.due \ {w.id : w \in {x \in v5 : x.path = p}}
           y == v10.strays \ {p}
           a == [v10 EXCEPT !.due = x]
<1>1. v10' = [a EXCEPT !.strays = y]
  BY DEF Library!Excused, Library!RowsAt
<1>0. v10 = SweepOf(v10.pc, v10.records, v10.todo, v10.paths, v10.drop, v10.start, v10.whole, v10.due, v10.strays)
  BY SweepIs DEF Library!LinksInv
<1> HIDE DEF x, y
<1>2. a = SweepOf(v10.pc, v10.records, v10.todo, v10.paths, v10.drop, v10.start, v10.whole, x, v10.strays)
  BY <1>0 DEF SweepOf
<1> HIDE DEF a
<1>3. v10' = SweepOf(v10.pc, v10.records, v10.todo, v10.paths, v10.drop, v10.start, v10.whole, x, y)
  BY <1>1, <1>2 DEF SweepOf
<1>4. /\ v10' = [pc |-> v10'.pc, records |-> v10'.records, todo |-> v10'.todo, paths |-> v10'.paths,
                 drop |-> v10'.drop, start |-> v10'.start, whole |-> v10'.whole, due |-> v10'.due,
                 strays |-> v10'.strays]
      /\ v10'.pc = v10.pc /\ v10'.records = v10.records /\ v10'.todo = v10.todo /\ v10'.paths = v10.paths
      /\ v10'.drop = v10.drop /\ v10'.start = v10.start /\ v10'.whole = v10.whole
      /\ v10'.due = x /\ v10'.strays = y
  BY <1>3 DEF SweepOf
<1> QED
  BY <1>4 DEF x, y

\* They are read off it.
LEMMA SweepReads ==
  ASSUME NEW pc, NEW records, NEW todo, NEW paths, NEW drop, NEW start, NEW whole, NEW due, NEW strays,
         v10' = SweepOf(pc, records, todo, paths, drop, start, whole, due, strays)
  PROVE  /\ v10' = [pc |-> v10'.pc, records |-> v10'.records, todo |-> v10'.todo, paths |-> v10'.paths,
                    drop |-> v10'.drop, start |-> v10'.start, whole |-> v10'.whole, due |-> v10'.due,
                    strays |-> v10'.strays]
         /\ v10'.pc = pc /\ v10'.records = records /\ v10'.todo = todo /\ v10'.paths = paths
         /\ v10'.drop = drop /\ v10'.start = start /\ v10'.whole = whole
         /\ v10'.due = due /\ v10'.strays = strays
BY DEF SweepOf

\* The rows and the links keep their shape when rows go and links change.
LEMMA RowsGo ==
  ASSUME Library!Recorded, v6' = v6, v5' \subseteq v5,
         v7' \in [LinkPaths -> [kind : {"none", "link", "file"}, to : {0} \cup Library!Releases, at : Int]]
  PROVE  Library!Recorded'
BY DEF Library!Recorded

\* A publication gives a path its link.
LEMMA LinkGoesUp ==
  ASSUME Library!LinksInv, NEW s \in LinkSlots, Library!Publish(s)
  PROVE  Library!Recorded' /\ Library!SweepType' /\ Library!DueIsAhead' /\ Library!StraysAreAhead'
<1> DEFINE p == v2[v8[s].at].path
<1>1. p \in LinkPaths /\ v1 \in Int /\ v8[s].at \in Library!Releases
  BY DEF Library!LinksInv, Library!Published, Library!Publish, Library!At, Library!PathOf
<1>2. /\ v10' = Library!Excused(p)
      /\ v7' = v7 \/ v7' = [v7 EXCEPT ![p] = [kind |-> "link", to |-> v8[s].at, at |-> v1]]
      /\ UNCHANGED <<v1, v5, v6>>
  BY DEF Library!Publish, Library!At, Library!PathOf
<1> HIDE DEF p
<1>3. /\ v10' = [pc |-> v10'.pc, records |-> v10'.records, todo |-> v10'.todo, paths |-> v10'.paths,
                 drop |-> v10'.drop, start |-> v10'.start, whole |-> v10'.whole, due |-> v10'.due,
                 strays |-> v10'.strays]
      /\ v10'.pc = v10.pc /\ v10'.records = v10.records /\ v10'.todo = v10.todo /\ v10'.paths = v10.paths
      /\ v10'.drop = v10.drop /\ v10'.start = v10.start /\ v10'.whole = v10.whole
      /\ v10'.due = v10.due \ {w.id : w \in {x \in v5 : x.path = p}} /\ v10'.strays = v10.strays \ {p}
  BY <1>1, <1>2, Excuses
<1>4. Library!Recorded /\ Library!SweepType /\ Library!DueIsAhead /\ Library!StraysAreAhead
  BY DEF Library!LinksInv
<1>5. /\ v7' \in [LinkPaths -> [kind : {"none", "link", "file"}, to : {0} \cup Library!Releases, at : Int]]
      /\ \A q \in LinkPaths : q # p => v7'[q] = v7[q]
  <2>1. v7 \in [LinkPaths -> [kind : {"none", "link", "file"}, to : {0} \cup Library!Releases, at : Int]]
    BY <1>4 DEF Library!Recorded
  <2>2. ASSUME NEW k \in {"none", "link", "file"}, v7' = [v7 EXCEPT ![p] = [kind |-> k, to |-> v8[s].at, at |-> v1]]
        PROVE  /\ v7' \in [LinkPaths -> [kind : {"none", "link", "file"}, to : {0} \cup Library!Releases, at : Int]]
               /\ \A q \in LinkPaths : q # p => v7'[q] = v7[q]
    BY <2>1, <2>2, <1>1
  <2> QED
    BY <2>1, <2>2, <1>2
<1>6. Library!Recorded'
  BY <1>2, <1>4, <1>5, RowsGo
<1>7. Library!SweepType'
  BY <1>2, <1>3, <1>4 DEF Library!SweepType
<1>8. Library!DueIsAhead'
  <2> SUFFICES ASSUME v10'.pc # "idle", v10'.whole, NEW w \in v5, w.id \in v10'.due
               PROVE  v10'.pc = "broken" /\ v7'[w.path].kind # "link" /\ (w \in v10'.todo \/ w.id = v10'.drop)
    BY <1>2 DEF Library!DueIsAhead
  <2>1. w.path # p /\ w.id \in v10.due /\ w.path \in LinkPaths
    BY <1>3, <1>4 DEF Library!Recorded
  <2> QED
    BY <2>1, <1>3, <1>4, <1>5 DEF Library!DueIsAhead
<1>9. Library!StraysAreAhead'
  <2> SUFFICES ASSUME v10'.pc # "idle", v10'.whole, NEW q \in v10'.strays, v7'[q].kind = "link"
               PROVE  /\ \A w \in v10'.records : w.path # q
                      /\ \/ v10'.pc \in {"broken", "completed"} /\ v1' - v7'[q].at >= LinkGrace
                         \/ v10'.pc = "content" /\ q \in v10'.paths /\ v10'.start - v7'[q].at >= LinkGrace
    BY DEF Library!StraysAreAhead
  <2>1. q # p /\ q \in v10.strays /\ q \in LinkPaths
    BY <1>3, <1>4 DEF Library!SweepType
  <2>2. v7'[q] = v7[q]
    BY <2>1, <1>5
  <2> QED
    BY <2>1, <2>2, <1>2, <1>3, <1>4 DEF Library!StraysAreAhead
<1> QED
  BY <1>6, <1>7, <1>8, <1>9

\* A publication records its link: it takes the row of the path over, or adds one.
LEMMA RowGoesUp ==
  ASSUME Library!LinksInv, NEW s \in LinkSlots, Library!UpsertSymlinkPublication(s)
  PROVE  Library!Recorded' /\ Library!SweepType' /\ Library!DueIsAhead' /\ Library!StraysAreAhead'
<1> DEFINE p == v2[v8[s].at].path
           r == v8[s].at
<1>1. p \in LinkPaths /\ v1 \in Int /\ r \in Library!Releases
  BY DEF Library!LinksInv, Library!Published, Library!UpsertSymlinkPublication, Library!At, Library!PathOf
<1>2. /\ v10' = Library!Excused(p)
      /\ UNCHANGED <<v1, v7>>
      /\ \/ v5' = {IF w.path = p THEN [w EXCEPT !.to = r] ELSE w : w \in v5} /\ v6' = v6
         \/ /\ {x \in v5 : x.path = p} = {}
            /\ v6' = v6 + 1 /\ v5' = v5 \cup {[id |-> v6 + 1, path |-> p, to |-> r]}
  BY DEF Library!UpsertSymlinkPublication, Library!At, Library!PathOf, Library!RowsAt
<1> HIDE DEF p, r
<1>3. /\ v10' = [pc |-> v10'.pc, records |-> v10'.records, todo |-> v10'.todo, paths |-> v10'.paths,
                 drop |-> v10'.drop, start |-> v10'.start, whole |-> v10'.whole, due |-> v10'.due,
                 strays |-> v10'.strays]
      /\ v10'.pc = v10.pc /\ v10'.records = v10.records /\ v10'.todo = v10.todo /\ v10'.paths = v10.paths
      /\ v10'.drop = v10.drop /\ v10'.start = v10.start /\ v10'.whole = v10.whole
      /\ v10'.due = v10.due \ {w.id : w \in {x \in v5 : x.path = p}} /\ v10'.strays = v10.strays \ {p}
  BY <1>1, <1>2, Excuses
<1>4. Library!Recorded /\ Library!SweepType /\ Library!DueIsAhead /\ Library!StraysAreAhead
  BY DEF Library!LinksInv
<1>5. /\ v6 \in Nat /\ v5 \subseteq [id : Nat \ {0}, path : LinkPaths, to : Library!Releases]
      /\ \A w \in v5 : w.id <= v6 /\ \A x \in v5 : x.id = w.id => x = w
      /\ v7 \in [LinkPaths -> [kind : {"none", "link", "file"}, to : {0} \cup Library!Releases, at : Int]]
  BY <1>4 DEF Library!Recorded
<1>6. /\ v6' \in Nat /\ v6 <= v6'
      /\ v5' \subseteq [id : Nat \ {0}, path : LinkPaths, to : Library!Releases]
      /\ \A w \in v5' : w.id <= v6' /\ \A x \in v5' : x.id = w.id => x = w
      /\ \A w \in v5' : w.path # p => w \in v5
      /\ \A w \in v5' : w.id \in v10'.due => w \in v5 /\ w.path # p
  <2>1. CASE v5' = {IF w.path = p THEN [w EXCEPT !.to = r] ELSE w : w \in v5} /\ v6' = v6
    <3>1. ASSUME NEW w \in v5 PROVE [w EXCEPT !.to = r] = [id |-> w.id, path |-> w.path, to |-> r]
      BY <1>5
    <3>2. v5' = {IF w.path = p THEN [id |-> w.id, path |-> w.path, to |-> r] ELSE w : w \in v5}
      BY <2>1, <3>1
    <3>3. ASSUME NEW y \in v5'
          PROVE  \E w \in v5 : /\ y.id = w.id /\ y.path = w.path
                               /\ y = IF w.path = p THEN [id |-> w.id, path |-> w.path, to |-> r] ELSE w
      BY <3>2
    <3>4. ASSUME NEW y \in v5' PROVE y \in [id : Nat \ {0}, path : LinkPaths, to : Library!Releases] /\ y.id <= v6
      BY <3>3, <1>1, <1>5
    <3>5. ASSUME NEW y \in v5', NEW z \in v5', z.id = y.id PROVE z = y
      <4>1. PICK w \in v5 : y.id = w.id /\ y = IF w.path = p THEN [id |-> w.id, path |-> w.path, to |-> r] ELSE w
        BY <3>3
      <4>2. PICK x \in v5 : z.id = x.id /\ z = IF x.path = p THEN [id |-> x.id, path |-> x.path, to |-> r] ELSE x
        BY <3>3
      <4>3. x = w
        BY <4>1, <4>2, <3>5, <1>5
      <4> QED
        BY <4>1, <4>2, <4>3
    <3>6. ASSUME NEW y \in v5', y.path # p PROVE y \in v5
      BY <3>3, <3>6
    <3>7. ASSUME NEW y \in v5', y.id \in v10'.due PROVE y \in v5 /\ y.path # p
      <4>1. PICK w \in v5 : y.id = w.id /\ y.path = w.path
        BY <3>3
      <4>2. w.path # p
        BY <4>1, <3>7, <1>3
      <4> QED
        BY <4>1, <4>2, <3>6
    <3> QED
      BY <2>1, <3>4, <3>5, <3>6, <3>7, <1>5
  <2>2. CASE v6' = v6 + 1 /\ v5' = v5 \cup {[id |-> v6 + 1, path |-> p, to |-> r]}
    <3>1. \A w \in v5' : w \in v5 \/ (w.id = v6 + 1 /\ w.path = p /\ w = [id |-> v6 + 1, path |-> p, to |-> r])
      BY <2>2
    <3>2. [id |-> v6 + 1, path |-> p, to |-> r] \in [id : Nat \ {0}, path : LinkPaths, to : Library!Releases]
      BY <1>1, <1>5
    <3>3. ASSUME NEW w \in v5' PROVE w.id <= v6' /\ \A x \in v5' : x.id = w.id => x = w
      <4>1. \A x \in v5 : x.id \in Nat /\ x.id <= v6
        BY <1>5
      <4> QED
        BY <2>2, <3>1, <4>1, <1>5
    <3>4. ASSUME NEW w \in v5', w.id \in v10'.due PROVE w \in v5 /\ w.path # p
      <4>1. w.id \in 1 .. v6
        BY <3>4, <1>3, <1>4 DEF Library!SweepType
      <4>2. w \in v5
        BY <3>1, <4>1, <1>5
      <4> QED
        BY <4>2, <3>4, <1>3
    <3> QED
      BY <2>2, <3>1, <3>2, <3>3, <3>4, <1>5
  <2> QED
    BY <2>1, <2>2, <1>2
<1>7. Library!Recorded'
  BY <1>2, <1>5, <1>6 DEF Library!Recorded
<1>8. Library!SweepType'
  <2>1. v10.due \subseteq 1 .. v6 /\ v10.strays \subseteq LinkPaths /\ v10.start \in Int
    BY <1>4 DEF Library!SweepType
  <2>2. 1 .. v6 \subseteq 1 .. v6'
    BY <1>5, <1>6
  <2> QED
    BY <2>1, <2>2, <1>3 DEF Library!SweepType
<1>9. Library!DueIsAhead'
  <2> SUFFICES ASSUME v10'.pc # "idle", v10'.whole, NEW w \in v5', w.id \in v10'.due
               PROVE  v10'.pc = "broken" /\ v7'[w.path].kind # "link" /\ (w \in v10'.todo \/ w.id = v10'.drop)
    BY DEF Library!DueIsAhead
  <2>1. w \in v5 /\ w.id \in v10.due
    BY <1>3, <1>6
  <2> QED
    BY <2>1, <1>2, <1>3, <1>4 DEF Library!DueIsAhead
<1>10. Library!StraysAreAhead'
  BY <1>2, <1>3, <1>4 DEF Library!StraysAreAhead
<1> QED
  BY <1>7, <1>8, <1>9, <1>10

\* A sweep begins with what it has to answer for ahead of it.
LEMMA SweepBegins ==
  ASSUME Library!LinksInv, Library!RunSymlinkMaintenance
  PROVE  Library!SweepType' /\ Library!DueIsAhead' /\ Library!StraysAreAhead'
<1> DEFINE due == {w.id : w \in {x \in v5 : v7[x.path].kind # "link"}}
           strays == {p \in LinkPaths : v7[p].kind = "link" /\ {w \in v5 : w.path = p} = {} /\ v1 - v7[p].at >= LinkGrace}
<1>1. v10' = SweepOf("broken", v5, v5, {}, 0, 0, TRUE, due, strays) /\ UNCHANGED <<v1, v5, v6, v7>>
  BY DEF Library!RunSymlinkMaintenance, Library!RowsAt, SweepOf
<1>2. due \subseteq 1 .. v6 /\ strays \subseteq LinkPaths
  BY DEF Library!LinksInv, Library!Recorded
<1>3. \A w \in v5 : w.id \in due => v7[w.path].kind # "link"
  BY DEF Library!LinksInv, Library!Recorded
<1>4. \A p \in strays : v1 - v7[p].at >= LinkGrace /\ \A w \in v5 : w.path # p
  OBVIOUS
<1> HIDE DEF due, strays
<1>10. /\ v10' = [pc |-> v10'.pc, records |-> v10'.records, todo |-> v10'.todo, paths |-> v10'.paths,
                  drop |-> v10'.drop, start |-> v10'.start, whole |-> v10'.whole, due |-> v10'.due,
                  strays |-> v10'.strays]
       /\ v10'.pc = "broken" /\ v10'.records = v5 /\ v10'.todo = v5 /\ v10'.start = 0
       /\ v10'.due = due /\ v10'.strays = strays
  BY <1>1 DEF SweepOf
<1>11. Library!SweepType'
  <2>0. v6' = v6 /\ v10'.due = due /\ v10'.strays = strays /\ v10'.start = 0
    BY <1>1, <1>10
  <2>1. v10'.due \subseteq 1 .. v6' /\ v10'.strays \subseteq LinkPaths
    BY <1>2, <2>0
  <2> QED
    BY <2>0, <2>1, <1>10 DEF Library!SweepType
<1>12. Library!DueIsAhead'
  BY <1>1, <1>3, <1>10 DEF Library!DueIsAhead
<1>13. Library!StraysAreAhead'
  BY <1>1, <1>4, <1>10 DEF Library!StraysAreAhead
<1> QED
  BY <1>11, <1>12, <1>13

\* What the first pass takes up it drops, or it was not amiss.
LEMMA BrokenGoes ==
  ASSUME Library!LinksInv, NEW w, w \in v10.todo, Library!RemoveBrokenMediaSymlinks(w)
  PROVE  Library!Recorded' /\ Library!SweepType' /\ Library!DueIsAhead' /\ Library!StraysAreAhead'
<1> DEFINE todo == v10.todo \ {w}
           a == [v10 EXCEPT !.todo = todo]
           gone == [v7 EXCEPT ![w.path] = Library!Nothing]
<1>1. /\ v10.pc = "broken" /\ v10.drop = 0 /\ UNCHANGED <<v1, v5, v6>>
      /\ \/ v7' \in {gone, v7} /\ v10' = [a EXCEPT !.drop = w.id]
         \/ v7[w.path].kind = "link" /\ v7' = v7 /\ v10' = a
         \/ v7' = v7 /\ v10' = [a EXCEPT !.whole = FALSE]
  BY DEF Library!RemoveBrokenMediaSymlinks, Library!Sweeping, Library!Done
<1>2. Library!Recorded /\ Library!SweepType /\ Library!DueIsAhead /\ Library!StraysAreAhead /\ v1 \in Int
  BY DEF Library!LinksInv, Library!Published
<1>3. /\ v7' \in [LinkPaths -> [kind : {"none", "link", "file"}, to : {0} \cup Library!Releases, at : Int]]
      /\ \A p \in LinkPaths : v7'[p] = v7[p] \/ v7'[p].kind # "link"
  <2>1. v7 \in [LinkPaths -> [kind : {"none", "link", "file"}, to : {0} \cup Library!Releases, at : Int]]
    BY <1>2 DEF Library!Recorded
  <2>2. ASSUME NEW k \in {"none", "link", "file"}, v7' = [v7 EXCEPT ![w.path] = [kind |-> k, to |-> 0, at |-> 0]]
        PROVE  /\ v7' \in [LinkPaths -> [kind : {"none", "link", "file"}, to : {0} \cup Library!Releases, at : Int]]
               /\ \A p \in LinkPaths : v7'[p] = v7[p] \/ v7'[p].kind = k
    <3> DEFINE x == [kind |-> k, to |-> 0, at |-> 0]
    <3>1. x \in [kind : {"none", "link", "file"}, to : {0} \cup Library!Releases, at : Int] /\ x.kind = k
      OBVIOUS
    <3>2. v7' = [v7 EXCEPT ![w.path] = x]
      BY <2>2
    <3> HIDE DEF x
    <3>3. v7' = [p \in LinkPaths |-> IF p = w.path THEN x ELSE v7[p]]
      BY <2>1, <3>2
    <3> QED
      BY <2>1, <3>1, <3>3
  <2>3. CASE v7' = gone
    BY <2>2, <2>3 DEF Library!Nothing
  <2> QED
    BY <2>1, <2>3, <1>1
<1>4. /\ v10 = SweepOf(v10.pc, v10.records, v10.todo, v10.paths, v10.drop, v10.start, v10.whole, v10.due, v10.strays)
      /\ todo \subseteq v10.todo /\ \A x \in v10.todo : x = w \/ x \in todo
  BY <1>2, SweepIs
<1> HIDE DEF todo, gone
<1>5. a = SweepOf(v10.pc, v10.records, todo, v10.paths, v10.drop, v10.start, v10.whole, v10.due, v10.strays)
  BY <1>4 DEF SweepOf
<1> HIDE DEF a
<1>6. \A x : /\ [a EXCEPT !.drop = x] = SweepOf(v10.pc, v10.records, todo, v10.paths, x, v10.start, v10.whole, v10.due, v10.strays)
             /\ [a EXCEPT !.whole = x] = SweepOf(v10.pc, v10.records, todo, v10.paths, v10.drop, v10.start, x, v10.due, v10.strays)
  BY <1>5 DEF SweepOf
<1>7. \E drop, whole : /\ v10' = SweepOf(v10.pc, v10.records, todo, v10.paths, drop, v10.start, whole, v10.due, v10.strays)
                       /\ \/ drop = w.id /\ whole = v10.whole
                          \/ drop = v10.drop /\ whole = v10.whole /\ v7[w.path].kind = "link"
                          \/ whole = FALSE
  <2>1. CASE v10' = [a EXCEPT !.drop = w.id]
    BY <2>1, <1>6
  <2>2. CASE v7[w.path].kind = "link" /\ v10' = a
    BY <2>2, <1>5
  <2>3. CASE v10' = [a EXCEPT !.whole = FALSE]
    <3>1. [a EXCEPT !.whole = FALSE] = SweepOf(v10.pc, v10.records, todo, v10.paths, v10.drop, v10.start, FALSE, v10.due, v10.strays)
      BY <1>6, Zenon
    <3> QED
      BY <2>3, <3>1
  <2> QED
    BY <2>1, <2>2, <2>3, <1>1
<1>8. PICK drop, whole : /\ v10' = SweepOf(v10.pc, v10.records, todo, v10.paths, drop, v10.start, whole, v10.due, v10.strays)
                         /\ \/ drop = w.id /\ whole = v10.whole
                            \/ drop = v10.drop /\ whole = v10.whole /\ v7[w.path].kind = "link"
                            \/ whole = FALSE
  BY <1>7
<1>9. /\ v10' = [pc |-> v10'.pc, records |-> v10'.records, todo |-> v10'.todo, paths |-> v10'.paths,
                 drop |-> v10'.drop, start |-> v10'.start, whole |-> v10'.whole, due |-> v10'.due,
                 strays |-> v10'.strays]
      /\ v10'.pc = v10.pc /\ v10'.records = v10.records /\ v10'.todo = todo /\ v10'.paths = v10.paths
      /\ v10'.drop = drop /\ v10'.start = v10.start /\ v10'.whole = whole
      /\ v10'.due = v10.due /\ v10'.strays = v10.strays
  BY <1>8, SweepReads
<1>10. Library!Recorded'
  BY <1>1, <1>2, <1>3, RowsGo
<1>11. Library!SweepType'
  BY <1>1, <1>2, <1>9 DEF Library!SweepType
<1>12. Library!DueIsAhead'
  <2> SUFFICES ASSUME v10'.whole, NEW x \in v5, x.id \in v10.due
               PROVE  v10'.pc = "broken" /\ v7'[x.path].kind # "link" /\ (x \in v10'.todo \/ x.id = v10'.drop)
    BY <1>1, <1>9 DEF Library!DueIsAhead
  <2>1. x.path \in LinkPaths /\ x.id # 0
    BY <1>2 DEF Library!Recorded
  <2>2. v10.whole
    BY <1>8, <1>9
  <2>3. v7[x.path].kind # "link" /\ x \in v10.todo
    BY <2>1, <2>2, <1>1, <1>2 DEF Library!DueIsAhead
  <2>4. v7'[x.path].kind # "link"
    BY <2>1, <2>3, <1>3
  <2>5. x \in todo \/ x.id = drop
    BY <2>3, <1>4, <1>8, <1>9
  <2> QED
    BY <2>4, <2>5, <1>1, <1>9
<1>13. Library!StraysAreAhead'
  <2> SUFFICES ASSUME v10'.whole, NEW p \in v10.strays, v7'[p].kind = "link"
               PROVE  (\A x \in v10.records : x.path # p) /\ v1 - v7'[p].at >= LinkGrace
    BY <1>1, <1>9 DEF Library!StraysAreAhead
  <2>1. p \in LinkPaths /\ v10.whole
    BY <1>2, <1>8, <1>9 DEF Library!SweepType
  <2>2. v7'[p] = v7[p]
    BY <2>1, <1>3
  <2> QED
    BY <2>1, <2>2, <1>1, <1>2 DEF Library!StraysAreAhead
<1> QED
  BY <1>10, <1>11, <1>12, <1>13

\* The second pass has nothing of that left before it.
LEMMA CompletedGoes ==
  ASSUME Library!LinksInv, NEW w, w \in v10.todo, Library!RemoveOrphanedCompletedSymlinks(w)
  PROVE  Library!Recorded' /\ Library!SweepType' /\ Library!DueIsAhead' /\ Library!StraysAreAhead'
<1> DEFINE todo == v10.todo \ {w}
           a == [v10 EXCEPT !.todo = todo]
           n == IF v7[w.path].kind = "none" THEN w.id ELSE 0
<1>1. /\ v10.pc = "completed" /\ UNCHANGED <<v1, v5, v6, v7>>
      /\ v10' = [a EXCEPT !.drop = n] \/ v10' = [a EXCEPT !.whole = FALSE]
  BY DEF Library!RemoveOrphanedCompletedSymlinks, Library!Sweeping, Library!Done
<1>2. Library!Recorded /\ Library!SweepType /\ Library!DueIsAhead /\ Library!StraysAreAhead
  BY DEF Library!LinksInv
<1> HIDE DEF todo, n
<1>3. a = SweepOf(v10.pc, v10.records, todo, v10.paths, v10.drop, v10.start, v10.whole, v10.due, v10.strays)
  BY <1>2, SweepIs DEF SweepOf
<1> HIDE DEF a
<1>4. \A x : /\ [a EXCEPT !.drop = x] = SweepOf(v10.pc, v10.records, todo, v10.paths, x, v10.start, v10.whole, v10.due, v10.strays)
             /\ [a EXCEPT !.whole = x] = SweepOf(v10.pc, v10.records, todo, v10.paths, v10.drop, v10.start, x, v10.due, v10.strays)
  BY <1>3 DEF SweepOf
<1>5. [a EXCEPT !.whole = FALSE] = SweepOf(v10.pc, v10.records, todo, v10.paths, v10.drop, v10.start, FALSE, v10.due, v10.strays)
  BY <1>4, Zenon
<1>6. \E drop, whole : /\ v10' = SweepOf(v10.pc, v10.records, todo, v10.paths, drop, v10.start, whole, v10.due, v10.strays)
                       /\ whole = v10.whole \/ whole = FALSE
  BY <1>1, <1>4, <1>5
<1>7. PICK drop, whole : /\ v10' = SweepOf(v10.pc, v10.records, todo, v10.paths, drop, v10.start, whole, v10.due, v10.strays)
                         /\ whole = v10.whole \/ whole = FALSE
  BY <1>6
<1>8. /\ v10' = [pc |-> v10'.pc, records |-> v10'.records, todo |-> v10'.todo, paths |-> v10'.paths,
                 drop |-> v10'.drop, start |-> v10'.start, whole |-> v10'.whole, due |-> v10'.due,
                 strays |-> v10'.strays]
      /\ v10'.pc = v10.pc /\ v10'.records = v10.records /\ v10'.paths = v10.paths
      /\ v10'.start = v10.start /\ v10'.whole = whole
      /\ v10'.due = v10.due /\ v10'.strays = v10.strays
  BY <1>7, SweepReads
<1>9. v10'.whole => v10.whole
  BY <1>7, <1>8
<1>10. Library!Recorded'
  BY <1>1, <1>2 DEF Library!Recorded
<1>11. Library!SweepType'
  BY <1>1, <1>2, <1>8 DEF Library!SweepType
<1>12. Library!DueIsAhead'
  BY <1>1, <1>2, <1>8, <1>9 DEF Library!DueIsAhead
<1>13. Library!StraysAreAhead'
  BY <1>1, <1>2, <1>8, <1>9 DEF Library!StraysAreAhead
<1> QED
  BY <1>10, <1>11, <1>12, <1>13

\* A row that a pass has dropped goes, or the sweep is no longer a whole one.
LEMMA DroppedGoes ==
  ASSUME Library!LinksInv, Library!DeleteSymlinkPublication
  PROVE  Library!Recorded' /\ Library!SweepType' /\ Library!DueIsAhead' /\ Library!StraysAreAhead'
<1> DEFINE zero == 0
           none == {}
           a == [v10 EXCEPT !.drop = zero]
           b == [a EXCEPT !.todo = none]
<1>1. /\ UNCHANGED <<v1, v6, v7>>
      /\ \/ v5' = {w \in v5 : w.id # v10.drop} /\ v10' = a
         \/ v5' = v5 /\ v10' = [b EXCEPT !.whole = FALSE]
  BY DEF Library!DeleteSymlinkPublication
<1>2. Library!Recorded /\ Library!SweepType /\ Library!DueIsAhead /\ Library!StraysAreAhead
  BY DEF Library!LinksInv
<1> HIDE DEF zero, none
<1>3. a = SweepOf(v10.pc, v10.records, v10.todo, v10.paths, zero, v10.start, v10.whole, v10.due, v10.strays)
  BY <1>2, SweepIs DEF SweepOf
<1> HIDE DEF a
<1>4. b = SweepOf(v10.pc, v10.records, none, v10.paths, zero, v10.start, v10.whole, v10.due, v10.strays)
  BY <1>3 DEF SweepOf
<1> HIDE DEF b
<1>5. \A x : [b EXCEPT !.whole = x] = SweepOf(v10.pc, v10.records, none, v10.paths, zero, v10.start, x, v10.due, v10.strays)
  BY <1>4 DEF SweepOf
<1>6. [b EXCEPT !.whole = FALSE] = SweepOf(v10.pc, v10.records, none, v10.paths, zero, v10.start, FALSE, v10.due, v10.strays)
  BY <1>5, Zenon
<1>7. CASE v5' = {w \in v5 : w.id # v10.drop} /\ v10' = a
  <2>1. /\ v10' = [pc |-> v10'.pc, records |-> v10'.records, todo |-> v10'.todo, paths |-> v10'.paths,
                   drop |-> v10'.drop, start |-> v10'.start, whole |-> v10'.whole, due |-> v10'.due,
                   strays |-> v10'.strays]
        /\ v10'.pc = v10.pc /\ v10'.records = v10.records /\ v10'.todo = v10.todo /\ v10'.paths = v10.paths
        /\ v10'.start = v10.start /\ v10'.whole = v10.whole
        /\ v10'.due = v10.due /\ v10'.strays = v10.strays
    BY <1>3, <1>7, SweepReads
  <2>2. Library!Recorded'
    BY <1>1, <1>2, <1>7 DEF Library!Recorded
  <2>3. Library!SweepType'
    BY <2>1, <1>1, <1>2 DEF Library!SweepType
  <2>4. Library!DueIsAhead'
    BY <2>1, <1>1, <1>2, <1>7 DEF Library!DueIsAhead
  <2>5. Library!StraysAreAhead'
    BY <2>1, <1>1, <1>2 DEF Library!StraysAreAhead
  <2> QED
    BY <2>2, <2>3, <2>4, <2>5
<1>8. CASE v5' = v5 /\ v10' = [b EXCEPT !.whole = FALSE]
  <2>1. /\ v10' = [pc |-> v10'.pc, records |-> v10'.records, todo |-> v10'.todo, paths |-> v10'.paths,
                   drop |-> v10'.drop, start |-> v10'.start, whole |-> v10'.whole, due |-> v10'.due,
                   strays |-> v10'.strays]
        /\ v10'.start = v10.start /\ v10'.whole = FALSE
        /\ v10'.due = v10.due /\ v10'.strays = v10.strays
    BY <1>6, <1>8 DEF SweepOf
  <2>2. Library!Recorded'
    BY <1>1, <1>2, <1>8 DEF Library!Recorded
  <2>3. Library!SweepType'
    BY <2>1, <1>1, <1>2 DEF Library!SweepType
  <2>4. Library!DueIsAhead' /\ Library!StraysAreAhead'
    BY <2>1 DEF Library!DueIsAhead, Library!StraysAreAhead
  <2> QED
    BY <2>2, <2>3, <2>4
<1> QED
  BY <1>1, <1>7, <1>8

\* A pass that is over has left nothing that is not the next one's.
LEMMA PassEnds ==
  ASSUME Library!LinksInv, Library!EndOfPass
  PROVE  Library!Recorded' /\ Library!SweepType' /\ Library!DueIsAhead' /\ Library!StraysAreAhead'
<1>1. /\ UNCHANGED <<v1, v5, v6, v7>> /\ v10.todo = {} /\ v10.drop = 0 /\ v10.paths = {} /\ v10.pc # "idle"
      /\ v10' = CASE v10.pc = "broken" -> [v10 EXCEPT !.pc = "completed", !.todo = v10.records]
                  [] v10.pc = "completed" -> [v10 EXCEPT !.pc = "content", !.paths = LinkPaths, !.start = v1]
                  [] v10.pc = "content" -> [v10 EXCEPT !.pc = "done"]
                  [] OTHER -> Library!NoSweep
  BY DEF Library!EndOfPass
<1>2. Library!Recorded /\ Library!SweepType /\ Library!DueIsAhead /\ Library!StraysAreAhead /\ v1 \in Int
  BY DEF Library!LinksInv, Library!Published
<1>3. v10 = SweepOf(v10.pc, v10.records, v10.todo, v10.paths, v10.drop, v10.start, v10.whole, v10.due, v10.strays)
  BY <1>2, SweepIs
<1>4. \A pc : [v10 EXCEPT !.pc = pc] =
        SweepOf(pc, v10.records, v10.todo, v10.paths, v10.drop, v10.start, v10.whole, v10.due, v10.strays)
  BY <1>3 DEF SweepOf
<1>6. Library!Recorded'
  BY <1>1, <1>2 DEF Library!Recorded
<1>7. \A w \in v5 : w.id # 0
  BY <1>2 DEF Library!Recorded
<1>8. ASSUME NEW pc, NEW todo, NEW paths, NEW start \in Int,
             v10' = SweepOf(pc, v10.records, todo, paths, v10.drop, start, v10.whole, v10.due, v10.strays),
             \/ v10.pc = "broken" /\ pc = "completed"
             \/ v10.pc = "completed" /\ pc = "content" /\ paths = LinkPaths /\ start = v1
             \/ v10.pc = "content" /\ pc = "done"
      PROVE  Library!SweepType' /\ Library!DueIsAhead' /\ Library!StraysAreAhead'
  <2>1. /\ v10' = [pc |-> v10'.pc, records |-> v10'.records, todo |-> v10'.todo, paths |-> v10'.paths,
                   drop |-> v10'.drop, start |-> v10'.start, whole |-> v10'.whole, due |-> v10'.due,
                   strays |-> v10'.strays]
        /\ v10'.pc = pc /\ v10'.records = v10.records /\ v10'.paths = paths
        /\ v10'.start = start /\ v10'.whole = v10.whole
        /\ v10'.due = v10.due /\ v10'.strays = v10.strays
    BY <1>8, SweepReads
  <2>2. Library!SweepType'
    BY <2>1, <1>1, <1>2 DEF Library!SweepType
  <2>3. Library!DueIsAhead'
    BY <2>1, <1>1, <1>2, <1>7 DEF Library!DueIsAhead
  <2>4. Library!StraysAreAhead'
    <3> SUFFICES ASSUME v10.whole, NEW p \in v10.strays, v7[p].kind = "link"
                 PROVE  /\ \A w \in v10.records : w.path # p
                        /\ \/ pc \in {"broken", "completed"} /\ v1 - v7[p].at >= LinkGrace
                           \/ pc = "content" /\ p \in paths /\ start - v7[p].at >= LinkGrace
      BY <2>1, <1>1 DEF Library!StraysAreAhead
    <3>1. /\ \A w \in v10.records : w.path # p
          /\ \/ v10.pc \in {"broken", "completed"} /\ v1 - v7[p].at >= LinkGrace
             \/ v10.pc = "content" /\ p \in v10.paths /\ v10.start - v7[p].at >= LinkGrace
      BY <1>1, <1>2 DEF Library!StraysAreAhead
    <3>2. p \in LinkPaths
      BY <1>2 DEF Library!SweepType
    <3> QED
      BY <3>1, <3>2, <1>1, <1>8
  <2> QED
    BY <2>2, <2>3, <2>4
<1>9. CASE v10.pc = "broken"
  <2> DEFINE a(pc) == [v10 EXCEPT !.pc = pc]
  <2>1. v10' = [v10 EXCEPT !.pc = "completed", !.todo = v10.records]
    BY <1>1, <1>9
  <2>2. \A pc : [v10 EXCEPT !.pc = pc, !.todo = v10.records] =
          SweepOf(pc, v10.records, v10.records, v10.paths, v10.drop, v10.start, v10.whole, v10.due, v10.strays)
    <3> TAKE pc
    <3> DEFINE r == v10.records
               b == [v10 EXCEPT !.pc = pc]
    <3>1. [v10 EXCEPT !.pc = pc, !.todo = v10.records] = [b EXCEPT !.todo = r]
      OBVIOUS
    <3>2. b = SweepOf(pc, v10.records, v10.todo, v10.paths, v10.drop, v10.start, v10.whole, v10.due, v10.strays)
      BY <1>4
    <3> HIDE DEF b, r
    <3>3. [b EXCEPT !.todo = r] = SweepOf(pc, v10.records, r, v10.paths, v10.drop, v10.start, v10.whole, v10.due, v10.strays)
      BY <3>2 DEF SweepOf
    <3> QED
      BY <3>1, <3>3 DEF r
  <2>3. v10' = SweepOf("completed", v10.records, v10.records, v10.paths, v10.drop, v10.start, v10.whole, v10.due, v10.strays)
    BY <2>1, <2>2, Zenon
  <2> QED
    BY <2>3, <1>2, <1>6, <1>8, <1>9 DEF Library!SweepType
<1>10. CASE v10.pc = "completed"
  <2>1. v10' = [v10 EXCEPT !.pc = "content", !.paths = LinkPaths, !.start = v1]
    BY <1>1, <1>10
  <2>2. \A pc : [v10 EXCEPT !.pc = pc, !.paths = LinkPaths, !.start = v1] =
          SweepOf(pc, v10.records, v10.todo, LinkPaths, v10.drop, v1, v10.whole, v10.due, v10.strays)
    <3> TAKE pc
    <3> DEFINE b == [v10 EXCEPT !.pc = pc]
               c == [b EXCEPT !.paths = LinkPaths]
    <3>1. [v10 EXCEPT !.pc = pc, !.paths = LinkPaths, !.start = v1] = [c EXCEPT !.start = v1]
      OBVIOUS
    <3>2. b = SweepOf(pc, v10.records, v10.todo, v10.paths, v10.drop, v10.start, v10.whole, v10.due, v10.strays)
      BY <1>4
    <3> HIDE DEF b
    <3>3. c = SweepOf(pc, v10.records, v10.todo, LinkPaths, v10.drop, v10.start, v10.whole, v10.due, v10.strays)
      BY <3>2 DEF SweepOf
    <3> HIDE DEF c
    <3>4. [c EXCEPT !.start = v1] = SweepOf(pc, v10.records, v10.todo, LinkPaths, v10.drop, v1, v10.whole, v10.due, v10.strays)
      BY <3>3 DEF SweepOf
    <3> QED
      BY <3>1, <3>4
  <2>3. v10' = SweepOf("content", v10.records, v10.todo, LinkPaths, v10.drop, v1, v10.whole, v10.due, v10.strays)
    BY <2>1, <2>2, Zenon
  <2> QED
    BY <2>3, <1>2, <1>6, <1>8, <1>10
<1>11. CASE v10.pc = "content"
  <2>1. v10' = [v10 EXCEPT !.pc = "done"]
    BY <1>1, <1>11
  <2>2. v10' = SweepOf("done", v10.records, v10.todo, v10.paths, v10.drop, v10.start, v10.whole, v10.due, v10.strays)
    BY <2>1, <1>4, Zenon
  <2> QED
    BY <2>2, <1>2, <1>6, <1>8, <1>11 DEF Library!SweepType
<1>12. CASE v10' = Library!NoSweep
  <2>1. Library!SweepType'
    BY <1>12 DEF Library!SweepType, Library!NoSweep
  <2>2. Library!DueIsAhead' /\ Library!StraysAreAhead'
    BY <1>12 DEF Library!DueIsAhead, Library!StraysAreAhead, Library!NoSweep
  <2> QED
    BY <2>1, <2>2, <1>6
<1> QED
  BY <1>1, <1>9, <1>10, <1>11, <1>12

\* What the third pass takes up it removes, or it was not amiss.
LEMMA ContentGoes ==
  ASSUME Library!LinksInv, NEW p \in LinkPaths, Library!RemoveOrphanedContent(p)
  PROVE  Library!Recorded' /\ Library!SweepType' /\ Library!DueIsAhead' /\ Library!StraysAreAhead'
<1> DEFINE paths == v10.paths \ {p}
           a == [v10 EXCEPT !.paths = paths]
           x == Library!Nothing
<1>1. /\ v10.pc = "content" /\ p \in v10.paths /\ UNCHANGED <<v1, v5, v6>>
      /\ \/ v7' = (IF Library!Orphan(p) THEN [v7 EXCEPT ![p] = x] ELSE v7) /\ v10' = a
         \/ v7' = v7 /\ v10' = [a EXCEPT !.whole = FALSE]
  BY DEF Library!RemoveOrphanedContent, Library!Sweeping
<1>2. Library!Recorded /\ Library!SweepType /\ Library!DueIsAhead /\ Library!StraysAreAhead
  BY DEF Library!LinksInv
<1>3. x \in [kind : {"none", "link", "file"}, to : {0} \cup Library!Releases, at : Int] /\ x.kind # "link"
  BY DEF Library!Nothing
<1>4. \A q \in v10.paths : q = p \/ q \in paths
  OBVIOUS
<1> HIDE DEF paths, x
<1>5. a = SweepOf(v10.pc, v10.records, v10.todo, paths, v10.drop, v10.start, v10.whole, v10.due, v10.strays)
  BY <1>2, SweepIs DEF SweepOf
<1> HIDE DEF a
<1>6. \A b : [a EXCEPT !.whole = b] = SweepOf(v10.pc, v10.records, v10.todo, paths, v10.drop, v10.start, b, v10.due, v10.strays)
  BY <1>5 DEF SweepOf
<1>7. [a EXCEPT !.whole = FALSE] = SweepOf(v10.pc, v10.records, v10.todo, paths, v10.drop, v10.start, FALSE, v10.due, v10.strays)
  BY <1>6, Zenon
<1>8. v7 \in [LinkPaths -> [kind : {"none", "link", "file"}, to : {0} \cup Library!Releases, at : Int]]
  BY <1>2 DEF Library!Recorded
<1>9. /\ v7' \in [LinkPaths -> [kind : {"none", "link", "file"}, to : {0} \cup Library!Releases, at : Int]]
      /\ \A q \in LinkPaths : v7'[q] = v7[q] \/ v7'[q].kind # "link"
  <2>1. CASE v7' = [v7 EXCEPT ![p] = x]
    <3>1. v7' = [q \in LinkPaths |-> IF q = p THEN x ELSE v7[q]]
      BY <2>1, <1>8
    <3> QED
      BY <3>1, <1>3, <1>8
  <2>2. CASE v7' = v7
    BY <2>2, <1>8
  <2> QED
    BY <2>1, <2>2, <1>1
<1>10. Library!Recorded'
  BY <1>1, <1>2, <1>9, RowsGo
<1>11. CASE v7' = (IF Library!Orphan(p) THEN [v7 EXCEPT ![p] = x] ELSE v7) /\ v10' = a
  <2>1. /\ v10' = [pc |-> v10'.pc, records |-> v10'.records, todo |-> v10'.todo, paths |-> v10'.paths,
                   drop |-> v10'.drop, start |-> v10'.start, whole |-> v10'.whole, due |-> v10'.due,
                   strays |-> v10'.strays]
        /\ v10'.pc = v10.pc /\ v10'.records = v10.records /\ v10'.todo = v10.todo /\ v10'.paths = paths
        /\ v10'.drop = v10.drop /\ v10'.start = v10.start /\ v10'.whole = v10.whole
        /\ v10'.due = v10.due /\ v10'.strays = v10.strays
    BY <1>5, <1>11, SweepReads
  <2>2. Library!SweepType'
    BY <2>1, <1>1, <1>2 DEF Library!SweepType
  <2>3. Library!DueIsAhead'
    BY <2>1, <1>1, <1>2 DEF Library!DueIsAhead
  <2>4. Library!StraysAreAhead'
    <3> SUFFICES ASSUME v10.whole, NEW q \in v10.strays, v7'[q].kind = "link"
                 PROVE  (\A w \in v10.records : w.path # q) /\ q \in paths /\ v10.start - v7'[q].at >= LinkGrace
      BY <2>1, <1>1 DEF Library!StraysAreAhead
    <3>1. q \in LinkPaths
      BY <1>2 DEF Library!SweepType
    <3>2. v7'[q] = v7[q]
      BY <3>1, <1>9
    <3>3. (\A w \in v10.records : w.path # q) /\ q \in v10.paths /\ v10.start - v7[q].at >= LinkGrace
      BY <3>2, <1>1, <1>2 DEF Library!StraysAreAhead
    <3>4. q # p
      <4>1. CASE q = p
        <5>1. Library!Orphan(p)
          BY <3>2, <3>3, <4>1 DEF Library!Orphan
        <5>2. v7'[p] = x
          BY <5>1, <1>8, <1>11
        <5> QED
          BY <5>2, <4>1, <1>3
      <4> QED
        BY <4>1
    <3> QED
      BY <3>2, <3>3, <3>4, <1>4
  <2> QED
    BY <2>2, <2>3, <2>4, <1>10
<1>12. CASE v7' = v7 /\ v10' = [a EXCEPT !.whole = FALSE]
  <2>1. /\ v10' = [pc |-> v10'.pc, records |-> v10'.records, todo |-> v10'.todo, paths |-> v10'.paths,
                   drop |-> v10'.drop, start |-> v10'.start, whole |-> v10'.whole, due |-> v10'.due,
                   strays |-> v10'.strays]
        /\ v10'.start = v10.start /\ v10'.whole = FALSE
        /\ v10'.due = v10.due /\ v10'.strays = v10.strays
    BY <1>7, <1>12 DEF SweepOf
  <2>2. Library!SweepType'
    BY <2>1, <1>1, <1>2 DEF Library!SweepType
  <2>3. Library!DueIsAhead' /\ Library!StraysAreAhead'
    BY <2>1 DEF Library!DueIsAhead, Library!StraysAreAhead
  <2> QED
    BY <2>2, <2>3, <1>10
<1> QED
  BY <1>1, <1>11, <1>12

\* Whatever happens between its passes, the sweep has ahead of it what it answers for.
LEMMA SweepSteps ==
  ASSUME Library!LinksInv, Library!Next
  PROVE  Library!Recorded' /\ Library!SweepType' /\ Library!DueIsAhead' /\ Library!StraysAreAhead'
<1> DEFINE Kept == Library!Recorded' /\ Library!SweepType' /\ Library!DueIsAhead' /\ Library!StraysAreAhead'
<1> SUFFICES Kept
  OBVIOUS
<1>1. /\ Library!Published /\ Library!Recorded /\ v1 \in Int
      /\ v7 \in [LinkPaths -> [kind : {"none", "link", "file"}, to : {0} \cup Library!Releases, at : Int]]
  BY DEF Library!LinksInv, Library!Published, Library!Recorded
<1>2. ASSUME v6' = v6, v5' \subseteq v5, v1' = v1 \/ v1' = v1 + 1, v7' = v7, v10' = v10 PROVE Kept
  BY <1>1, <1>2, OthersMove
<1>3. ASSUME NEW p \in LinkPaths, NEW k \in {"none", "file"}, NEW x, x = [kind |-> k, to |-> 0, at |-> 0],
             v7' = [v7 EXCEPT ![p] = x], UNCHANGED <<v1, v5, v6, v10>>
      PROVE  Kept
  <2>1. x \in [kind : {"none", "link", "file"}, to : {0} \cup Library!Releases, at : Int] /\ x.kind # "link"
    BY <1>3
  <2>2. v7' = [q \in LinkPaths |-> IF q = p THEN x ELSE v7[q]]
    BY <1>1, <1>3
  <2>3. /\ v7' \in [LinkPaths -> [kind : {"none", "link", "file"}, to : {0} \cup Library!Releases, at : Int]]
        /\ \A q \in LinkPaths : v7'[q] = v7[q] \/ v7'[q].kind # "link"
    BY <2>1, <2>2, <1>1
  <2> QED
    BY <2>3, <1>1, <1>3, OthersMove
<1> HIDE DEF Kept
<1>4. ASSUME NEW rs, Library!Delete(rs), UNCHANGED <<v1, v6, v7, v10>> PROVE Kept
  <2>1. v5' \subseteq v5
    BY <1>1, <1>4, DeleteKeeps
  <2> QED
    BY <2>1, <1>2, <1>4
<1>5. ASSUME NEW p \in LinkPaths, Library!Import(p) PROVE Kept
  BY <1>2, <1>5 DEF Library!Import
<1>6. ASSUME NEW r \in Library!Releases, Library!FailSelectedReleaseAndPromoteNext(r) PROVE Kept
  BY <1>4, <1>6 DEF Library!FailSelectedReleaseAndPromoteNext
<1>7. ASSUME NEW r \in Library!Releases, Library!PruneOrphanedSelectedReleases(r) PROVE Kept
  BY <1>4, <1>7 DEF Library!PruneOrphanedSelectedReleases
<1>8. CASE Library!Tick
  BY <1>2, <1>8 DEF Library!Tick
<1>9. ASSUME NEW p \in LinkPaths, NEW k \in {"none", "file"}, Library!Meddle(p, k) PROVE Kept
  <2>1. [Library!Nothing EXCEPT !.kind = k] = [kind |-> k, to |-> 0, at |-> 0]
    BY DEF Library!Nothing
  <2> QED
    BY <2>1, <1>3, <1>9 DEF Library!Meddle
<1>10. ASSUME NEW p \in LinkPaths, Library!Unlink(p) PROVE Kept
  BY <1>3, <1>10 DEF Library!Unlink, Library!Nothing
<1>11. ASSUME NEW r \in Library!Releases, Library!PublishSelectedRelease(r) PROVE Kept
  BY <1>2, <1>11 DEF Library!PublishSelectedRelease
<1>12. CASE Library!RepublishPendingLibrary \/ Library!RunHealthCheck \/ Library!RepublishLibraryItem
  BY <1>2, <1>12 DEF Library!RepublishPendingLibrary, Library!RunHealthCheck, Library!RepublishLibraryItem, Library!Republish
<1>13. ASSUME NEW p \in LinkSlots, Library!MarkReleaseAvailable(p) PROVE Kept
  BY <1>4, <1>13 DEF Library!MarkReleaseAvailable
<1>14. ASSUME NEW p \in LinkSlots, Library!Abandon(p) PROVE Kept
  BY <1>2, <1>14 DEF Library!Abandon
<1>15. CASE Library!DeleteSymlinkPublicationsForLibraryItem
  <2>1. v5' \subseteq v5 /\ UNCHANGED <<v1, v6, v7, v10>>
    BY <1>15 DEF Library!DeleteSymlinkPublicationsForLibraryItem
  <2> QED
    BY <2>1, <1>2
<1>16. CASE Library!ResetLibraryItemState
  <2>1. CASE Library!Delete({v4.selected})
    BY <2>1, <1>4, <1>16 DEF Library!ResetLibraryItemState
  <2>2. CASE v5' = v5
    BY <2>2, <1>2, <1>16 DEF Library!ResetLibraryItemState
  <2> QED
    BY <2>1, <2>2, <1>16 DEF Library!ResetLibraryItemState
<1>17. CASE Library!RunSymlinkMaintenance
  <2>1. Library!Recorded'
    <3>1. UNCHANGED <<v5, v6, v7>>
      BY <1>17 DEF Library!RunSymlinkMaintenance
    <3> QED
      BY <3>1, <1>1 DEF Library!Recorded
  <2> QED
    BY <2>1, <1>17, SweepBegins DEF Kept
<1>18. CASE Library!RebuildPublications
  <2>1. UNCHANGED <<v1, v5, v6, v7>> /\ v10' = Library!NoSweep
    BY <1>18 DEF Library!RebuildPublications
  <2>2. Library!Recorded'
    BY <2>1, <1>1 DEF Library!Recorded
  <2>3. Library!SweepType'
    BY <2>1 DEF Library!SweepType, Library!NoSweep
  <2>4. Library!DueIsAhead' /\ Library!StraysAreAhead'
    BY <2>1 DEF Library!DueIsAhead, Library!StraysAreAhead, Library!NoSweep
  <2> QED
    BY <2>2, <2>3, <2>4 DEF Kept
<1>19. ASSUME NEW p \in LinkSlots, Library!Publish(p) \/ Library!UpsertSymlinkPublication(p) PROVE Kept
  BY <1>19, LinkGoesUp, RowGoesUp DEF Kept
<1>20. ASSUME NEW w \in v10.todo, Library!RemoveBrokenMediaSymlinks(w) \/ Library!RemoveOrphanedCompletedSymlinks(w) PROVE Kept
  BY <1>20, BrokenGoes, CompletedGoes DEF Kept
<1>21. CASE Library!DeleteSymlinkPublication \/ Library!EndOfPass
  BY <1>21, DroppedGoes, PassEnds DEF Kept
<1>22. ASSUME NEW p \in LinkPaths, Library!RemoveOrphanedContent(p) PROVE Kept
  BY <1>22, ContentGoes DEF Kept
<1>23. CASE \E p \in LinkPaths : \/ Library!Import(p) \/ Library!Unlink(p) \/ Library!RemoveOrphanedContent(p)
                                \/ \E kind \in {"none", "file"} : Library!Meddle(p, kind)
  BY <1>23, <1>5, <1>9, <1>10, <1>22
<1>24. CASE \E r \in Library!Releases : \/ Library!FailSelectedReleaseAndPromoteNext(r)
                                       \/ Library!PruneOrphanedSelectedReleases(r) \/ Library!PublishSelectedRelease(r)
  BY <1>24, <1>6, <1>7, <1>11
<1>25. CASE \E p \in LinkSlots : \/ Library!Publish(p) \/ Library!UpsertSymlinkPublication(p)
                                \/ Library!MarkReleaseAvailable(p) \/ Library!Abandon(p)
  BY <1>25, <1>13, <1>14, <1>19
<1> QED
  BY <1>23, <1>24, <1>25, <1>8, <1>12, <1>15, <1>16, <1>17, <1>18, <1>20, <1>21 DEF Library!Next

\* So the invariant of the links is inductive.
LEMMA LinksStep ==
  ASSUME Library!LinksInv, Library!Next
  PROVE  Library!LinksInv'
BY PublishedSteps, SweepSteps DEF Library!LinksInv

\* And a sweep that is over has left nothing of what it had to answer for.
LEMMA SweepThorough == Library!LinksInv => Library!SweepIsThorough
BY DEF Library!LinksInv, Library!DueIsAhead, Library!StraysAreAhead, Library!SweepIsThorough

-----------------------------------------------------------------------------
(* The instance that runs. *)

\* What nothing happens to stays as it is.
LEMMA ArticleStays ==
  ASSUME Article!SourceInv, UNCHANGED <<v1, v2, v3, v4, v5>>
  PROVE  Article!SourceInv'
BY DEF Article!SourceInv, Article!FlightsAreLed, Article!LearntIsTrue, Article!DayMarkIsProof

LEMMA CopyStays ==
  ASSUME Decoded!ForgottenInv, UNCHANGED <<v1, v2, v3, v4, v5>>
  PROVE  Decoded!ForgottenInv'
BY DEF Decoded!ForgottenInv

LEMMA AheadStays ==
  ASSUME Ahead!AheadInv, UNCHANGED <<v1, v2, v3>>
  PROVE  Ahead!AheadInv'
BY DEF Ahead!AheadInv, Ahead!Registered, Ahead!NoOrphanWindow

LEMMA SessionsStay ==
  ASSUME Content!SessionsInv, UNCHANGED <<v6, v7>>
  PROVE  Content!SessionsInv'
BY DEF Content!SessionsInv, Content!SessionIsOfAReader

LEMMA SettingsStay ==
  ASSUME Live!SettingsInv, UNCHANGED <<v1, v2, v3, v4, v5, v6, v7, v8, v9, v10, v11>>
  PROVE  Live!SettingsInv'
BY DEF Live!SettingsInv, Live!Shapes, Live!WantIsDone, Live!OneTunnel, Live!TunnelOf, Live!OverTheRoute, Live!SavedIsRunning

LEMMA DiskStays ==
  ASSUME Disk!DiskInv, UNCHANGED <<v1, v2, v3, v4>>
  PROVE  Disk!DiskInv'
BY DEF Disk!DiskInv, Disk!Uses, Disk!Indexed, Disk!Range, Disk!IsFiniteSet

LEMMA LinksStay ==
  ASSUME Library!LinksInv, UNCHANGED <<v1, v2, v3, v4, v5, v6, v7, v8, v9, v10, v11>>
  PROVE  Library!LinksInv'
<1>1. Library!Published'
  BY PublishedStays DEF Library!LinksInv, Library!Published
<1>2. Library!Recorded' /\ Library!SweepType' /\ Library!DueIsAhead' /\ Library!StraysAreAhead'
  BY DEF Library!LinksInv, Library!Recorded, Library!SweepType, Library!DueIsAhead, Library!StraysAreAhead
<1> QED
  BY <1>1, <1>2 DEF Library!LinksInv

\* The component that runs is in a state its invariant allows.
ReadingInv ==
  /\ at = "article" => Article!SourceInv
  /\ at = "decoded" => Decoded!ForgottenInv
  /\ at = "ahead" => Ahead!AheadInv
  /\ at = "content" => Content!SessionsInv
  /\ at = "settings" => Live!SettingsInv
  /\ at = "disk" => Disk!DiskInv
  /\ at = "library" => Library!LinksInv

\* Only a component's own steps change its state, and no behaviour leaves its component.
LEMMA ReadingHolds == Spec => []ReadingInv
<1>1. Init => ReadingInv
  <2> SUFFICES ASSUME Init PROVE ReadingInv
    OBVIOUS
  <2>1. /\ at = "article" => Article!Init
        /\ at = "decoded" => Decoded!Init
        /\ at = "ahead" => Ahead!Init
        /\ at = "content" => Content!Init
        /\ at = "settings" => Live!Init
        /\ at = "disk" => Disk!Init
        /\ at = "library" => Library!Init
    BY DEF Init
  <2> QED
    BY <2>1, ArticleBegins, CopyBegins, AheadBegins, SessionsBegin, SettingsBegin, DiskBegins, LinksBegin DEF ReadingInv
<1>2. ReadingInv /\ [Next]_vars => ReadingInv'
  <2> SUFFICES ASSUME ReadingInv, [Next]_vars PROVE ReadingInv'
    OBVIOUS
  <2>1. CASE Next
    <3>1. at' = at
      BY <2>1 DEF Next
    <3>2. /\ at = "article" => Article!Next
          /\ at = "decoded" => Decoded!Next
          /\ at = "ahead" => Ahead!Next
          /\ at = "content" => Content!Next
          /\ at = "settings" => Live!Next
          /\ at = "disk" => Disk!Next
          /\ at = "library" => Library!Next
      BY <2>1 DEF Next
    <3> QED
      BY <3>1, <3>2, ArticleSteps, CopySteps, AheadSteps, SessionSteps, SettingsSteps, DiskSteps, LinksStep DEF ReadingInv
  <2>2. CASE UNCHANGED vars
    <3>1. at' = at /\ UNCHANGED <<v1, v2, v3, v4, v5, v6, v7, v8, v9, v10, v11, v12>>
      BY <2>2 DEF vars
    <3> QED
      BY <3>1, ArticleStays, CopyStays, AheadStays, SessionsStay, SettingsStay, DiskStays, LinksStay DEF ReadingInv
  <2> QED
    BY <2>1, <2>2
<1> QED
  BY <1>1, <1>2, PTL DEF Spec

\* However many callers ask for an article at once and however its lookups end, whoever
\* waits on a flight waits for one whose leader will close it.
THEOREM RidersHaveALeader == Spec => []RiderHasLeader
<1>1. ReadingInv => RiderHasLeader
  <2> SUFFICES ASSUME ReadingInv, at = "article", NEW c \in ArticleCallers, v5[c].pc = "wait"
               PROVE  LET f == v3[v5[c].kind] IN
                      /\ f # Article!NoFlight
                      /\ ~ f.done
                      /\ v5[f.leader].pc \in {"ask", "query", "mark", "close"}
                      /\ v5[f.leader].kind = v5[c].kind
    BY DEF RiderHasLeader, Article!RiderHasLeader
  <2>1. v5[c] \in Article!Lookups /\ Article!FlightsAreLed
    BY DEF ReadingInv, Article!SourceInv, Article!Procs
  <2>2. v5[c].kind \in ArticleKinds
    BY <2>1, LookupHolds
  <2> QED
    BY <2>1, <2>2 DEF Article!FlightsAreLed, Article!Leading
<1> QED
  BY <1>1, ReadingHolds, PTL

\* A day-long mark is never set for what a tripped breaker or a provider left out has
\* hidden, whatever the list of providers.
THEOREM DayMarksAreProofs == Spec => []DayMarkIsProof
<1>1. ReadingInv => DayMarkIsProof
  BY DEF ReadingInv, DayMarkIsProof, Article!SourceInv
<1> QED
  BY <1>1, ReadingHolds, PTL

\* A copy that a sole reader has rejected is in neither layer when its read fails.
THEOREM RejectedCopiesAreForgotten == Spec => []RejectedIsForgotten
<1>1. ReadingInv => RejectedIsForgotten
  <2> SUFFICES ASSUME ReadingInv, at = "decoded" PROVE Decoded!RejectedIsForgotten
    BY DEF RejectedIsForgotten
  <2>1. \A r \in {CopyReader} : v5[r].pc = "rejected" =>
          v5[r].body # Decoded!NoCopy /\ v1.body = Decoded!NoCopy /\ v2.body = Decoded!NoCopy
    BY DEF ReadingInv, Decoded!ForgottenInv, Decoded!HasBody, Decoded!Steps
  <2> QED
    BY <2>1 DEF Decoded!RejectedIsForgotten, Decoded!At
<1> QED
  BY <1>1, ReadingHolds, PTL

\* A window that fetches can be stopped, however many sessions and windows there are; a
\* read-ahead session is an open handle's; and an update of the settings, whatever fails
\* in it, leaves no session of an earlier route behind.
THEOREM WindowsAreHeld == Spec => []NoOrphanWindow
<1>1. ReadingInv => NoOrphanWindow
  <2>1. Live!SettingsInv => Live!SavedIsRunning /\ Live!NoOldRoute
    BY DEF Live!SettingsInv, Live!OneTunnel, Live!OverTheRoute, Live!NoOldRoute
  <2> QED
    BY <2>1 DEF ReadingInv, NoOrphanWindow, Ahead!AheadInv, Content!SessionsInv
<1> QED
  BY <1>1, ReadingHolds, PTL

\* However many goroutines write, read and evict, a finished or half-written file that is
\* not in the index is one of theirs to account for; and a storage maintenance that nothing
\* stopped leaves no row or link behind that was amiss when it began, whatever
\* publications, resets and failures came between its passes.
THEOREM FilesAreAccountedFor == Spec => []NoOrphanFile
<1>1. ReadingInv => NoOrphanFile
  <2>1. Disk!DiskInv => Disk!NoOrphanFile
    <3> SUFFICES ASSUME Disk!DiskInv, v3, NEW f \in v1, f \notin Disk!Indexed
                 PROVE  \E w \in DiskWorkers : \/ v4[w].pc \in {"rename", "index"} /\ v4[w].key = f[1]
                                               \/ v4[w].pc = "evict" /\ v4[w].victim = f
                                               \/ v4[w].pc = "remove" /\ Disk!Bin(v4[w].key) = f
      BY DEF Disk!NoOrphanFile
    <3>1. PICK w \in DiskWorkers : Disk!Holds(v4[w], f)
      BY DEF Disk!DiskInv
    <3> QED
      BY <3>1 DEF Disk!Holds, Disk!Bin, Disk!Tmp
  <2> QED
    BY <2>1, SweepThorough DEF ReadingInv, NoOrphanFile
<1> QED
  BY <1>1, ReadingHolds, PTL
=============================================================================
