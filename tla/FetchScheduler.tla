--------------------------- MODULE FetchScheduler ---------------------------
(***************************************************************************)
(* The scheduler in front of the providers (internal/nntp/scheduler.go):   *)
(* a bounded queue per priority tier and either a lane of workers for each *)
(* tier or one pool that serves them all in order.  A caller enqueues a    *)
(* request and waits for its answer or for its own context to end; a       *)
(* request whose caller has left stays where it is until a worker comes to *)
(* it.  A fetch may take for ever: nothing below says that it ends, but    *)
(* the fairness of the interactive lane.                                   *)
(***************************************************************************)
EXTENDS Integers, Sequences, FiniteSets, TLAPS

CONSTANTS
  Requests,            \* the requests that exist at one time
  InteractiveWorkers,
  ReadAheadWorkers,
  BackgroundWorkers,   \* 0: one pool for every tier
  QueueSize

VARIABLES
  queue,   \* the channels high, medium and low
  request, \* per request: unused, waited for, or abandoned by its caller
  worker,  \* per worker: where it is and the request it handles
  open     \* Close has not been called

schedulerVars == <<queue, request, worker, open>>

Tiers == {"high", "medium", "low"}

\* NewScheduledSourceLanes: what each worker serves.  The lane of read-ahead has a worker
\* at least.
ReadAheadLane == IF ReadAheadWorkers < 1 THEN 1 ELSE ReadAheadWorkers

Workers ==
  1 .. IF BackgroundWorkers > 0
       THEN InteractiveWorkers + ReadAheadLane + BackgroundWorkers
       ELSE InteractiveWorkers

M_Lane(w) ==
  IF BackgroundWorkers = 0 THEN Tiers
  ELSE IF w <= InteractiveWorkers + ReadAheadLane THEN {"high", "medium"}
  ELSE {"low"}

Lane(w) ==
  IF BackgroundWorkers = 0 THEN Tiers
  ELSE IF w <= InteractiveWorkers THEN {"high"}
  ELSE IF w <= InteractiveWorkers + ReadAheadLane THEN {"medium"}
  ELSE {"low"}

Looking(n) == [pc |-> "look", at |-> n]
Handled == {worker[w].req : w \in {v \in Workers : worker[v].pc \in {"taken", "fetch"}}}
Queued == UNION {{queue[t][i] : i \in DOMAIN queue[t]} : t \in Tiers}

TypeOK ==
  /\ \A t \in Tiers : queue[t] \in Seq(Requests) /\ Len(queue[t]) <= QueueSize
  /\ request \in [Requests -> {"unused", "waiting", "abandoned"}]
  /\ \A w \in Workers : worker[w].pc \in {"look", "taken", "fetch", "stopped"}
  /\ open \in BOOLEAN

Init ==
  /\ queue = [t \in Tiers |-> <<>>]
  /\ request = [r \in Requests |-> "unused"]
  /\ worker = [w \in Workers |-> Looking(1)]
  /\ open = TRUE

-----------------------------------------------------------------------------
\* A plausible bug: a caller that finds the queue full waits all the same.
M_Enqueue(r, t) ==
  /\ request[r] = "unused"
  /\ request' = [request EXCEPT ![r] = "waiting"]
  /\ queue' = IF Len(queue[t]) < QueueSize THEN [queue EXCEPT ![t] = Append(@, r)] ELSE queue
  /\ UNCHANGED <<worker, open>>

\* Another: the queue is as long as it needs to be.
M_EnqueueAlways(r, t) ==
  /\ request[r] = "unused"
  /\ request' = [request EXCEPT ![r] = "waiting"]
  /\ queue' = [queue EXCEPT ![t] = Append(@, r)]
  /\ UNCHANGED <<worker, open>>

\* BodyPriority and Stat: into the queue, or ErrSchedulerQueueFull.
Enqueue(r, t) ==
  /\ request[r] = "unused"
  /\ IF Len(queue[t]) < QueueSize
     THEN /\ request' = [request EXCEPT ![r] = "waiting"]
          /\ queue' = [queue EXCEPT ![t] = Append(@, r)]
     ELSE UNCHANGED <<request, queue>>
  /\ UNCHANGED <<worker, open>>

\* The caller's context ends.
Leave(r) ==
  /\ request[r] = "waiting"
  /\ request' = [request EXCEPT ![r] = "abandoned"]
  /\ UNCHANGED <<queue, worker, open>>

\* next, for the shared pool: first the high queue alone, then high and medium, then
\* whatever comes; a lane's worker waits on its own queue.
SharedLook(n) == CASE n = 1 -> {"high"} [] n = 2 -> {"high", "medium"} [] n = 3 -> Tiers
Looks(w) == IF Lane(w) = Tiers THEN SharedLook(worker[w].at) ELSE Lane(w)

Take(w, t) ==
  /\ worker[w].pc = "look"
  /\ t \in Looks(w)
  /\ queue[t] # <<>>
  /\ worker' = [worker EXCEPT ![w] = [pc |-> "taken", req |-> Head(queue[t])]]
  /\ queue' = [queue EXCEPT ![t] = Tail(@)]
  /\ UNCHANGED <<request, open>>

LookFurther(w) ==
  /\ worker[w].pc = "look"
  /\ Lane(w) = Tiers /\ worker[w].at < 3
  /\ \A t \in Looks(w) : queue[t] = <<>>
  /\ worker' = [worker EXCEPT ![w].at = @ + 1]
  /\ UNCHANGED <<queue, request, open>>

\* handleRequestProtected: nothing is fetched for a caller that has left.
Begin(w) ==
  LET r == worker[w].req IN
  /\ worker[w].pc = "taken"
  /\ IF request[r] = "abandoned"
     THEN /\ worker' = [worker EXCEPT ![w] = Looking(1)]
          /\ request' = [request EXCEPT ![r] = "unused"]
     ELSE /\ worker' = [worker EXCEPT ![w].pc = "fetch"]
          /\ UNCHANGED request
  /\ UNCHANGED <<queue, open>>

\* The fetch ends and its result goes to the caller, or to nobody.
Answer(w) ==
  /\ worker[w].pc = "fetch"
  /\ worker' = [worker EXCEPT ![w] = Looking(1)]
  /\ request' = [request EXCEPT ![worker[w].req] = "unused"]
  /\ UNCHANGED <<queue, open>>

Close ==
  /\ open
  /\ open' = FALSE
  /\ UNCHANGED <<queue, request, worker>>

\* A worker that waits sees the cancelled context; one that finds a request may still
\* take it.
Exit(w) ==
  /\ ~ open
  /\ worker[w].pc = "look"
  /\ Lane(w) = Tiers => worker[w].at = 3
  /\ worker' = [worker EXCEPT ![w] = [pc |-> "stopped"]]
  /\ UNCHANGED <<queue, request, open>>

Serve(w) ==
  \/ \E t \in Tiers : Take(w, t)
  \/ LookFurther(w)
  \/ Begin(w)
  \/ Answer(w)

Next ==
  \/ \E r \in Requests : Leave(r) \/ \E t \in Tiers : Enqueue(r, t)
  \/ \E w \in Workers : Serve(w) \/ Exit(w)
  \/ Close

\* Only the interactive lane is fair: read-ahead and background fetches may hang.
Fairness == \A w \in 1 .. InteractiveWorkers : WF_schedulerVars(Serve(w))

Spec == Init /\ [][Next]_schedulerVars /\ Fairness

-----------------------------------------------------------------------------
\* A caller that waits has its request in one queue or in the hands of one worker, and
\* no worker handles a request that is queued too: no answer is lost and none is
\* given twice, however callers leave and workers take over.
NoLostRequest ==
  /\ \A r \in Requests : request[r] # "unused" <=> r \in Queued \cup Handled
  /\ Queued \cap Handled = {}
  /\ \A v, w \in Workers : (v # w /\ worker[v].pc \in {"taken", "fetch"}
                             /\ worker[w].pc \in {"taken", "fetch"}) => worker[v].req # worker[w].req

\* A player's read is served whatever read-ahead and background work is doing, hanging
\* included: it is answered, given up by its caller, or the scheduler is closed
\* (scheduler.go:48-61).
InteractiveServed ==
  \A r \in Requests :
    (request[r] = "waiting" /\ \E i \in DOMAIN queue["high"] : queue["high"][i] = r) ~> (request[r] # "waiting" \/ ~ open)
-----------------------------------------------------------------------------
(***************************************************************************)
(* What NoLostRequest rests on: a request is queued at most once, in one   *)
(* place of one queue.  The lemmas hold for lanes and for a shared pool of *)
(* any number of workers; Services_proofs cites them for both.             *)
(***************************************************************************)
Worker ==
  [pc : {"look"}, at : 1 .. 3] \cup [pc : {"taken", "fetch"}, req : Requests] \cup [pc : {"stopped"}]

Shapes ==
  /\ queue \in [Tiers -> Seq(Requests)]
  /\ request \in [Requests -> {"unused", "waiting", "abandoned"}]
  /\ worker \in [Workers -> Worker]

QueuedOnce ==
  \A t, u \in Tiers : \A i \in DOMAIN queue[t], j \in DOMAIN queue[u] : queue[t][i] = queue[u][j] => t = u /\ i = j

SchedulerInv == Shapes /\ QueuedOnce /\ NoLostRequest

IsQueued(r) == \E t \in Tiers : \E i \in DOMAIN queue[t] : queue[t][i] = r
IsHandled(r) == \E w \in Workers : worker[w].pc \in {"taken", "fetch"} /\ worker[w].req = r
HandledOnce ==
  \A v, w \in Workers : (v # w /\ worker[v].pc \in {"taken", "fetch"}
                          /\ worker[w].pc \in {"taken", "fetch"}) => worker[v].req # worker[w].req
InOnePlace ==
  /\ \A r \in Requests : /\ request[r] # "unused" <=> IsQueued(r) \/ IsHandled(r)
                         /\ ~(IsQueued(r) /\ IsHandled(r))
  /\ HandledOnce

\* NoLostRequest, place by place.
LEMMA PlaceByPlace == ASSUME Shapes PROVE NoLostRequest <=> InOnePlace
<1>1. \A r : r \in Queued <=> IsQueued(r)
  BY DEF Queued, IsQueued
<1>2. \A r : r \in Handled <=> IsHandled(r)
  BY DEF Handled, IsHandled
<1>3. \A r : IsHandled(r) => r \in Requests
  BY DEF Shapes, IsHandled, Worker
<1> QED
  BY <1>1, <1>2, <1>3 DEF NoLostRequest, InOnePlace, HandledOnce

\* A request that was not queued is appended to one queue.
LEMMA QueueGrows ==
  ASSUME Shapes, QueuedOnce, NEW t \in Tiers, NEW r \in Requests, ~IsQueued(r),
         queue' = [queue EXCEPT ![t] = Append(@, r)]
  PROVE  queue' \in [Tiers -> Seq(Requests)] /\ QueuedOnce' /\ \A q : IsQueued(q)' <=> IsQueued(q) \/ q = r
<1>1. queue[t] \in Seq(Requests) /\ queue' = [queue EXCEPT ![t] = Append(queue[t], r)]
  BY DEF Shapes
<1>2. /\ Append(queue[t], r) \in Seq(Requests)
      /\ DOMAIN Append(queue[t], r) = DOMAIN queue[t] \cup {Len(queue[t]) + 1}
      /\ Len(queue[t]) + 1 \notin DOMAIN queue[t]
      /\ \A i \in DOMAIN queue[t] : Append(queue[t], r)[i] = queue[t][i]
      /\ Append(queue[t], r)[Len(queue[t]) + 1] = r
  BY <1>1
<1> DEFINE s == Append(queue[t], r)  n == Len(queue[t]) + 1
<1>3. queue' \in [Tiers -> Seq(Requests)] /\ queue'[t] = s /\ \A u \in Tiers \ {t} : queue'[u] = queue[u]
  BY <1>1, <1>2 DEF Shapes
<1>4. /\ DOMAIN s = DOMAIN queue[t] \cup {n} /\ n \notin DOMAIN queue[t]
      /\ s[n] = r /\ \A i \in DOMAIN queue[t] : s[i] = queue[t][i]
  BY <1>2
<1> HIDE DEF s, n
<1>5. \A q : IsQueued(q)' <=> IsQueued(q) \/ q = r
  BY <1>3, <1>4 DEF IsQueued
<1>6. QueuedOnce'
  <2> SUFFICES ASSUME NEW u \in Tiers, NEW x \in Tiers, NEW i \in DOMAIN queue'[u], NEW j \in DOMAIN queue'[x],
                      queue'[u][i] = queue'[x][j]
               PROVE  u = x /\ i = j
    BY DEF QueuedOnce
  <2>1. \A y \in Tiers : \A k \in DOMAIN queue'[y] :
          \/ k \in DOMAIN queue[y] /\ queue'[y][k] = queue[y][k] /\ queue[y][k] # r
          \/ y = t /\ k = n /\ queue'[y][k] = r
    BY <1>3, <1>4 DEF IsQueued
  <2> QED
    BY <2>1 DEF QueuedOnce
<1> QED
  BY <1>3, <1>5, <1>6

\* The first request of a queue is taken from it.
LEMMA QueueShrinks ==
  ASSUME Shapes, QueuedOnce, NEW t \in Tiers, queue[t] # <<>>, queue' = [queue EXCEPT ![t] = Tail(@)]
  PROVE  /\ queue' \in [Tiers -> Seq(Requests)] /\ QueuedOnce'
         /\ Head(queue[t]) \in Requests /\ IsQueued(Head(queue[t]))
         /\ \A q : IsQueued(q)' <=> IsQueued(q) /\ q # Head(queue[t])
<1> DEFINE s == Tail(queue[t])  h == Head(queue[t])
<1>1. queue[t] \in Seq(Requests) /\ queue' = [queue EXCEPT ![t] = s]
  BY DEF Shapes
<1>2. /\ s \in Seq(Requests) /\ h \in Requests /\ h = queue[t][1] /\ 1 \in DOMAIN queue[t]
      /\ \A i \in DOMAIN s : i \in Int /\ i + 1 \in DOMAIN queue[t] /\ i + 1 # 1 /\ s[i] = queue[t][i + 1]
      /\ \A i \in DOMAIN queue[t] : i = 1 \/ (i - 1 \in DOMAIN s /\ s[i - 1] = queue[t][i])
  BY <1>1
<1>3. queue' \in [Tiers -> Seq(Requests)] /\ queue'[t] = s /\ \A u \in Tiers \ {t} : queue'[u] = queue[u]
  BY <1>1, <1>2 DEF Shapes
<1> HIDE DEF s, h
<1>4. IsQueued(h)
  BY <1>2 DEF IsQueued
<1>5. QueuedOnce'
  <2> SUFFICES ASSUME NEW u \in Tiers, NEW x \in Tiers, NEW i \in DOMAIN queue'[u], NEW j \in DOMAIN queue'[x],
                      queue'[u][i] = queue'[x][j]
               PROVE  u = x /\ i = j
    BY DEF QueuedOnce
  <2>1. CASE u = t /\ x = t
    BY <1>2, <1>3, <2>1 DEF QueuedOnce
  <2>2. CASE u = t /\ x # t
    BY <1>2, <1>3, <2>2 DEF QueuedOnce
  <2>3. CASE u # t /\ x = t
    BY <1>2, <1>3, <2>3 DEF QueuedOnce
  <2>4. CASE u # t /\ x # t
    BY <1>3, <2>4 DEF QueuedOnce
  <2> QED
    BY <2>1, <2>2, <2>3, <2>4
<1>6. ASSUME NEW q PROVE IsQueued(q)' <=> IsQueued(q) /\ q # h
  <2>1. ASSUME NEW u \in Tiers, NEW i \in DOMAIN queue'[u], queue'[u][i] = q
        PROVE  IsQueued(q) /\ q # h
    <3>1. CASE u = t
      BY <1>2, <1>3, <2>1, <3>1 DEF IsQueued, QueuedOnce
    <3>2. CASE u # t
      BY <1>2, <1>3, <2>1, <3>2 DEF IsQueued, QueuedOnce
    <3> QED
      BY <3>1, <3>2
  <2>2. ASSUME NEW u \in Tiers, NEW i \in DOMAIN queue[u], queue[u][i] = q, q # h
        PROVE  IsQueued(q)'
    <3>1. CASE u = t
      BY <1>2, <1>3, <2>2, <3>1 DEF IsQueued
    <3>2. CASE u # t
      BY <1>3, <2>2, <3>2 DEF IsQueued
    <3> QED
      BY <3>1, <3>2
  <2> QED
    BY <2>1, <2>2 DEF IsQueued
<1> QED
  BY <1>2, <1>3, <1>4, <1>5, <1>6 DEF h

\* Nothing is queued, and no worker has anything.
LEMMA SchedulerBegins == ASSUME Init PROVE SchedulerInv
<1> USE DEF Init, Looking
<1>1. Shapes /\ QueuedOnce
  BY DEF Shapes, QueuedOnce, Worker
<1>2. InOnePlace
  BY DEF InOnePlace, HandledOnce, IsQueued, IsHandled
<1> QED
  BY <1>1, <1>2, PlaceByPlace DEF SchedulerInv

\* However callers leave and workers take over, every step keeps the requests apart.
LEMMA SchedulerSteps == ASSUME SchedulerInv, Next PROVE SchedulerInv'
<1>1. Shapes /\ QueuedOnce /\ InOnePlace
  BY PlaceByPlace DEF SchedulerInv
<1>2. ASSUME Shapes', QueuedOnce', InOnePlace' PROVE SchedulerInv'
  <2>1. NoLostRequest'
    BY <1>2, PlaceByPlace, PTL
  <2> QED
    BY <1>2, <2>1 DEF SchedulerInv
<1>3. ASSUME UNCHANGED queue PROVE (\A q : IsQueued(q)' <=> IsQueued(q)) /\ QueuedOnce'
  BY <1>1, <1>3 DEF IsQueued, QueuedOnce
<1>4. ASSUME UNCHANGED worker PROVE (\A q : IsHandled(q)' <=> IsHandled(q)) /\ HandledOnce'
  BY <1>1, <1>4 DEF IsHandled, InOnePlace, HandledOnce
<1>5. ASSUME NEW w \in Workers, NEW x \in Worker, x.pc \notin {"taken", "fetch"}, worker[w].pc \notin {"taken", "fetch"},
             worker' = [worker EXCEPT ![w] = x]
      PROVE  worker' \in [Workers -> Worker] /\ (\A q : IsHandled(q)' <=> IsHandled(q)) /\ HandledOnce'
  BY <1>1, <1>5 DEF Shapes, IsHandled, InOnePlace, HandledOnce
<1>6. ASSUME NEW w \in Workers, worker[w].pc \in {"taken", "fetch"}, worker' = [worker EXCEPT ![w] = Looking(1)]
      PROVE  /\ worker' \in [Workers -> Worker] /\ HandledOnce'
             /\ \A q : IsHandled(q)' <=> IsHandled(q) /\ q # worker[w].req
  <2>1. Looking(1) \in Worker /\ Looking(1).pc = "look"
    BY DEF Looking, Worker
  <2> QED
    BY <1>1, <1>6, <2>1 DEF Shapes, IsHandled, InOnePlace, HandledOnce
<1>7. ASSUME NEW r \in Requests, Leave(r)
      PROVE  SchedulerInv'
  <2>1. Shapes' /\ \A q \in Requests : request'[q] # "unused" <=> request[q] # "unused"
    BY <1>1, <1>7 DEF Leave, Shapes
  <2> QED
    BY <1>1, <1>2, <1>3, <1>4, <1>7, <2>1 DEF Leave, InOnePlace
<1>8. ASSUME NEW r \in Requests, NEW t \in Tiers, Enqueue(r, t)
      PROVE  SchedulerInv'
  <2>1. CASE Len(queue[t]) < QueueSize
    <3>1. ~IsQueued(r) /\ ~IsHandled(r) /\ queue' = [queue EXCEPT ![t] = Append(@, r)]
      BY <1>1, <1>8, <2>1 DEF Enqueue, InOnePlace
    <3>2. queue' \in [Tiers -> Seq(Requests)] /\ QueuedOnce' /\ \A q : IsQueued(q)' <=> IsQueued(q) \/ q = r
      BY <1>1, <3>1, QueueGrows
    <3>3. /\ request' \in [Requests -> {"unused", "waiting", "abandoned"}] /\ worker' = worker
          /\ request'[r] = "waiting" /\ \A q \in Requests \ {r} : request'[q] = request[q]
      BY <1>1, <1>8, <2>1 DEF Enqueue, Shapes
    <3>4. Shapes' /\ InOnePlace'
      BY <1>1, <1>4, <3>1, <3>2, <3>3 DEF Shapes, InOnePlace
    <3> QED
      BY <1>2, <3>2, <3>4
  <2>2. CASE ~(Len(queue[t]) < QueueSize)
    <3>1. UNCHANGED <<queue, request, worker>>
      BY <1>8, <2>2 DEF Enqueue
    <3> QED
      BY <1>1, <1>2, <1>3, <1>4, <3>1 DEF Shapes, InOnePlace
  <2> QED
    BY <2>1, <2>2
<1>9. ASSUME NEW w \in Workers, NEW t \in Tiers, Take(w, t)
      PROVE  SchedulerInv'
  <2> DEFINE h == Head(queue[t])
  <2>1. /\ queue' \in [Tiers -> Seq(Requests)] /\ QueuedOnce' /\ h \in Requests /\ IsQueued(h)
        /\ \A q : IsQueued(q)' <=> IsQueued(q) /\ q # h
    BY <1>1, <1>9, QueueShrinks DEF Take
  <2>2. worker[w].pc = "look" /\ worker' = [worker EXCEPT ![w] = [pc |-> "taken", req |-> h]] /\ request' = request
    BY <1>9 DEF Take
  <2>3. [pc |-> "taken", req |-> h] \in Worker
    BY <2>1 DEF Worker
  <2> HIDE DEF h
  <2>4. Shapes'
    BY <1>1, <2>1, <2>2, <2>3 DEF Shapes
  <2>5. worker'[w].pc = "taken" /\ worker'[w].req = h /\ \A v \in Workers \ {w} : worker'[v] = worker[v]
    BY <1>1, <2>2 DEF Shapes
  <2>6. \A q : IsHandled(q)' <=> IsHandled(q) \/ q = h
    BY <2>2, <2>5 DEF IsHandled
  <2>7. ~IsHandled(h)
    BY <1>1, <2>1 DEF InOnePlace
  <2>8. HandledOnce'
    BY <1>1, <2>5, <2>7 DEF HandledOnce, IsHandled, InOnePlace
  <2>9. InOnePlace'
    BY <1>1, <2>1, <2>2, <2>6, <2>7, <2>8 DEF InOnePlace
  <2> QED
    BY <1>2, <2>1, <2>4, <2>9
<1>10. ASSUME NEW w \in Workers, LookFurther(w)
       PROVE  SchedulerInv'
  <2>1. worker[w] \in Worker /\ worker[w].pc = "look" /\ worker[w].at < 3 /\ UNCHANGED <<queue, request>>
    BY <1>1, <1>10 DEF LookFurther, Shapes
  <2>2. [worker[w] EXCEPT !.at = worker[w].at + 1] \in Worker /\ [worker[w] EXCEPT !.at = worker[w].at + 1].pc = "look"
    BY <2>1 DEF Worker
  <2>3. worker' = [worker EXCEPT ![w] = [worker[w] EXCEPT !.at = worker[w].at + 1]]
    BY <1>1, <1>10 DEF LookFurther, Shapes
  <2>4. worker' \in [Workers -> Worker] /\ (\A q : IsHandled(q)' <=> IsHandled(q)) /\ HandledOnce'
    BY <1>5, <2>1, <2>2, <2>3
  <2> QED
    BY <1>1, <1>2, <1>3, <2>1, <2>4 DEF Shapes, InOnePlace
<1>11. ASSUME NEW w \in Workers, Begin(w) \/ Answer(w)
       PROVE  SchedulerInv'
  <2> DEFINE r == worker[w].req
  <2>1. /\ worker[w].pc \in {"taken", "fetch"} /\ r \in Requests /\ queue' = queue
        /\ \/ worker' = [worker EXCEPT ![w] = Looking(1)] /\ request' = [request EXCEPT ![r] = "unused"]
           \/ worker' = [worker EXCEPT ![w].pc = "fetch"] /\ request' = request
    BY <1>1, <1>11 DEF Begin, Answer, Shapes, Worker
  <2>2. CASE worker' = [worker EXCEPT ![w] = Looking(1)] /\ request' = [request EXCEPT ![r] = "unused"]
    <3>1. /\ worker' \in [Workers -> Worker] /\ HandledOnce'
          /\ \A q : IsHandled(q)' <=> IsHandled(q) /\ q # r
      BY <1>6, <2>1, <2>2
    <3>2. IsHandled(r) /\ ~IsQueued(r)
      BY <1>1, <2>1 DEF IsHandled, InOnePlace
    <3>3. /\ request' \in [Requests -> {"unused", "waiting", "abandoned"}]
          /\ request'[r] = "unused" /\ \A q \in Requests \ {r} : request'[q] = request[q]
      BY <1>1, <2>1, <2>2 DEF Shapes
    <3> HIDE DEF r
    <3>4. Shapes' /\ InOnePlace'
      BY <1>1, <1>3, <2>1, <3>1, <3>2, <3>3 DEF Shapes, InOnePlace
    <3> QED
      BY <1>2, <1>3, <2>1, <3>4
  <2>3. CASE worker' = [worker EXCEPT ![w].pc = "fetch"] /\ request' = request
    <3>1. worker[w] = [pc |-> worker[w].pc, req |-> r]
      BY <1>1, <2>1 DEF Shapes, Worker
    <3>2. worker' = [worker EXCEPT ![w] = [pc |-> "fetch", req |-> r]]
      <4>1. worker' = [worker EXCEPT ![w] = [worker[w] EXCEPT !.pc = "fetch"]]
        BY <1>1, <2>3 DEF Shapes
      <4>2. [worker[w] EXCEPT !.pc = "fetch"] = [pc |-> "fetch", req |-> r]
        BY <3>1
      <4> QED
        BY <4>1, <4>2
    <3>3. [pc |-> "fetch", req |-> r] \in Worker
      BY <2>1 DEF Worker
    <3>4. /\ worker' \in [Workers -> Worker] /\ worker'[w].pc = "fetch" /\ worker'[w].req = r
          /\ \A v \in Workers \ {w} : worker'[v] = worker[v]
      BY <1>1, <3>2, <3>3 DEF Shapes
    <3>5. \A q : IsHandled(q)' <=> IsHandled(q)
      BY <2>1, <3>4 DEF IsHandled
    <3>6. HandledOnce'
      BY <1>1, <2>1, <3>4 DEF HandledOnce, InOnePlace
    <3> QED
      BY <1>1, <1>2, <1>3, <2>1, <2>3, <3>4, <3>5, <3>6 DEF Shapes, InOnePlace
  <2> QED
    BY <2>1, <2>2, <2>3
<1>12. ASSUME NEW w \in Workers, Exit(w)
       PROVE  SchedulerInv'
  <2>1. [pc |-> "stopped"] \in Worker
    BY DEF Worker
  <2>2. /\ worker[w].pc = "look" /\ worker' = [worker EXCEPT ![w] = [pc |-> "stopped"]]
        /\ UNCHANGED <<queue, request>>
    BY <1>12 DEF Exit
  <2>3. worker' \in [Workers -> Worker] /\ (\A q : IsHandled(q)' <=> IsHandled(q)) /\ HandledOnce'
    BY <1>5, <2>1, <2>2
  <2> QED
    BY <1>1, <1>2, <1>3, <2>2, <2>3 DEF Shapes, InOnePlace
<1>13. ASSUME UNCHANGED <<queue, request, worker>>
       PROVE  SchedulerInv'
  BY <1>1, <1>2, <1>3, <1>4, <1>13 DEF Shapes, InOnePlace
<1> QED
  BY <1>7, <1>8, <1>9, <1>10, <1>11, <1>12, <1>13 DEF Next, Serve, Close

\* A scheduler at rest.
LEMMA SchedulerStays == ASSUME SchedulerInv, UNCHANGED <<queue, request, worker>> PROVE SchedulerInv'
<1>1. UNCHANGED queue /\ UNCHANGED request /\ UNCHANGED worker
  OBVIOUS
<1>2. Shapes /\ QueuedOnce /\ InOnePlace
  BY PlaceByPlace DEF SchedulerInv
<1>3. Shapes' /\ QueuedOnce'
  BY <1>1, <1>2 DEF Shapes, QueuedOnce
<1>4. InOnePlace'
  BY <1>1, <1>2 DEF InOnePlace, HandledOnce, IsQueued, IsHandled
<1>5. NoLostRequest'
  BY <1>3, <1>4, PlaceByPlace, PTL
<1> QED
  BY <1>3, <1>5 DEF SchedulerInv
=============================================================================
