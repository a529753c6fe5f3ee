------------------------- MODULE DownloadDispatcher -------------------------
(***************************************************************************)
(* The in-memory queue of downloads: internal/workflow/service.go, types   *)
(* downloadDispatcher and downloadJob, and the goroutines around them.     *)
(*                                                                         *)
(* Callers (HTTP handlers, the passive sweep, batch retries) submit a      *)
(* selected release; RunDownloadWorker goroutines take the jobs by         *)
(* priority.  A worker whose release fails promotes the item's next        *)
(* candidate and goes on with that one inline, on its own stack, after     *)
(* claiming it.  The map inFlight is what keeps two goroutines off one     *)
(* release; the one-place channel `signal' is what wakes a parked worker.  *)
(*                                                                         *)
(* What happens to a release while a worker is on it is one step with an   *)
(* arbitrary outcome; a panic ends it like a failure, since the deferred   *)
(* calls and RecoverWithCleanup unwind the same claims.  The end of the    *)
(* process (ctx.Done() in next) is not modelled.                           *)
(***************************************************************************)
EXTENDS Integers, Sequences, FiniteSets, SequencesExt

CONSTANTS
  Releases,  \* ids of selected_releases rows
  Stored,    \* those whose NZB came by upload: ExternalURL is empty
  Callers,   \* goroutines that call fetchAndImportSelectedRelease
  Workers,   \* RunDownloadWorker goroutines
  MaxDepth   \* maxInlineFallbackDepth

ASSUME DispatcherAssumption ==
  /\ Stored \subseteq Releases
  /\ MaxDepth \in Nat

VARIABLES
  queue,     \* the waiting jobs, in the order they were submitted
  signal,    \* len(d.signal), 0 or 1
  inFlight,  \* the keys of d.inFlight, with how each got there
  cancelled, \* the releases whose job context is cancelled
  caller,    \* what each caller is doing
  worker,    \* where each worker is
  stack      \* the releases each worker is on, the innermost last

vars == <<queue, signal, inFlight, cancelled, caller, worker, stack>>

(***************************************************************************)
(* A job remembers the effective priority it was last sorted by.  The code *)
(* keeps its slice sorted by (rank, enqueuedAt); here the slice is in the  *)
(* order of enqueuedAt and Least picks by rank, which is the same job.     *)
(***************************************************************************)
Job == [rel : Releases, priority : 0 .. 1, aged : BOOLEAN, rank : 0 .. 1]
Idle == [pc |-> "idle"]
\* waits is FALSE once the caller has no result to wait for: it is asynchronous,
\* or the result is already in its resultCh.
CallerState == {Idle} \cup [pc : {"signal", "wait"}, rel : Releases, waits : BOOLEAN]

Entry == [rel : Releases, claimed : BOOLEAN]
WorkerPC == {"look", "checked", "parked", "start", "work", "unwind"}

TypeOK ==
  /\ queue \in Seq(Job)
  /\ signal \in 0 .. 1
  /\ inFlight \in [Releases -> {"no", "job", "inline"}]
  /\ cancelled \subseteq Releases
  /\ caller \in [Callers -> CallerState]
  /\ worker \in [Workers -> WorkerPC]
  /\ stack \in [Workers -> Seq(Entry)]

Init ==
  /\ queue = <<>>
  /\ signal = 0
  /\ inFlight = [r \in Releases |-> "no"]
  /\ cancelled = {}
  /\ caller = [c \in Callers |-> Idle]
  /\ worker = [w \in Workers |-> "look"]
  /\ stack = [w \in Workers |-> <<>>]

-----------------------------------------------------------------------------
(* Callers. *)

\* Each definition named M_D is a mutant of D, a mistake its properties must notice.
M_effectivePriority(job) == job.priority

\* effectiveDownloadPriority: five minutes in the queue make any job urgent.
effectivePriority(job) == IF job.aged THEN 0 ELSE job.priority

Sorted(q) == [i \in DOMAIN q |-> [q[i] EXCEPT !.rank = effectivePriority(q[i])]]

\* submit, up to the unlock.  A release already in flight is refused, and the
\* caller returns at once.  Priority 1 is a background caller's.
Submit(c, r, priority, async) ==
  /\ caller[c] = Idle
  /\ async => priority = 0
  /\ inFlight[r] = "no"
  /\ inFlight' = [inFlight EXCEPT ![r] = "job"]
  /\ cancelled' = cancelled \ {r}
  /\ queue' = Sorted(Append(queue, [rel |-> r, priority |-> priority, aged |-> FALSE, rank |-> priority]))
  /\ caller' = [caller EXCEPT ![c] = [pc |-> "signal", rel |-> r, waits |-> ~ async]]
  /\ UNCHANGED <<signal, worker, stack>>

\* The channel has no buffer: what nobody is parked for is dropped.
M_Send ==
  /\ signal' = signal
  /\ IF \E w \in Workers : worker[w] = "parked"
     THEN \E w \in Workers : worker[w] = "parked" /\ worker' = [worker EXCEPT ![w] = "look"]
     ELSE worker' = worker

\* The channel has room for more than one signal.
M_SendMany ==
  /\ signal' = signal + 1
  /\ worker' = worker

\* The non-blocking send: handed to a parked worker, else buffered, else dropped.
Send ==
  IF \E w \in Workers : worker[w] = "parked"
  THEN /\ \E w \in Workers : worker[w] = "parked" /\ worker' = [worker EXCEPT ![w] = "look"]
       /\ signal' = signal
  ELSE /\ signal' = 1
       /\ worker' = worker

\* submit's send, after the unlock; a synchronous caller then waits.
Signal(c) ==
  /\ caller[c].pc = "signal"
  /\ Send
  /\ caller' = [caller EXCEPT ![c] = IF caller[c].waits THEN [caller[c] EXCEPT !.pc = "wait"] ELSE Idle]
  /\ UNCHANGED <<queue, inFlight, cancelled, stack>>

\* A waiting caller's context ends, and with it the context of its job.
GiveUp(c) ==
  /\ caller[c].pc = "wait"
  /\ cancelled' = cancelled \cup {caller[c].rel}
  /\ caller' = [caller EXCEPT ![c] = Idle]
  /\ UNCHANGED <<queue, signal, inFlight, worker, stack>>

\* PauseQueueItem's call of cancel; on an inline claim it does nothing.
Cancel(r) ==
  /\ inFlight[r] = "job"
  /\ cancelled' = cancelled \cup {r}
  /\ UNCHANGED <<queue, signal, inFlight, caller, worker, stack>>

\* Five minutes pass for a waiting job.
Age(i) ==
  /\ ~ queue[i].aged
  /\ queue' = [queue EXCEPT ![i].aged = TRUE]
  /\ UNCHANGED <<signal, inFlight, cancelled, caller, worker, stack>>

-----------------------------------------------------------------------------
(* Workers. *)

Least(q, i) == \A j \in DOMAIN q : q[i].rank < q[j].rank \/ (q[i].rank = q[j].rank /\ i <= j)

\* next finds a job under the mutex.
Take(w) ==
  /\ worker[w] = "look"
  /\ \E i \in DOMAIN queue :
       /\ Least(queue, i)
       /\ queue' = RemoveAt(queue, i)
       /\ stack' = [stack EXCEPT ![w] = <<[rel |-> queue[i].rel, claimed |-> TRUE]>>]
  /\ worker' = [worker EXCEPT ![w] = "start"]
  /\ UNCHANGED <<signal, inFlight, cancelled, caller>>

\* next finds none, and unlocks.
FindNone(w) ==
  /\ worker[w] = "look"
  /\ queue = <<>>
  /\ worker' = [worker EXCEPT ![w] = "checked"]
  /\ UNCHANGED <<queue, signal, inFlight, cancelled, caller, stack>>

\* next's select: a buffered signal sends it round the loop, else it parks.
Receive(w) ==
  /\ worker[w] = "checked"
  /\ signal' = 0
  /\ worker' = [worker EXCEPT ![w] = IF signal = 1 THEN "look" ELSE "parked"]
  /\ UNCHANGED <<queue, inFlight, cancelled, caller, stack>>

\* runDownloadJob; a job whose context ended in the queue is skipped.
Start(w) ==
  /\ worker[w] = "start"
  /\ worker' = [worker EXCEPT ![w] = IF stack[w][1].rel \in cancelled THEN "unwind" ELSE "work"]
  /\ UNCHANGED <<queue, signal, inFlight, cancelled, caller, stack>>

\* The innermost release is published, skipped or left for later; or it fails
\* with no candidate or depth left; or the job panics.
Settle(w) ==
  /\ worker[w] = "work"
  /\ worker' = [worker EXCEPT ![w] = "unwind"]
  /\ UNCHANGED <<queue, signal, inFlight, cancelled, caller, stack>>

\* The worker has been on release n in this job, and n has failed.
On(w, n) == \E i \in DOMAIN stack[w] : stack[w][i].rel = n

\* Nobody looks at inFlight before going on with the next candidate.
M_PromoteClaimed(w, n) ==
  /\ worker[w] = "work" /\ Len(stack[w]) <= MaxDepth
  /\ n \in Releases \ Stored
  /\ inFlight' = [inFlight EXCEPT ![n] = "inline"]
  /\ stack' = [stack EXCEPT ![w] = Append(@, [rel |-> n, claimed |-> TRUE])]
  /\ UNCHANGED <<queue, signal, cancelled, caller, worker>>

\* promoteNextAfterFailureDepth: the innermost release fails, FailSelectedRelease-
\* AndPromoteNext returns n, and claimInFlight claims it.
PromoteClaimed(w, n) ==
  /\ worker[w] = "work" /\ Len(stack[w]) <= MaxDepth
  /\ n \in Releases \ Stored
  /\ inFlight[n] = "no"
  /\ inFlight' = [inFlight EXCEPT ![n] = "inline"]
  /\ stack' = [stack EXCEPT ![w] = Append(@, [rel |-> n, claimed |-> TRUE])]
  /\ UNCHANGED <<queue, signal, cancelled, caller, worker>>

\* Somebody else is on n already: this chain ends.
PromoteInFlight(w, n) ==
  /\ worker[w] = "work" /\ Len(stack[w]) <= MaxDepth
  /\ n \in Releases \ Stored
  /\ inFlight[n] # "no" /\ ~ On(w, n)
  /\ worker' = [worker EXCEPT ![w] = "unwind"]
  /\ UNCHANGED <<queue, signal, inFlight, cancelled, caller, stack>>

\* n has no ExternalURL: it is imported from its stored NZB, without a claim.
PromoteStored(w, n) ==
  /\ worker[w] = "work" /\ Len(stack[w]) <= MaxDepth
  /\ n \in Stored
  /\ ~ On(w, n)
  /\ stack' = [stack EXCEPT ![w] = Append(@, [rel |-> n, claimed |-> FALSE])]
  /\ UNCHANGED <<queue, signal, inFlight, cancelled, caller, worker>>

\* The claim of an inline release is given up only when nothing went wrong.
M_Return(w) ==
  /\ worker[w] = "unwind" /\ Len(stack[w]) > 1
  /\ inFlight' = inFlight
  /\ stack' = [stack EXCEPT ![w] = Front(@)]
  /\ UNCHANGED <<queue, signal, cancelled, caller, worker>>

\* An inline level returns, through its deferred markDone if it has a claim.
Return(w) ==
  /\ worker[w] = "unwind" /\ Len(stack[w]) > 1
  /\ inFlight' = IF Last(stack[w]).claimed
                 THEN [inFlight EXCEPT ![Last(stack[w]).rel] = "no"] ELSE inFlight
  /\ stack' = [stack EXCEPT ![w] = Front(@)]
  /\ UNCHANGED <<queue, signal, cancelled, caller, worker>>

\* The caller of a job is answered only when the job did not panic or expire.
M_Finish(w) ==
  /\ worker[w] = "unwind" /\ Len(stack[w]) = 1
  /\ inFlight' = [inFlight EXCEPT ![stack[w][1].rel] = "no"]
  /\ stack' = [stack EXCEPT ![w] = <<>>]
  /\ worker' = [worker EXCEPT ![w] = "look"]
  /\ UNCHANGED <<queue, signal, cancelled, caller>>

\* What a result for release r does to a caller.
Answered(state, r) ==
  CASE state.pc = "wait" /\ state.rel = r -> Idle
    [] state.pc = "signal" /\ state.rel = r -> [state EXCEPT !.waits = FALSE]
    [] OTHER -> state

\* The end of runDownloadJob, by any of its exits: markDone and the one result
\* to resultCh, whose buffer lets the worker go on.
Finish(w) ==
  /\ worker[w] = "unwind" /\ Len(stack[w]) = 1
  /\ inFlight' = [inFlight EXCEPT ![stack[w][1].rel] = "no"]
  /\ caller' = [c \in Callers |-> Answered(caller[c], stack[w][1].rel)]
  /\ stack' = [stack EXCEPT ![w] = <<>>]
  /\ worker' = [worker EXCEPT ![w] = "look"]
  /\ UNCHANGED <<queue, signal, cancelled>>

Work(w) ==
  \/ Take(w) \/ FindNone(w) \/ Receive(w) \/ Start(w) \/ Settle(w) \/ Return(w) \/ Finish(w)
  \/ \E n \in Releases : PromoteClaimed(w, n) \/ PromoteInFlight(w, n) \/ PromoteStored(w, n)

Next ==
  \/ \E c \in Callers :
       \/ Signal(c) \/ GiveUp(c)
       \/ \E r \in Releases, priority \in 0 .. 1, async \in BOOLEAN : Submit(c, r, priority, async)
  \/ \E r \in Releases : Cancel(r)
  \/ \E i \in DOMAIN queue : Age(i)
  \/ \E w \in Workers : Work(w)

Spec == Init /\ [][Next]_vars

-----------------------------------------------------------------------------
(***************************************************************************)
(* Properties.                                                             *)
(***************************************************************************)

\* The waiting jobs and the stack entries that answer for release r in inFlight.
Claims(r) ==
  {<<"queue", i>> : i \in {j \in DOMAIN queue : queue[j].rel = r}}
    \cup UNION {{<<w, i>> : i \in {j \in DOMAIN stack[w] : stack[w][j] = [rel |-> r, claimed |-> TRUE]}}
                : w \in Workers}

(* No release is claimed twice, by two jobs, two workers, or a job and an  *)
(* inline chain: the fetch of one NZB is never started while another is    *)
(* under way, which is the duplicate download that inFlight is there for.  *)
OneClaimPerRelease == \A r \in Releases : Cardinality(Claims(r)) <= 1

(* No exit of a job or of an inline level leaves its release in inFlight:  *)
(* it would be refused by every later submit until the process restarts.   *)
NoLeakedClaim == \A r \in Releases : inFlight[r] # "no" => Claims(r) # {}

(* A waiting job has somebody who will see it: a worker that is not        *)
(* parked, or a caller whose send is still to come and will wake one.      *)
JobNotForgotten ==
  queue # <<>> => \/ \E c \in Callers : caller[c].pc = "signal"
                  \/ \E w \in Workers : worker[w] # "parked"

(* "Start N goroutines running this ... to allow N concurrent downloads":  *)
(* once every send and every wake-up has taken effect, no worker is parked *)
(* while a job waits.                                                      *)
NoIdleWorkerWhileQueued ==
  /\ queue # <<>>
  /\ \A c \in Callers : caller[c].pc # "signal"
  /\ \A w \in Workers : worker[w] \notin {"look", "checked"}
  => \A w \in Workers : worker[w] # "parked"

(***************************************************************************)
(* Fairness: a worker goroutine runs, and its work ends, since fetches and *)
(* imports have deadlines.  A caller past submit's unlock sends.  Time     *)
(* passes.  Nothing obliges anyone to submit, cancel or give up.           *)
(***************************************************************************)
Fairness ==
  /\ \A w \in Workers : WF_vars(Work(w))
  /\ \A c \in Callers : WF_vars(Signal(c))
  /\ \A r \in Releases : WF_vars(\E i \in DOMAIN queue : queue[i].rel = r /\ Age(i))

FairSpec == Spec /\ Fairness

Queued(r) == \E i \in DOMAIN queue : queue[i].rel = r

(* A queued job is taken by a worker in the end, however many urgent jobs  *)
(* keep arriving: after downloadPriorityAgingThreshold it sorts with them. *)
JobIsTaken == \A r \in Releases : Queued(r) ~> ~ Queued(r)

(* A caller that submitted a job synchronously gets its result, whatever   *)
(* becomes of the job: taken, expired in the queue, paused or panicked.    *)
CallerIsAnswered == \A c \in Callers : caller[c].pc = "wait" ~> caller[c] = Idle
=============================================================================
