---------------------- MODULE DownloadDispatcher_proofs ----------------------
(***************************************************************************)
(* For every number of releases, callers and workers: a waiting job always *)
(* has somebody who will see it, no release is claimed twice, and nothing  *)
(* is left in inFlight that nobody answers for.                            *)
(*                                                                         *)
(* JobNotForgotten alone is not inductive: a worker between its look at    *)
(* the queue and its select is not parked yet, and when it is the last one *)
(* awake it must not park past a job.  SignalInv says what stops it: with  *)
(* a job waiting and every caller's send done, either some worker is at a  *)
(* place from which it will look at the queue again, or the channel's      *)
(* buffer holds the signal that sends the next one round its loop.         *)
(* ClaimInv does the same for the two properties of the claims.            *)
(***************************************************************************)
EXTENDS DownloadDispatcher, SequenceTheorems, FiniteSetTheorems, TLAPS

-----------------------------------------------------------------------------
\* Taking a job out of the queue leaves a queue of jobs.
LEMMA RemoveAtType ==
  ASSUME NEW S, NEW q \in Seq(S), NEW i \in DOMAIN q
  PROVE  RemoveAt(q, i) \in Seq(S)
<1>1. i \in 1 .. Len(q)
  OBVIOUS
<1>2. SubSeq(q, 1, i-1) \in Seq(S) /\ SubSeq(q, i+1, Len(q)) \in Seq(S)
  BY <1>1
<1> QED
  BY <1>2 DEF RemoveAt

\* Sorting a queue of jobs keeps it one, and keeps its length.
LEMMA SortedType ==
  ASSUME NEW q \in Seq(Job)
  PROVE  Sorted(q) \in Seq(Job) /\ Len(Sorted(q)) = Len(q)
<1>1. \A i \in 1 .. Len(q) : [q[i] EXCEPT !.rank = effectivePriority(q[i])] \in Job
  <2> SUFFICES ASSUME NEW i \in 1 .. Len(q)
               PROVE  [q[i] EXCEPT !.rank = effectivePriority(q[i])] \in Job
    OBVIOUS
  <2>1. q[i] \in Job
    OBVIOUS
  <2> QED
    BY <2>1 DEF Job, effectivePriority
<1>2. Sorted(q) = [i \in 1 .. Len(q) |-> [q[i] EXCEPT !.rank = effectivePriority(q[i])]]
  BY DEF Sorted
<1> QED
  BY <1>1, <1>2

\* Every variable keeps its range; in particular the wake-up channel never
\* holds more than its one place.
THEOREM TypeCorrect == Spec => []TypeOK
<1> USE DispatcherAssumption
<1>1. Init => TypeOK
  <2> SUFFICES ASSUME Init PROVE TypeOK
    OBVIOUS
  <2>1. queue \in Seq(Job) /\ signal \in 0 .. 1 /\ cancelled \subseteq Releases
    BY DEF Init
  <2>2. inFlight \in [Releases -> {"no", "job", "inline"}]
    BY DEF Init
  <2>3. caller \in [Callers -> CallerState]
    BY DEF Init, CallerState
  <2>4. worker \in [Workers -> WorkerPC]
    BY DEF Init, WorkerPC
  <2>5. stack \in [Workers -> Seq(Entry)]
    BY DEF Init
  <2> QED
    BY <2>1, <2>2, <2>3, <2>4, <2>5 DEF TypeOK
<1>2. TypeOK /\ [Next]_vars => TypeOK'
  <2> SUFFICES ASSUME TypeOK, [Next]_vars PROVE TypeOK'
    OBVIOUS
  <2>1. ASSUME NEW c \in Callers, NEW r \in Releases, NEW priority \in 0 .. 1, NEW async \in BOOLEAN,
               Submit(c, r, priority, async)
        PROVE  TypeOK'
    <3> DEFINE job == [rel |-> r, priority |-> priority, aged |-> FALSE, rank |-> priority]
    <3>1. job \in Job
      BY DEF Job
    <3>2. Append(queue, job) \in Seq(Job)
      BY <3>1 DEF TypeOK
    <3>3. queue' \in Seq(Job)
      BY <2>1, <3>2, SortedType DEF Submit
    <3>4. [pc |-> "signal", rel |-> r, waits |-> ~ async] \in CallerState
      BY DEF CallerState
    <3>5. caller' \in [Callers -> CallerState]
      BY <2>1, <3>4 DEF Submit, TypeOK
    <3> QED
      BY <2>1, <3>3, <3>5 DEF Submit, TypeOK
  <2>2. ASSUME NEW c \in Callers, Signal(c)
        PROVE  TypeOK'
    <3>1. signal' \in 0 .. 1 /\ worker' \in [Workers -> WorkerPC]
      <4>1. CASE \E w \in Workers : worker[w] = "parked"
        BY <2>2, <4>1 DEF Signal, Send, TypeOK, WorkerPC
      <4>2. CASE ~ \E w \in Workers : worker[w] = "parked"
        BY <2>2, <4>2 DEF Signal, Send, TypeOK, WorkerPC
      <4> QED
        BY <4>1, <4>2
    <3>2. caller[c] \in CallerState /\ caller[c] # Idle
      BY <2>2 DEF Signal, Idle, TypeOK
    <3>3. Idle \in CallerState /\ [caller[c] EXCEPT !.pc = "wait"] \in CallerState
      BY <3>2 DEF CallerState
    <3>4. caller' \in [Callers -> CallerState]
      BY <2>2, <3>3 DEF Signal, TypeOK
    <3> QED
      BY <2>2, <3>1, <3>4 DEF Signal, TypeOK
  <2>3. ASSUME NEW c \in Callers, GiveUp(c)
        PROVE  TypeOK'
    <3>1. caller[c].rel \in Releases
      BY <2>3 DEF GiveUp, TypeOK, CallerState, Idle
    <3>2. caller' \in [Callers -> CallerState]
      BY <2>3 DEF GiveUp, TypeOK, CallerState
    <3> QED
      BY <2>3, <3>1, <3>2 DEF GiveUp, TypeOK
  <2>4. ASSUME NEW r \in Releases, Cancel(r)
        PROVE  TypeOK'
    BY <2>4 DEF Cancel, TypeOK
  <2>5. ASSUME NEW i \in DOMAIN queue, Age(i)
        PROVE  TypeOK'
    <3>1. [queue[i] EXCEPT !.aged = TRUE] \in Job
      <4>1. queue[i] \in Job
        BY DEF TypeOK
      <4> QED
        BY <4>1 DEF Job
    <3>2. queue' \in Seq(Job)
      BY <2>5, <3>1 DEF Age, TypeOK
    <3> QED
      BY <2>5, <3>2 DEF Age, TypeOK
  <2>6. ASSUME NEW w \in Workers, Take(w)
        PROVE  TypeOK'
    <3>1. PICK i \in DOMAIN queue :
            /\ queue' = RemoveAt(queue, i)
            /\ stack' = [stack EXCEPT ![w] = <<[rel |-> queue[i].rel, claimed |-> TRUE]>>]
      BY <2>6 DEF Take
    <3>2. queue' \in Seq(Job)
      BY <3>1, RemoveAtType DEF TypeOK
    <3>3. [rel |-> queue[i].rel, claimed |-> TRUE] \in Entry
      <4>1. queue[i] \in Job
        BY DEF TypeOK
      <4> QED
        BY <4>1 DEF Job, Entry
    <3>4. <<[rel |-> queue[i].rel, claimed |-> TRUE]>> \in Seq(Entry)
      BY <3>3
    <3>5. stack' \in [Workers -> Seq(Entry)]
      BY <3>1, <3>4 DEF TypeOK
    <3> QED
      BY <2>6, <3>2, <3>5 DEF Take, TypeOK, WorkerPC
  <2>7. ASSUME NEW w \in Workers, FindNone(w) \/ Receive(w) \/ Start(w) \/ Settle(w)
        PROVE  TypeOK'
    <3>1. PICK l \in WorkerPC : worker' = [worker EXCEPT ![w] = l] /\ signal' \in {signal, 0}
      <4>1. CASE FindNone(w)
        BY <4>1 DEF FindNone, WorkerPC
      <4>2. CASE Receive(w)
        BY <4>2 DEF Receive, WorkerPC
      <4>3. CASE Start(w)
        BY <4>3 DEF Start, WorkerPC
      <4>4. CASE Settle(w)
        BY <4>4 DEF Settle, WorkerPC
      <4> QED
        BY <2>7, <4>1, <4>2, <4>3, <4>4
    <3>2. UNCHANGED <<queue, inFlight, cancelled, caller, stack>>
      BY <2>7 DEF FindNone, Receive, Start, Settle
    <3> QED
      BY <3>1, <3>2 DEF TypeOK
  <2>8. ASSUME NEW w \in Workers, NEW n \in Releases,
               PromoteClaimed(w, n) \/ PromoteInFlight(w, n) \/ PromoteStored(w, n)
        PROVE  TypeOK'
    <3>1. stack[w] \in Seq(Entry)
      BY DEF TypeOK
    <3>2. ASSUME NEW b \in BOOLEAN PROVE Append(stack[w], [rel |-> n, claimed |-> b]) \in Seq(Entry)
      <4>1. [rel |-> n, claimed |-> b] \in Entry
        BY DEF Entry
      <4> QED
        BY <3>1, <4>1
    <3>3. CASE PromoteClaimed(w, n)
      BY <3>2, <3>3 DEF PromoteClaimed, TypeOK
    <3>4. CASE PromoteInFlight(w, n)
      BY <3>4 DEF PromoteInFlight, TypeOK, WorkerPC
    <3>5. CASE PromoteStored(w, n)
      BY <3>2, <3>5 DEF PromoteStored, TypeOK
    <3> QED
      BY <2>8, <3>3, <3>4, <3>5
  <2>9. ASSUME NEW w \in Workers, Return(w)
        PROVE  TypeOK'
    <3>1. stack[w] \in Seq(Entry) /\ Len(stack[w]) > 1
      BY <2>9 DEF Return, TypeOK
    <3>2. Len(stack[w]) - 1 \in 1 .. Len(stack[w])
      BY <3>1
    <3>3. Front(stack[w]) \in Seq(Entry)
      BY <3>1, <3>2 DEF Front
    <3>4. inFlight' \in [Releases -> {"no", "job", "inline"}]
      BY <2>9 DEF Return, TypeOK
    <3> QED
      BY <2>9, <3>3, <3>4 DEF Return, TypeOK
  <2>10. ASSUME NEW w \in Workers, Finish(w)
        PROVE  TypeOK'
    <3>1. \A c \in Callers : \A r : Answered(caller[c], r) \in CallerState
      <4> SUFFICES ASSUME NEW c \in Callers, NEW r PROVE Answered(caller[c], r) \in CallerState
        OBVIOUS
      <4>1. caller[c] \in CallerState
        BY DEF TypeOK
      <4>2. caller[c].pc = "signal" => [caller[c] EXCEPT !.waits = FALSE] \in CallerState
        BY <4>1 DEF CallerState, Idle
      <4>3. Idle \in CallerState
        BY DEF CallerState
      <4> QED
        BY <4>1, <4>2, <4>3 DEF Answered
    <3>2. caller' \in [Callers -> CallerState]
      BY <2>10, <3>1 DEF Finish
    <3>3. stack' \in [Workers -> Seq(Entry)]
      BY <2>10 DEF Finish, TypeOK
    <3>4. worker' \in [Workers -> WorkerPC]
      BY <2>10 DEF Finish, TypeOK, WorkerPC
    <3> QED
      BY <2>10, <3>2, <3>3, <3>4 DEF Finish, TypeOK
  <2>11. CASE UNCHANGED vars
    BY <2>11 DEF vars, TypeOK
  <2>12. ASSUME NEW w \in Workers, Work(w) PROVE TypeOK'
    BY <2>6, <2>7, <2>8, <2>9, <2>10, <2>12 DEF Work
  <2> QED
    BY <2>1, <2>2, <2>3, <2>4, <2>5, <2>11, <2>12 DEF Next
<1> QED
  BY <1>1, <1>2, PTL DEF Spec

-----------------------------------------------------------------------------
\* The strengthening of JobNotForgotten.
SignalInv ==
  queue # <<>> => \/ \E c \in Callers : caller[c].pc = "signal"
                  \/ \E w \in Workers : worker[w] \notin {"checked", "parked"}
                  \/ signal = 1 /\ \E w \in Workers : worker[w] = "checked"

\* A waiting job always has a worker that is awake, or a caller about to wake one.
THEOREM NoJobForgotten == Workers # {} => (Spec => []JobNotForgotten)
<1> SUFFICES ASSUME Workers # {} PROVE Spec => []JobNotForgotten
  OBVIOUS
<1> USE DispatcherAssumption
<1>1. Init => SignalInv
  BY DEF Init, SignalInv
<1>2. TypeOK /\ SignalInv /\ [Next]_vars => SignalInv'
  <2> SUFFICES ASSUME TypeOK, SignalInv, [Next]_vars PROVE SignalInv'
    OBVIOUS
  <2>1. ASSUME NEW c \in Callers, NEW r \in Releases, NEW priority \in 0 .. 1, NEW async \in BOOLEAN,
               Submit(c, r, priority, async)
        PROVE  SignalInv'
    BY <2>1 DEF Submit, SignalInv, TypeOK
  <2>2. ASSUME NEW c \in Callers, Signal(c)
        PROVE  SignalInv'
    <3>1. CASE \E w \in Workers : worker[w] = "parked"
      BY <2>2, <3>1 DEF Signal, Send, SignalInv, TypeOK
    <3>2. CASE ~ \E w \in Workers : worker[w] = "parked"
      BY <2>2, <3>2 DEF Signal, Send, SignalInv, TypeOK
    <3> QED
      BY <3>1, <3>2
  <2>3. ASSUME NEW c \in Callers, GiveUp(c)
        PROVE  SignalInv'
    BY <2>3 DEF GiveUp, SignalInv, TypeOK
  <2>4. ASSUME NEW r \in Releases, Cancel(r)
        PROVE  SignalInv'
    BY <2>4 DEF Cancel, SignalInv
  <2>5. ASSUME NEW i \in DOMAIN queue, Age(i)
        PROVE  SignalInv'
    BY <2>5 DEF Age, SignalInv, TypeOK
  <2>6. ASSUME NEW w \in Workers, Take(w) \/ Start(w) \/ Settle(w) \/ Return(w)
        PROVE  SignalInv'
    <3>1. worker'[w] \notin {"checked", "parked"}
      BY <2>6 DEF Take, Start, Settle, Return, TypeOK
    <3> QED
      BY <3>1 DEF SignalInv
  <2>7. ASSUME NEW w \in Workers, FindNone(w)
        PROVE  SignalInv'
    BY <2>7 DEF FindNone, SignalInv
  <2>8. ASSUME NEW w \in Workers, Receive(w)
        PROVE  SignalInv'
    BY <2>8 DEF Receive, SignalInv, TypeOK
  <2>9. ASSUME NEW w \in Workers, NEW n \in Releases,
               PromoteClaimed(w, n) \/ PromoteInFlight(w, n) \/ PromoteStored(w, n)
        PROVE  SignalInv'
    <3>1. worker'[w] \notin {"checked", "parked"}
      BY <2>9 DEF PromoteClaimed, PromoteInFlight, PromoteStored, TypeOK
    <3> QED
      BY <3>1 DEF SignalInv
  <2>10. ASSUME NEW w \in Workers, Finish(w)
        PROVE  SignalInv'
    <3>1. worker'[w] = "look"
      BY <2>10 DEF Finish, TypeOK
    <3> QED
      BY <3>1 DEF SignalInv
  <2>11. CASE UNCHANGED vars
    BY <2>11 DEF vars, SignalInv
  <2>12. ASSUME NEW w \in Workers, Work(w) PROVE SignalInv'
    BY <2>6, <2>7, <2>8, <2>9, <2>10, <2>12 DEF Work
  <2> QED
    BY <2>1, <2>2, <2>3, <2>4, <2>5, <2>11, <2>12 DEF Next
<1>3. SignalInv => JobNotForgotten
  BY DEF SignalInv, JobNotForgotten
<1> QED
  BY <1>1, <1>2, <1>3, TypeCorrect, PTL DEF Spec
-----------------------------------------------------------------------------
(***************************************************************************)
(* The claims on a release.  Neither property of them is inductive alone:  *)
(* that an entry of inFlight has a claim is kept because a worker that     *)
(* takes a job had nothing on its stack, and that two claims are never of  *)
(* one release because whatever has a claim is in inFlight, where submit   *)
(* and claimInFlight look, and because markDone takes out of inFlight a    *)
(* release whose only claim has just ended.                                *)
(***************************************************************************)

\* The entry at place i of worker w's stack is a claim on r.
HasClaim(w, i, r) == i \in DOMAIN stack[w] /\ stack[w][i] = [rel |-> r, claimed |-> TRUE]

\* A worker that takes no job has nothing on its stack; one that has a job has the
\* job's release at the bottom, with its claim.
StackShape ==
  \A w \in Workers :
    IF worker[w] \in {"look", "checked", "parked"} THEN stack[w] = <<>>
    ELSE stack[w] # <<>> /\ stack[w][1].claimed

\* What has a claim is in inFlight, and what is in inFlight has a claim.
ClaimedIsInFlight ==
  /\ \A i \in DOMAIN queue : inFlight[queue[i].rel] # "no"
  /\ \A r \in Releases, w \in Workers, i \in Nat : HasClaim(w, i, r) => inFlight[r] # "no"
InFlightIsClaimed ==
  \A r \in Releases : inFlight[r] # "no" =>
    \/ \E i \in DOMAIN queue : queue[i].rel = r
    \/ \E w \in Workers, i \in Nat : HasClaim(w, i, r)

\* No two claims are of one release.
ClaimsDiffer ==
  /\ \A i, j \in DOMAIN queue : queue[i].rel = queue[j].rel => i = j
  /\ \A i \in DOMAIN queue, w \in Workers, j \in Nat : ~ HasClaim(w, j, queue[i].rel)
  /\ \A r \in Releases, v, w \in Workers, i, j \in Nat :
       HasClaim(v, i, r) /\ HasClaim(w, j, r) => v = w /\ i = j

ClaimInv == StackShape /\ ClaimedIsInFlight /\ InFlightIsClaimed /\ ClaimsDiffer

\* Of a queue from which entry i was taken, each entry was there before.
LEMMA RemoveAtEntries ==
  ASSUME NEW S, NEW q \in Seq(S), NEW i \in DOMAIN q
  PROVE  /\ DOMAIN RemoveAt(q, i) = 1 .. (Len(q) - 1)
         /\ \A j \in 1 .. (Len(q) - 1) : RemoveAt(q, i)[j] = q[IF j < i THEN j ELSE j + 1]
<1>1. i \in 1 .. Len(q) /\ Len(q) \in Nat
  OBVIOUS
<1> DEFINE a == SubSeq(q, 1, i - 1)
           b == SubSeq(q, i + 1, Len(q))
<1>2. a \in Seq(S) /\ Len(a) = i - 1 /\ \A j \in 1 .. (i - 1) : a[j] = q[j]
  BY <1>1
<1>3. b \in Seq(S) /\ Len(b) = Len(q) - i /\ \A j \in 1 .. (Len(q) - i) : b[j] = q[i + j]
  BY <1>1
<1>4. RemoveAt(q, i) = a \o b
  BY DEF RemoveAt
<1> HIDE DEF a, b
<1>5. Len(a \o b) = Len(q) - 1 /\ DOMAIN (a \o b) = 1 .. Len(a \o b)
  BY <1>1, <1>2, <1>3
<1>6. \A j \in 1 .. Len(a) + Len(b) : (a \o b)[j] = IF j <= Len(a) THEN a[j] ELSE b[j - Len(a)]
  BY <1>2, <1>3, ConcatProperties
<1>7. ASSUME NEW j \in 1 .. (Len(q) - 1) PROVE (a \o b)[j] = q[IF j < i THEN j ELSE j + 1]
  <2>1. (a \o b)[j] = IF j <= i - 1 THEN a[j] ELSE b[j - (i - 1)]
    BY <1>1, <1>2, <1>3, <1>6
  <2>2. CASE j < i
    BY <1>1, <1>2, <2>1, <2>2
  <2>3. CASE ~ (j < i)
    <3>1. j - (i - 1) \in 1 .. (Len(q) - i) /\ i + (j - (i - 1)) = j + 1 /\ ~ (j <= i - 1)
      BY <1>1, <2>3
    <3> QED
      BY <1>3, <2>1, <2>3, <3>1
  <2> QED
    BY <2>2, <2>3
<1> QED
  BY <1>4, <1>5, <1>7

\* Sorting changes no release of the queue.
LEMMA SortedReleases ==
  ASSUME NEW q \in Seq(Job)
  PROVE  DOMAIN Sorted(q) = DOMAIN q /\ \A i \in DOMAIN q : Sorted(q)[i].rel = q[i].rel
<1>1. \A i \in DOMAIN q : q[i] \in Job
  OBVIOUS
<1> QED
  BY <1>1 DEF Sorted, Job

\* A step that changes no claim and nothing in inFlight.
LEMMA ClaimsKept ==
  ASSUME TypeOK, ClaimInv, StackShape', UNCHANGED <<inFlight, stack>>,
         DOMAIN queue' = DOMAIN queue, \A i \in DOMAIN queue : queue'[i].rel = queue[i].rel
  PROVE  ClaimInv'
<1>1. \A w, i, r : HasClaim(w, i, r)' <=> HasClaim(w, i, r)
  BY DEF HasClaim
<1>2. ClaimedIsInFlight'
  BY <1>1 DEF ClaimInv, ClaimedIsInFlight
<1>3. InFlightIsClaimed'
  BY <1>1 DEF ClaimInv, InFlightIsClaimed
<1>4. ClaimsDiffer'
  BY <1>1 DEF ClaimInv, ClaimsDiffer
<1> QED
  BY <1>2, <1>3, <1>4 DEF ClaimInv

\* submit adds the one claim on a release that had none.
LEMMA SubmitClaims ==
  ASSUME TypeOK, ClaimInv, NEW c \in Callers, NEW r \in Releases, NEW priority \in 0 .. 1,
         NEW async \in BOOLEAN, Submit(c, r, priority, async)
  PROVE  ClaimInv'
<1> DEFINE job == [rel |-> r, priority |-> priority, aged |-> FALSE, rank |-> priority]
           n == Len(queue) + 1
<1>1. job \in Job /\ queue \in Seq(Job)
  BY DEF Job, TypeOK
<1>2. Append(queue, job) \in Seq(Job) /\ DOMAIN Append(queue, job) = 1 .. n /\ n \in Nat
  BY <1>1
<1>3. \A i \in DOMAIN queue : i \in 1 .. n /\ i # n /\ Append(queue, job)[i] = queue[i]
  BY <1>1
<1>4. Append(queue, job)[n].rel = r /\ n \in 1 .. n
  BY <1>1
<1>5. DOMAIN queue' = 1 .. n /\ \A i \in 1 .. n : queue'[i].rel = Append(queue, job)[i].rel
  BY <1>2, SortedReleases DEF Submit
<1>6. \A i \in 1 .. n : i \in DOMAIN queue \/ i = n
  BY <1>1
<1> HIDE DEF job, n
<1>7. \A i \in DOMAIN queue' : IF i = n THEN queue'[i].rel = r
                               ELSE i \in DOMAIN queue /\ queue'[i].rel = queue[i].rel
  BY <1>3, <1>4, <1>5, <1>6
<1>8. n \in DOMAIN queue' /\ \A i \in DOMAIN queue : i \in DOMAIN queue' /\ i # n
  BY <1>3, <1>4, <1>5
<1>9. \A w, i, s : HasClaim(w, i, s)' <=> HasClaim(w, i, s)
  BY DEF HasClaim, Submit
<1>10. /\ \A i \in DOMAIN queue : queue[i].rel # r
       /\ \A w \in Workers, i \in Nat : ~ HasClaim(w, i, r)
  BY DEF Submit, ClaimInv, ClaimedIsInFlight
<1>11. inFlight' = [inFlight EXCEPT ![r] = "job"] /\ inFlight \in [Releases -> {"no", "job", "inline"}]
  BY DEF Submit, TypeOK
<1>12. \A i \in DOMAIN queue : queue[i].rel \in Releases
  <2>1. \A i \in DOMAIN queue : queue[i] \in Job
    BY <1>1
  <2> QED
    BY <2>1 DEF Job
<1>13. StackShape'
  BY DEF Submit, ClaimInv, StackShape
<1>14. ClaimedIsInFlight'
  BY <1>7, <1>9, <1>10, <1>11, <1>12 DEF ClaimInv, ClaimedIsInFlight
<1>15. InFlightIsClaimed'
  <2> SUFFICES ASSUME NEW s \in Releases, inFlight'[s] # "no"
               PROVE  \/ \E i \in DOMAIN queue' : queue'[i].rel = s
                      \/ \E w \in Workers, i \in Nat : HasClaim(w, i, s)'
    BY DEF InFlightIsClaimed
  <2>1. CASE s = r
    BY <2>1, <1>7, <1>8
  <2>2. CASE s # r
    <3>1. inFlight[s] # "no"
      BY <2>2, <1>11
    <3> QED
      BY <3>1, <1>7, <1>8, <1>9 DEF ClaimInv, InFlightIsClaimed
  <2> QED
    BY <2>1, <2>2
<1>16. ClaimsDiffer'
  BY <1>7, <1>9, <1>10 DEF ClaimInv, ClaimsDiffer
<1> QED
  BY <1>13, <1>14, <1>15, <1>16 DEF ClaimInv

\* next turns the claim of the job it takes into one of the worker.
LEMMA TakeClaims ==
  ASSUME TypeOK, ClaimInv, NEW w \in Workers, Take(w)
  PROVE  ClaimInv'
<1>1. PICK k \in DOMAIN queue :
        /\ queue' = RemoveAt(queue, k)
        /\ stack' = [stack EXCEPT ![w] = <<[rel |-> queue[k].rel, claimed |-> TRUE]>>]
  BY DEF Take
<1>2. queue \in Seq(Job) /\ stack \in [Workers -> Seq(Entry)] /\ worker \in [Workers -> WorkerPC]
  BY DEF TypeOK
<1> DEFINE old(i) == IF i < k THEN i ELSE i + 1
           m == Len(queue) - 1
<1>3. DOMAIN queue' = 1 .. m /\ \A i \in 1 .. m : queue'[i] = queue[old(i)]
  BY <1>1, <1>2, RemoveAtEntries
<1>4. /\ \A i \in 1 .. m : old(i) \in DOMAIN queue /\ old(i) # k
      /\ \A i, j \in 1 .. m : old(i) = old(j) => i = j
  BY <1>2
<1>5. \A i \in DOMAIN queue : i # k => \E j \in 1 .. m : old(j) = i
  <2> SUFFICES ASSUME NEW i \in DOMAIN queue, i # k PROVE \E j \in 1 .. m : old(j) = i
    OBVIOUS
  <2>1. CASE i < k
    <3>1. i \in 1 .. m /\ old(i) = i
      BY <1>2, <2>1
    <3> QED
      BY <3>1
  <2>2. CASE k < i
    <3>1. i - 1 \in 1 .. m /\ old(i - 1) = i
      BY <1>2, <2>2
    <3> QED
      BY <3>1
  <2> QED
    BY <1>2, <2>1, <2>2
<1> HIDE DEF old, m
<1> DEFINE r == queue[k].rel
<1>6. stack[w] = <<>>
  BY DEF Take, ClaimInv, StackShape
<1>7. /\ \A v \in Workers \ {w} : stack'[v] = stack[v]
      /\ stack'[w] = <<[rel |-> r, claimed |-> TRUE]>>
  BY <1>1, <1>2
<1>8. \A i, s : ~ HasClaim(w, i, s)
  BY <1>6 DEF HasClaim
<1>9. \A i \in Nat, s \in Releases : HasClaim(w, i, s)' <=> i = 1 /\ s = r
  <2> SUFFICES ASSUME NEW i \in Nat, NEW s \in Releases
               PROVE  HasClaim(w, i, s)' <=> i = 1 /\ s = r
    OBVIOUS
  <2> HIDE DEF r
  <2>1. i \in DOMAIN stack'[w] <=> i = 1
    BY <1>7
  <2>2. stack'[w][1] = [rel |-> r, claimed |-> TRUE]
    BY <1>7
  <2>3. [rel |-> r, claimed |-> TRUE] = [rel |-> s, claimed |-> TRUE] <=> s = r
    OBVIOUS
  <2> QED
    BY <2>1, <2>2, <2>3 DEF HasClaim
<1>10. \A v \in Workers \ {w} : \A i, s : HasClaim(v, i, s)' <=> HasClaim(v, i, s)
  BY <1>7 DEF HasClaim
<1>11. /\ \A i \in DOMAIN queue : queue[i].rel \in Releases /\ (i # k => queue[i].rel # r)
       /\ \A v \in Workers, i \in Nat : ~ HasClaim(v, i, r)
       /\ r \in Releases /\ inFlight[r] # "no"
  <2>1. \A i \in DOMAIN queue : queue[i] \in Job
    BY <1>2
  <2> QED
    BY <2>1 DEF ClaimInv, ClaimsDiffer, ClaimedIsInFlight, Job
<1>12. inFlight' = inFlight
  BY DEF Take
<1>13. StackShape'
  <2> SUFFICES ASSUME NEW v \in Workers
               PROVE  IF worker'[v] \in {"look", "checked", "parked"} THEN stack'[v] = <<>>
                      ELSE stack'[v] # <<>> /\ stack'[v][1].claimed
    BY DEF StackShape
  <2>1. CASE v = w
    BY <2>1, <1>2, <1>7 DEF Take
  <2>2. CASE v # w
    <3>1. worker'[v] = worker[v] /\ stack'[v] = stack[v]
      BY <2>2, <1>2, <1>7 DEF Take
    <3> QED
      BY <3>1 DEF ClaimInv, StackShape
  <2> QED
    BY <2>1, <2>2
<1>14. ClaimedIsInFlight'
  BY <1>3, <1>4, <1>9, <1>10, <1>11, <1>12 DEF ClaimInv, ClaimedIsInFlight
<1>15. InFlightIsClaimed'
  <2> SUFFICES ASSUME NEW s \in Releases, inFlight[s] # "no"
               PROVE  \/ \E i \in DOMAIN queue' : queue'[i].rel = s
                      \/ \E v \in Workers, i \in Nat : HasClaim(v, i, s)'
    BY <1>12 DEF InFlightIsClaimed
  <2>1. CASE s = r
    BY <2>1, <1>9
  <2>2. CASE \E i \in DOMAIN queue : i # k /\ queue[i].rel = s
    BY <2>2, <1>3, <1>5
  <2>3. CASE \E v \in Workers, i \in Nat : HasClaim(v, i, s)
    BY <2>3, <1>8, <1>10
  <2> QED
    BY <2>1, <2>2, <2>3 DEF ClaimInv, InFlightIsClaimed
<1>16. ClaimsDiffer'
  <2>1. \A i, j \in DOMAIN queue' : queue'[i].rel = queue'[j].rel => i = j
    BY <1>3, <1>4 DEF ClaimInv, ClaimsDiffer
  <2>2. ASSUME NEW i \in DOMAIN queue', NEW v \in Workers, NEW j \in Nat,
               HasClaim(v, j, queue[i].rel)'
        PROVE  FALSE
    <3>1. old(i) \in DOMAIN queue /\ old(i) # k /\ queue'[i].rel = queue[old(i)].rel
      BY <1>3, <1>4
    <3>2. queue'[i].rel # r /\ queue'[i].rel \in Releases
      BY <3>1, <1>11
    <3>3. CASE v = w
      BY <2>2, <3>2, <3>3, <1>9
    <3>4. CASE v # w
      <4>1. HasClaim(v, j, queue[old(i)].rel)
        BY <2>2, <3>1, <3>4, <1>10 DEF HasClaim
      <4> QED
        BY <4>1, <3>1 DEF ClaimInv, ClaimsDiffer
    <3> QED
      BY <3>3, <3>4
  <2>3. \A s \in Releases, u, v \in Workers, i, j \in Nat :
          HasClaim(u, i, s)' /\ HasClaim(v, j, s)' => u = v /\ i = j
    BY <1>9, <1>10, <1>11 DEF ClaimInv, ClaimsDiffer
  <2> QED
    BY <2>1, <2>2, <2>3 DEF ClaimsDiffer
<1> QED
  BY <1>13, <1>14, <1>15, <1>16 DEF ClaimInv
\* A claim that ends and is taken out of inFlight, which is markDone's part.
LEMMA ClaimEnds ==
  ASSUME TypeOK, ClaimInv, StackShape', queue' = queue,
         NEW w \in Workers, NEW k \in DOMAIN stack[w],
         \A v \in Workers, i \in Nat, s \in Releases :
           HasClaim(v, i, s)' <=> HasClaim(v, i, s) /\ ~ (v = w /\ i = k),
         inFlight' = IF stack[w][k].claimed THEN [inFlight EXCEPT ![stack[w][k].rel] = "no"] ELSE inFlight
  PROVE  ClaimInv'
<1> DEFINE e == stack[w][k]
<1>1. stack[w] \in Seq(Entry) /\ k \in Nat /\ e \in Entry /\ inFlight \in [Releases -> {"no", "job", "inline"}]
  BY DEF TypeOK
<1>2. PICK r \in Releases, b \in BOOLEAN : e = [rel |-> r, claimed |-> b]
  BY <1>1 DEF Entry
<1>3. \A s \in Releases : HasClaim(w, k, s) <=> b /\ s = r
  <2> SUFFICES ASSUME NEW s \in Releases PROVE HasClaim(w, k, s) <=> b /\ s = r
    OBVIOUS
  <2>1. HasClaim(w, k, s) <=> e = [rel |-> s, claimed |-> TRUE]
    BY DEF HasClaim
  <2> HIDE DEF e
  <2>2. [rel |-> r, claimed |-> b] = [rel |-> s, claimed |-> TRUE] <=> b /\ s = r
    BY <1>2
  <2> QED
    BY <2>1, <2>2, <1>2
<1>4. \A i \in DOMAIN queue : queue[i].rel \in Releases
  <2>1. \A i \in DOMAIN queue : queue[i] \in Job
    BY DEF TypeOK
  <2> QED
    BY <2>1 DEF Job
<1>5. CASE b
  <2>1. inFlight' = [inFlight EXCEPT ![r] = "no"] /\ HasClaim(w, k, r)
    BY <1>2, <1>3, <1>5
  <2>2. \A i \in DOMAIN queue : queue[i].rel # r
    <3> SUFFICES ASSUME NEW i \in DOMAIN queue, queue[i].rel = r PROVE FALSE
      OBVIOUS
    <3>1. ~ HasClaim(w, k, queue[i].rel)
      BY <1>1 DEF ClaimInv, ClaimsDiffer
    <3> QED
      BY <2>1, <3>1
  <2>3. \A v \in Workers, i \in Nat : ~ HasClaim(v, i, r)'
    BY <1>1, <2>1 DEF ClaimInv, ClaimsDiffer
  <2> HIDE DEF e
  <2>4. ClaimedIsInFlight'
    <3>1. \A i \in DOMAIN queue : inFlight'[queue[i].rel] # "no"
      BY <1>1, <1>4, <2>1, <2>2 DEF ClaimInv, ClaimedIsInFlight
    <3>2. ASSUME NEW s \in Releases, NEW v \in Workers, NEW i \in Nat, HasClaim(v, i, s)'
          PROVE  inFlight'[s] # "no"
      <4>1. s # r
        BY <2>3, <3>2
      <4>2. inFlight[s] # "no"
        BY <3>2 DEF ClaimInv, ClaimedIsInFlight
      <4> QED
        BY <1>1, <2>1, <4>1, <4>2
    <3> QED
      BY <3>1, <3>2 DEF ClaimedIsInFlight
  <2>5. InFlightIsClaimed'
    <3> SUFFICES ASSUME NEW s \in Releases, inFlight'[s] # "no"
                 PROVE  \/ \E i \in DOMAIN queue : queue[i].rel = s
                        \/ \E v \in Workers, i \in Nat : HasClaim(v, i, s)'
      BY DEF InFlightIsClaimed
    <3>1. s # r /\ inFlight[s] # "no"
      BY <1>1, <1>2, <2>1
    <3>2. CASE \E v \in Workers, i \in Nat : HasClaim(v, i, s)
      <4>1. PICK v \in Workers, i \in Nat : HasClaim(v, i, s)
        BY <3>2
      <4>2. ~ (v = w /\ i = k)
        BY <1>3, <3>1, <4>1
      <4> QED
        BY <4>1, <4>2
    <3> QED
      BY <3>1, <3>2 DEF ClaimInv, InFlightIsClaimed
  <2>6. ClaimsDiffer'
    <3>1. \A i \in DOMAIN queue, v \in Workers, j \in Nat : ~ HasClaim(v, j, queue[i].rel)'
      BY <1>4 DEF ClaimInv, ClaimsDiffer
    <3>2. \A s \in Releases, u, v \in Workers, i, j \in Nat :
            HasClaim(u, i, s)' /\ HasClaim(v, j, s)' => u = v /\ i = j
      BY DEF ClaimInv, ClaimsDiffer
    <3> QED
      BY <3>1, <3>2 DEF ClaimInv, ClaimsDiffer, HasClaim
  <2> QED
    BY <2>4, <2>5, <2>6 DEF ClaimInv
<1>6. CASE ~ b
  <2>1. \A v \in Workers, i \in Nat, s \in Releases : HasClaim(v, i, s)' <=> HasClaim(v, i, s)
    BY <1>3, <1>6
  <2>2. inFlight' = inFlight
    BY <1>2, <1>6
  <2>3. ClaimedIsInFlight'
    BY <2>1, <2>2 DEF ClaimInv, ClaimedIsInFlight
  <2>4. InFlightIsClaimed'
    BY <2>1, <2>2 DEF ClaimInv, InFlightIsClaimed
  <2>5. ClaimsDiffer'
    <3>1. \A i \in DOMAIN queue, v \in Workers, j \in Nat : ~ HasClaim(v, j, queue[i].rel)'
      BY <1>4, <2>1 DEF ClaimInv, ClaimsDiffer
    <3> QED
      BY <2>1, <3>1 DEF ClaimInv, ClaimsDiffer, HasClaim
  <2> QED
    BY <2>3, <2>4, <2>5 DEF ClaimInv
<1> QED
  BY <1>5, <1>6

\* An inline level that returns, and the end of a job.
LEMMA UnwindClaims ==
  ASSUME TypeOK, ClaimInv, NEW w \in Workers, Return(w) \/ Finish(w)
  PROVE  ClaimInv'
<1> DEFINE n == Len(stack[w])
<1>1. stack \in [Workers -> Seq(Entry)] /\ worker \in [Workers -> WorkerPC] /\ stack[w] \in Seq(Entry)
  BY DEF TypeOK
<1>2. stack[w][1].claimed /\ stack[w] # <<>>
  BY DEF ClaimInv, StackShape, Return, Finish
<1>3. queue' = queue /\ n \in DOMAIN stack[w] /\ n \in Nat /\ \A v \in Workers \ {w} : stack'[v] = stack[v]
  BY <1>1, <1>2 DEF Return, Finish
<1>4. /\ DOMAIN stack'[w] = 1 .. (n - 1)
      /\ \A i \in 1 .. (n - 1) : stack'[w][i] = stack[w][i]
  <2>1. CASE Return(w)
    <3>1. n > 1 /\ stack'[w] = SubSeq(stack[w], 1, n - 1)
      BY <2>1, <1>1 DEF Return, Front
    <3>2. \A i \in 1 .. (n - 1) : stack[w][i] \in Entry /\ i \in 1 .. n
      BY <1>1, <1>3
    <3> QED
      BY <1>1, <1>3, <3>1, <3>2
  <2>2. CASE Finish(w)
    BY <2>2, <1>1 DEF Finish
  <2> QED
    BY <2>1, <2>2
<1>5. inFlight' = IF stack[w][n].claimed THEN [inFlight EXCEPT ![stack[w][n].rel] = "no"] ELSE inFlight
  <2>1. CASE Return(w)
    BY <2>1 DEF Return, Last
  <2>2. CASE Finish(w)
    BY <2>2, <1>2 DEF Finish
  <2> QED
    BY <2>1, <2>2
<1>6. \A v \in Workers, i \in Nat, s \in Releases :
        HasClaim(v, i, s)' <=> HasClaim(v, i, s) /\ ~ (v = w /\ i = n)
  <2> SUFFICES ASSUME NEW v \in Workers, NEW i \in Nat, NEW s \in Releases
               PROVE  HasClaim(v, i, s)' <=> HasClaim(v, i, s) /\ ~ (v = w /\ i = n)
    OBVIOUS
  <2>1. CASE v = w
    <3>1. i \in 1 .. (n - 1) <=> i \in DOMAIN stack[w] /\ i # n
      BY <1>1, <1>3
    <3> QED
      BY <1>4, <2>1, <3>1 DEF HasClaim
  <2>2. CASE v # w
    BY <1>3, <2>2 DEF HasClaim
  <2> QED
    BY <2>1, <2>2
<1>7. StackShape'
  <2> SUFFICES ASSUME NEW v \in Workers
               PROVE  IF worker'[v] \in {"look", "checked", "parked"} THEN stack'[v] = <<>>
                      ELSE stack'[v] # <<>> /\ stack'[v][1].claimed
    BY DEF StackShape
  <2>1. CASE v # w
    <3>1. worker'[v] = worker[v]
      BY <2>1, <1>1 DEF Return, Finish
    <3> QED
      BY <3>1, <2>1, <1>3 DEF ClaimInv, StackShape
  <2>2. CASE v = w /\ Return(w)
    <3>1. worker'[w] = "unwind" /\ n > 1
      BY <2>2 DEF Return
    <3>2. 1 \in 1 .. (n - 1) /\ stack'[w][1] = stack[w][1]
      BY <3>1, <1>3, <1>4
    <3>3. stack'[w] # <<>>
      BY <3>2, <1>4
    <3> QED
      BY <2>2, <3>1, <3>2, <3>3, <1>2
  <2>3. CASE v = w /\ Finish(w)
    BY <2>3, <1>1 DEF Finish
  <2> QED
    BY <2>1, <2>2, <2>3
<1> HIDE DEF n
<1> QED
  BY <1>3, <1>5, <1>6, <1>7, ClaimEnds

\* The next candidate goes on the worker's stack, with a claim it makes now or, for
\* a release with a stored NZB, with none.
LEMMA PromoteClaims ==
  ASSUME TypeOK, ClaimInv, NEW w \in Workers, NEW n \in Releases,
         PromoteClaimed(w, n) \/ PromoteStored(w, n)
  PROVE  ClaimInv'
<1>1. /\ stack \in [Workers -> Seq(Entry)] /\ worker \in [Workers -> WorkerPC]
      /\ inFlight \in [Releases -> {"no", "job", "inline"}]
      /\ stack[w] \in Seq(Entry)
  BY DEF TypeOK
<1>2. PICK b \in BOOLEAN :
        /\ stack' = [stack EXCEPT ![w] = Append(@, [rel |-> n, claimed |-> b])]
        /\ inFlight' = IF b THEN [inFlight EXCEPT ![n] = "inline"] ELSE inFlight
        /\ b => inFlight[n] = "no"
  <2>1. CASE PromoteClaimed(w, n)
    BY <2>1 DEF PromoteClaimed
  <2>2. CASE PromoteStored(w, n)
    BY <2>2 DEF PromoteStored
  <2> QED
    BY <2>1, <2>2
<1>3. UNCHANGED <<queue, worker>> /\ worker[w] = "work"
  BY DEF PromoteClaimed, PromoteStored
<1>4. stack[w] # <<>> /\ stack[w][1].claimed
  BY <1>3 DEF ClaimInv, StackShape
<1> DEFINE m == Len(stack[w]) + 1
           e == [rel |-> n, claimed |-> b]
<1>5. e \in Entry /\ stack'[w] = Append(stack[w], e) /\ \A v \in Workers \ {w} : stack'[v] = stack[v]
  BY <1>1, <1>2 DEF Entry
<1>6. /\ DOMAIN stack'[w] = DOMAIN stack[w] \cup {m} /\ m \in Nat /\ m \notin DOMAIN stack[w]
      /\ stack'[w][m] = e /\ \A i \in DOMAIN stack[w] : stack'[w][i] = stack[w][i]
  BY <1>1, <1>5
<1>7. \A v \in Workers, i \in Nat, s \in Releases :
        HasClaim(v, i, s)' <=> HasClaim(v, i, s) \/ (b /\ v = w /\ i = m /\ s = n)
  <2> SUFFICES ASSUME NEW v \in Workers, NEW i \in Nat, NEW s \in Releases
               PROVE  HasClaim(v, i, s)' <=> HasClaim(v, i, s) \/ (b /\ v = w /\ i = m /\ s = n)
    OBVIOUS
  <2>1. e = [rel |-> s, claimed |-> TRUE] <=> b /\ s = n
    OBVIOUS
  <2> HIDE DEF m, e
  <2>2. CASE v = w
    BY <1>6, <2>1, <2>2 DEF HasClaim
  <2>3. CASE v # w
    BY <1>5, <2>3 DEF HasClaim
  <2> QED
    BY <2>2, <2>3
<1>8. StackShape'
  <2> SUFFICES ASSUME NEW v \in Workers
               PROVE  IF worker'[v] \in {"look", "checked", "parked"} THEN stack'[v] = <<>>
                      ELSE stack'[v] # <<>> /\ stack'[v][1].claimed
    BY DEF StackShape
  <2>1. CASE v # w
    BY <2>1, <1>3, <1>5 DEF ClaimInv, StackShape
  <2>2. CASE v = w
    <3>1. 1 \in DOMAIN stack[w] /\ stack'[w][1] = stack[w][1] /\ stack'[w] # <<>>
      BY <1>1, <1>4, <1>6
    <3> QED
      BY <3>1, <2>2, <1>3, <1>4
  <2> QED
    BY <2>1, <2>2
<1> HIDE DEF m, e
<1>9. b => /\ \A i \in DOMAIN queue : queue[i].rel # n
           /\ \A v \in Workers, i \in Nat : ~ HasClaim(v, i, n)
  BY <1>2 DEF ClaimInv, ClaimedIsInFlight
<1>10. \A i \in DOMAIN queue : queue[i].rel \in Releases
  <2>1. \A i \in DOMAIN queue : queue[i] \in Job
    BY DEF TypeOK
  <2> QED
    BY <2>1 DEF Job
<1>11. \A s \in Releases : inFlight'[s] # "no" <=> inFlight[s] # "no" \/ (b /\ s = n)
  BY <1>1, <1>2
<1>12. ClaimedIsInFlight'
  BY <1>3, <1>7, <1>10, <1>11 DEF ClaimInv, ClaimedIsInFlight
<1>13. InFlightIsClaimed'
  BY <1>3, <1>6, <1>7, <1>11 DEF ClaimInv, InFlightIsClaimed
<1>14. ClaimsDiffer'
  <2>1. \A i \in DOMAIN queue, v \in Workers, j \in Nat : ~ HasClaim(v, j, queue[i].rel)'
    BY <1>3, <1>7, <1>9, <1>10 DEF ClaimInv, ClaimsDiffer
  <2>2. \A s \in Releases, u, v \in Workers, i, j \in Nat :
          HasClaim(u, i, s)' /\ HasClaim(v, j, s)' => u = v /\ i = j
    BY <1>7, <1>9 DEF ClaimInv, ClaimsDiffer
  <2> QED
    BY <1>3, <2>1, <2>2 DEF ClaimInv, ClaimsDiffer, HasClaim
<1> QED
  BY <1>8, <1>12, <1>13, <1>14 DEF ClaimInv
\* Claims are exactly what the two forms of a claim are.
LEMMA ClaimsAre ==
  ASSUME TypeOK, NEW r \in Releases
  PROVE  \A x : x \in Claims(r) <=> \/ \E i \in DOMAIN queue : x = <<"queue", i>> /\ queue[i].rel = r
                                    \/ \E w \in Workers, i \in Nat : x = <<w, i>> /\ HasClaim(w, i, r)
<1>1. \A w \in Workers : \A i : i \in DOMAIN stack[w] => i \in Nat
  <2> SUFFICES ASSUME NEW w \in Workers PROVE \A i : i \in DOMAIN stack[w] => i \in Nat
    OBVIOUS
  <2>1. stack[w] \in Seq(Entry)
    BY DEF TypeOK
  <2> QED
    BY <2>1
<1> DEFINE waiting == {<<"queue", i>> : i \in {j \in DOMAIN queue : queue[j].rel = r}}
           held(w) == {<<w, i>> : i \in {j \in DOMAIN stack[w] : stack[w][j] = [rel |-> r, claimed |-> TRUE]}}
<1>2. \A x : x \in waiting <=> \E i \in DOMAIN queue : x = <<"queue", i>> /\ queue[i].rel = r
  OBVIOUS
<1>3. \A w \in Workers : \A x : x \in held(w) <=> \E i \in Nat : x = <<w, i>> /\ HasClaim(w, i, r)
  BY <1>1 DEF HasClaim
<1>4. Claims(r) = waiting \cup UNION {held(w) : w \in Workers}
  BY DEF Claims
<1> HIDE DEF waiting, held
<1> QED
  BY <1>2, <1>3, <1>4

\* The claims stay as ClaimInv says, with every step of callers and workers.
LEMMA ClaimsCorrect == Spec => []ClaimInv
<1>1. Init => ClaimInv
  BY DEF Init, ClaimInv, StackShape, ClaimedIsInFlight, InFlightIsClaimed, ClaimsDiffer, HasClaim
<1>2. TypeOK /\ ClaimInv /\ [Next]_vars => ClaimInv'
  <2> SUFFICES ASSUME TypeOK, ClaimInv, [Next]_vars PROVE ClaimInv'
    OBVIOUS
  <2>1. ASSUME NEW c \in Callers, NEW r \in Releases, NEW priority \in 0 .. 1, NEW async \in BOOLEAN,
               Submit(c, r, priority, async)
        PROVE  ClaimInv'
    BY <2>1, SubmitClaims
  <2>2. ASSUME NEW c \in Callers, Signal(c)
        PROVE  ClaimInv'
    <3>1. StackShape'
      BY <2>2 DEF Signal, Send, TypeOK, ClaimInv, StackShape
    <3> QED
      BY <2>2, <3>1, ClaimsKept DEF Signal
  <2>3. ASSUME NEW c \in Callers, GiveUp(c)
        PROVE  ClaimInv'
    <3>1. StackShape'
      BY <2>3 DEF GiveUp, ClaimInv, StackShape
    <3> QED
      BY <2>3, <3>1, ClaimsKept DEF GiveUp
  <2>4. ASSUME NEW r \in Releases, Cancel(r)
        PROVE  ClaimInv'
    <3>1. StackShape'
      BY <2>4 DEF Cancel, ClaimInv, StackShape
    <3> QED
      BY <2>4, <3>1, ClaimsKept DEF Cancel
  <2>5. ASSUME NEW i \in DOMAIN queue, Age(i)
        PROVE  ClaimInv'
    <3>1. StackShape'
      BY <2>5 DEF Age, ClaimInv, StackShape
    <3>2. queue \in Seq(Job) /\ \A j \in DOMAIN queue : queue[j] \in Job
      BY DEF TypeOK
    <3>3. DOMAIN queue' = DOMAIN queue /\ \A j \in DOMAIN queue : queue'[j].rel = queue[j].rel
      BY <2>5, <3>2 DEF Age, Job
    <3> QED
      BY <2>5, <3>1, <3>3, ClaimsKept DEF Age
  <2>6. ASSUME NEW w \in Workers, Take(w)
        PROVE  ClaimInv'
    BY <2>6, TakeClaims
  <2>7. ASSUME NEW w \in Workers, FindNone(w) \/ Receive(w) \/ Start(w) \/ Settle(w)
        PROVE  ClaimInv'
    <3>1. StackShape'
      <4>1. CASE FindNone(w) \/ Receive(w)
        BY <4>1 DEF FindNone, Receive, TypeOK, ClaimInv, StackShape
      <4>2. CASE Start(w) \/ Settle(w)
        BY <4>2 DEF Start, Settle, TypeOK, ClaimInv, StackShape
      <4> QED
        BY <2>7, <4>1, <4>2
    <3> QED
      BY <2>7, <3>1, ClaimsKept DEF FindNone, Receive, Start, Settle
  <2>8. ASSUME NEW w \in Workers, NEW n \in Releases, PromoteClaimed(w, n) \/ PromoteStored(w, n)
        PROVE  ClaimInv'
    BY <2>8, PromoteClaims
  <2>9. ASSUME NEW w \in Workers, NEW n \in Releases, PromoteInFlight(w, n)
        PROVE  ClaimInv'
    <3>1. StackShape'
      BY <2>9 DEF PromoteInFlight, TypeOK, ClaimInv, StackShape
    <3> QED
      BY <2>9, <3>1, ClaimsKept DEF PromoteInFlight
  <2>10. ASSUME NEW w \in Workers, Return(w) \/ Finish(w)
        PROVE  ClaimInv'
    BY <2>10, UnwindClaims
  <2>11. CASE UNCHANGED vars
    <3>1. StackShape'
      BY <2>11 DEF vars, ClaimInv, StackShape
    <3> QED
      BY <2>11, <3>1, ClaimsKept DEF vars
  <2>12. ASSUME NEW w \in Workers, Work(w) PROVE ClaimInv'
    BY <2>6, <2>7, <2>8, <2>9, <2>10, <2>12 DEF Work
  <2> QED
    BY <2>1, <2>2, <2>3, <2>4, <2>5, <2>11, <2>12 DEF Next
<1> QED
  BY <1>1, <1>2, TypeCorrect, PTL DEF Spec

\* No release is claimed twice, whoever submits it and whichever worker promotes it:
\* inFlight keeps two goroutines off one release.
THEOREM ClaimedOnce == Spec => []OneClaimPerRelease
<1>1. TypeOK /\ ClaimInv => OneClaimPerRelease
  <2> SUFFICES ASSUME TypeOK, ClaimInv, NEW r \in Releases
               PROVE  Cardinality(Claims(r)) <= 1
    BY DEF OneClaimPerRelease
  <2>1. \A i, j \in DOMAIN queue : queue[i].rel = r /\ queue[j].rel = r => i = j
    BY DEF ClaimInv, ClaimsDiffer
  <2>2. \A i \in DOMAIN queue, w \in Workers, j \in Nat : ~ (queue[i].rel = r /\ HasClaim(w, j, r))
    BY DEF ClaimInv, ClaimsDiffer
  <2>3. \A v, w \in Workers, i, j \in Nat : HasClaim(v, i, r) /\ HasClaim(w, j, r) => v = w /\ i = j
    BY DEF ClaimInv, ClaimsDiffer
  <2>4. ASSUME NEW x \in Claims(r), NEW y \in Claims(r) PROVE x = y
    <3>1. CASE \E i \in DOMAIN queue : x = <<"queue", i>> /\ queue[i].rel = r
      BY <3>1, <2>1, <2>2, ClaimsAre
    <3>2. CASE \E w \in Workers, i \in Nat : x = <<w, i>> /\ HasClaim(w, i, r)
      BY <3>2, <2>2, <2>3, ClaimsAre
    <3> QED
      BY <3>1, <3>2, ClaimsAre
  <2>5. CASE Claims(r) = {}
    BY <2>5, FS_EmptySet, SMT
  <2>6. CASE Claims(r) # {}
    <3>1. PICK x : x \in Claims(r)
      BY <2>6
    <3>2. Claims(r) = {x}
      BY <2>4, <3>1
    <3>3. Cardinality({x}) = 1
      BY FS_Singleton
    <3> QED
      BY <3>2, <3>3
  <2> QED
    BY <2>5, <2>6
<1> QED
  BY <1>1, TypeCorrect, ClaimsCorrect, PTL

\* Nothing stays in inFlight that no waiting job and no worker answers for: however a
\* job or an inline level ends, its release can be submitted again.
THEOREM NoClaimLeaks == Spec => []NoLeakedClaim
<1>1. TypeOK /\ ClaimInv => NoLeakedClaim
  <2> SUFFICES ASSUME TypeOK, ClaimInv, NEW r \in Releases, inFlight[r] # "no"
               PROVE  Claims(r) # {}
    BY DEF NoLeakedClaim
  <2>1. CASE \E i \in DOMAIN queue : queue[i].rel = r
    <3>1. PICK i \in DOMAIN queue : queue[i].rel = r
      BY <2>1
    <3>2. <<"queue", i>> \in Claims(r)
      BY <3>1, ClaimsAre
    <3> QED
      BY <3>2
  <2>2. CASE \E w \in Workers, i \in Nat : HasClaim(w, i, r)
    <3>1. PICK w \in Workers, i \in Nat : HasClaim(w, i, r)
      BY <2>2
    <3>2. <<w, i>> \in Claims(r)
      BY <3>1, ClaimsAre
    <3> QED
      BY <3>2
  <2> QED
    BY <2>1, <2>2 DEF ClaimInv, InFlightIsClaimed
<1> QED
  BY <1>1, TypeCorrect, ClaimsCorrect, PTL
=============================================================================
