------------------------------ MODULE NntpPool ------------------------------
(***************************************************************************)
(* The pool of NNTP connections to one provider:                           *)
(* internal/nntp/pool.go, type PooledSource.                               *)
(*                                                                         *)
(* Callers fetch articles through BodyPriority/StatPriority; the pool's own *)
(* goroutines close idle connections (sweepLoop) and redial a few of them  *)
(* (keepWarmLoop); a settings change drains the pool (DrainIdle) or ends   *)
(* it (Close).  All of them share the counter `open', guarded by a mutex,  *)
(* and the two channels `idle' and `freed', and none of them holds the     *)
(* mutex across a channel operation or a dial.                             *)
(*                                                                         *)
(* A connection is data: only how many there are matters, so the channel   *)
(* `idle' is the number of sessions in it and `stale' how many of those    *)
(* are older than idleTimeout.  The channel is a FIFO, but a sweep pushes  *)
(* sessions back behind younger ones, so either kind may come out first.   *)
(***************************************************************************)
EXTENDS Integers, FiniteSets

CONSTANTS
  Callers,      \* goroutines that fetch articles
  Low,          \* those of them below PriorityInteractive
  MaxOpen,      \* provider.MaxConnections
  Reserved,     \* connections kept for PriorityInteractive
  MinWarm,      \* minWarmConns
  DialMayFail,  \* may the provider refuse a connection?
  MayCancel,    \* the callers whose context may be cancelled
  MayClose      \* may the provider be removed or replaced at run time?

ASSUME PoolAssumption ==
  /\ IsFiniteSet(Callers)
  /\ Low \subseteq Callers
  /\ MaxOpen \in Nat \ {0}
  /\ Reserved \in 0 .. MaxOpen-1
  /\ MinWarm \in Nat
  /\ DialMayFail \in BOOLEAN
  /\ MayCancel \subseteq Callers
  /\ MayClose \in BOOLEAN

VARIABLES
  open,     \* slots taken: connections that exist or are being dialled
  idle,     \* len(p.idle)
  stale,    \* those of them idle for longer than idleTimeout
  freed,    \* len(p.freed)
  lowGate,  \* the callers holding an entry of p.lowGate
  pc,       \* where each caller is in BodyPriority/StatPriority
  ctxDone,  \* the callers whose request context is cancelled
  keepWarm, \* where keepWarmLoop is
  sweep,    \* where sweepLoop is
  kept,     \* len(keep), the fresh sessions sweepOnce holds
  drain,    \* where DrainIdle is
  closed    \* Close has cancelled the pool's context

vars == <<open, idle, stale, freed, lowGate, pc, ctxDone, keepWarm, sweep, kept, drain, closed>>
loops == <<keepWarm, sweep, kept, drain, closed>>

(***************************************************************************)
(* Where a caller can be.  "scan" is the top of acquire's loop, "check" its *)
(* label noIdle, "parked" its last select; in "reap" it holds a session it *)
(* found stale, in "discard" one it closed after an error; in "reaped" and *)
(* "discarded" it has decremented open and has yet to call notifyFreed.    *)
(***************************************************************************)
CallerPC == {"off", "gate", "scan", "check", "dial", "parked", "use",
             "reap", "reaped", "discard", "discarded", "return"}
HoldsSlot == {"dial", "use", "reap", "discard"}
Holders == {c \in Callers : pc[c] \in HoldsSlot}

Warm == IF MinWarm > MaxOpen THEN MaxOpen ELSE MinWarm
IdleCap == 2 * MaxOpen
Gated(c) == c \in Low /\ Reserved > 0

TypeOK ==
  /\ open \in Int
  /\ idle \in 0 .. IdleCap
  /\ stale \in 0 .. idle
  /\ freed \in 0 .. MaxOpen
  /\ lowGate \subseteq Callers
  /\ pc \in [Callers -> CallerPC]
  /\ ctxDone \subseteq Callers
  /\ keepWarm \in {"wait", "reserve", "dial", "dialCancelled", "release", "exited"}
  /\ sweep \in {"wait", "take", "reap", "reaped", "push", "exited"}
  /\ kept \in Nat
  /\ drain \in {"off", "take", "reap", "reaped"}
  /\ closed \in BOOLEAN

Init ==
  /\ open = 0
  /\ idle = 0
  /\ stale = 0
  /\ freed = 0
  /\ lowGate = {}
  /\ pc = [c \in Callers |-> "off"]
  /\ ctxDone = {}
  /\ keepWarm = IF Warm > 0 THEN "reserve" ELSE "exited"
  /\ sweep = "wait"
  /\ kept = 0
  /\ drain = "off"
  /\ closed = FALSE

Goto(c, from, to) == pc[c] = from /\ pc' = [pc EXCEPT ![c] = to]

(***************************************************************************)
(* Each definition named M_D is a mutant of D: what a plausible mistake    *)
(* would make of that step.  Nothing uses them; replacing D's body by M_D  *)
(* shows that the properties below notice.                                 *)
(***************************************************************************)
M_NotifyFreed == freed' = freed + 1

\* The non-blocking send of notifyFreed: dropped when the buffer is full.
NotifyFreed == freed' = IF freed < MaxOpen THEN freed + 1 ELSE freed

-----------------------------------------------------------------------------
(* Callers: BodyPriority, StatPriority, acquireGate, acquire, release, discard. *)

\* BodyPriority or StatPriority is called.
Begin(c) ==
  /\ Goto(c, "off", "gate")
  /\ UNCHANGED <<open, idle, stale, freed, lowGate, ctxDone, loops>>

Cancel(c) ==
  /\ c \in MayCancel
  /\ pc[c] # "off"
  /\ ctxDone' = ctxDone \cup {c}
  /\ UNCHANGED <<open, idle, stale, freed, lowGate, pc, loops>>

\* The gate has the pool's size, not the size less the reserve.
M_PassGate(c) ==
  /\ Gated(c) => Cardinality(lowGate) < MaxOpen
  /\ Goto(c, "gate", IF c \in ctxDone THEN "return" ELSE "scan")
  /\ lowGate' = IF Gated(c) THEN lowGate \cup {c} ELSE lowGate
  /\ UNCHANGED <<open, idle, stale, freed, ctxDone, loops>>

\* acquireGate, and acquire's one look at ctx.Err() before it borrows.
PassGate(c) ==
  /\ Gated(c) => Cardinality(lowGate) < MaxOpen - Reserved
  /\ Goto(c, "gate", IF c \in ctxDone THEN "return" ELSE "scan")
  /\ lowGate' = IF Gated(c) THEN lowGate \cup {c} ELSE lowGate
  /\ UNCHANGED <<open, idle, stale, freed, ctxDone, loops>>

GateCancelled(c) ==
  /\ Gated(c) /\ c \in ctxDone
  /\ Goto(c, "gate", "return")
  /\ UNCHANGED <<open, idle, stale, freed, lowGate, ctxDone, loops>>

\* Receive from idle, while scanning or while parked.
TakeFresh(c) ==
  /\ stale < idle
  /\ idle' = idle - 1
  /\ Goto(c, "scan", "use") \/ Goto(c, "parked", "use")
  /\ UNCHANGED <<open, stale, freed, lowGate, ctxDone, loops>>

TakeStale(c) ==
  /\ stale > 0
  /\ idle' = idle - 1
  /\ stale' = stale - 1
  /\ Goto(c, "scan", "reap") \/ Goto(c, "parked", "reap")
  /\ UNCHANGED <<open, freed, lowGate, ctxDone, loops>>

NoIdle(c) ==
  /\ idle = 0
  /\ Goto(c, "scan", "check")
  /\ UNCHANGED <<open, idle, stale, freed, lowGate, ctxDone, loops>>

\* The limit is off by one.
M_ReserveSlot(c) ==
  /\ open <= MaxOpen
  /\ open' = open + 1
  /\ Goto(c, "check", "dial")
  /\ UNCHANGED <<idle, stale, freed, lowGate, ctxDone, loops>>

ReserveSlot(c) ==
  /\ open < MaxOpen
  /\ open' = open + 1
  /\ Goto(c, "check", "dial")
  /\ UNCHANGED <<idle, stale, freed, lowGate, ctxDone, loops>>

Park(c) ==
  /\ open >= MaxOpen
  /\ Goto(c, "check", "parked")
  /\ UNCHANGED <<open, idle, stale, freed, lowGate, ctxDone, loops>>

DialOk(c) ==
  /\ c \notin ctxDone
  /\ Goto(c, "dial", "use")
  /\ UNCHANGED <<open, idle, stale, freed, lowGate, ctxDone, loops>>

\* The slot goes back without a call of notifyFreed.
DialFails(c) ==
  /\ DialMayFail \/ c \in ctxDone
  /\ open' = open - 1
  /\ Goto(c, "dial", "return")
  /\ UNCHANGED <<idle, stale, freed, lowGate, ctxDone, loops>>

WakeFreed(c) ==
  /\ freed > 0
  /\ freed' = freed - 1
  /\ Goto(c, "parked", "scan")
  /\ UNCHANGED <<open, idle, stale, lowGate, ctxDone, loops>>

ParkCancelled(c) ==
  /\ c \in ctxDone
  /\ Goto(c, "parked", "return")
  /\ UNCHANGED <<open, idle, stale, freed, lowGate, ctxDone, loops>>

\* Body succeeded, or Stat answered (a 430 included).
Release(c) ==
  /\ idle < IdleCap
  /\ idle' = idle + 1
  /\ Goto(c, "use", "return")
  /\ UNCHANGED <<open, stale, freed, lowGate, ctxDone, loops>>

\* Body or Stat failed, or the buffer of idle is full.
Discard(c) ==
  /\ Goto(c, "use", "discard")
  /\ UNCHANGED <<open, idle, stale, freed, lowGate, ctxDone, loops>>

\* open-- under the mutex, then notifyFreed outside it.
GiveBack(c) ==
  /\ \/ Goto(c, "reap", "reaped")
     \/ Goto(c, "discard", "discarded")
  /\ open' = open - 1
  /\ UNCHANGED <<idle, stale, freed, lowGate, ctxDone, loops>>

\* A discarded or reaped session frees its slot and wakes nobody.
M_Notify(c) ==
  /\ \/ Goto(c, "reaped", "scan")
     \/ Goto(c, "discarded", "return")
  /\ UNCHANGED <<open, idle, stale, freed, lowGate, ctxDone, loops>>

Notify(c) ==
  /\ \/ Goto(c, "reaped", "scan")
     \/ Goto(c, "discarded", "return")
  /\ NotifyFreed
  /\ UNCHANGED <<open, idle, stale, lowGate, ctxDone, loops>>

\* The deferred releaseGate; the next call has a context of its own.
Return(c) ==
  /\ Goto(c, "return", "off")
  /\ lowGate' = lowGate \ {c}
  /\ ctxDone' = ctxDone \ {c}
  /\ UNCHANGED <<open, idle, stale, freed, loops>>

Fetch(c) ==
  \/ PassGate(c) \/ GateCancelled(c)
  \/ TakeFresh(c) \/ TakeStale(c) \/ NoIdle(c) \/ ReserveSlot(c) \/ Park(c)
  \/ DialOk(c) \/ DialFails(c) \/ WakeFreed(c) \/ ParkCancelled(c)
  \/ Release(c) \/ Discard(c) \/ GiveBack(c) \/ Notify(c) \/ Return(c)

-----------------------------------------------------------------------------
(* keepWarmLoop and keepWarmOnce. *)

\* The ticker; a select that also sees ctx.Done() may still choose it.
KeepWarmTick ==
  /\ keepWarm = "wait"
  /\ keepWarm' = "reserve"
  /\ UNCHANGED <<open, idle, stale, freed, lowGate, pc, ctxDone, sweep, kept, drain, closed>>

KeepWarmExit ==
  /\ keepWarm = "wait" /\ closed
  /\ keepWarm' = "exited"
  /\ UNCHANGED <<open, idle, stale, freed, lowGate, pc, ctxDone, sweep, kept, drain, closed>>

KeepWarmReserve ==
  /\ keepWarm = "reserve"
  /\ IF open >= Warm \/ open >= MaxOpen
     THEN keepWarm' = "wait" /\ UNCHANGED open
     ELSE /\ keepWarm' = IF closed THEN "dialCancelled" ELSE "dial"
          /\ open' = open + 1
  /\ UNCHANGED <<idle, stale, freed, lowGate, pc, ctxDone, sweep, kept, drain, closed>>

KeepWarmDialOk ==
  /\ keepWarm = "dial"
  /\ keepWarm' = "release"
  /\ UNCHANGED <<open, idle, stale, freed, lowGate, pc, ctxDone, sweep, kept, drain, closed>>

\* The slot of a failed dial is not given back.
M_KeepWarmDialFails ==
  /\ \/ keepWarm = "dial" /\ (DialMayFail \/ closed)
     \/ keepWarm = "dialCancelled"
  /\ keepWarm' = "wait"
  /\ UNCHANGED <<open, idle, stale, freed, lowGate, pc, ctxDone, sweep, kept, drain, closed>>

\* As in acquire, the slot goes back without a call of notifyFreed.
KeepWarmDialFails ==
  /\ \/ keepWarm = "dial" /\ (DialMayFail \/ closed)
     \/ keepWarm = "dialCancelled"
  /\ keepWarm' = "wait"
  /\ open' = open - 1
  /\ UNCHANGED <<idle, stale, freed, lowGate, pc, ctxDone, sweep, kept, drain, closed>>

KeepWarmRelease ==
  /\ keepWarm = "release"
  /\ idle < IdleCap
  /\ idle' = idle + 1
  /\ keepWarm' = "reserve"
  /\ UNCHANGED <<open, stale, freed, lowGate, pc, ctxDone, sweep, kept, drain, closed>>

KeepWarm ==
  \/ KeepWarmTick \/ KeepWarmExit \/ KeepWarmReserve
  \/ KeepWarmDialOk \/ KeepWarmDialFails \/ KeepWarmRelease

-----------------------------------------------------------------------------
(* sweepLoop and sweepOnce. *)

SweepTick ==
  /\ sweep = "wait"
  /\ sweep' = "take"
  /\ UNCHANGED <<open, idle, stale, freed, lowGate, pc, ctxDone, keepWarm, kept, drain, closed>>

SweepExit ==
  /\ sweep = "wait" /\ closed
  /\ sweep' = "exited"
  /\ UNCHANGED <<open, idle, stale, freed, lowGate, pc, ctxDone, keepWarm, kept, drain, closed>>

SweepTake ==
  /\ sweep = "take"
  /\ \/ stale > 0 /\ sweep' = "reap" /\ stale' = stale - 1 /\ UNCHANGED kept
     \/ stale < idle /\ kept' = kept + 1 /\ UNCHANGED <<sweep, stale>>
  /\ idle' = idle - 1
  /\ UNCHANGED <<open, freed, lowGate, pc, ctxDone, keepWarm, drain, closed>>

SweepGiveBack ==
  /\ sweep = "reap"
  /\ sweep' = "reaped"
  /\ open' = open - 1
  /\ UNCHANGED <<idle, stale, freed, lowGate, pc, ctxDone, keepWarm, kept, drain, closed>>

\* The sweep frees the slots of what it closes and wakes nobody.
M_SweepNotify ==
  /\ sweep = "reaped"
  /\ sweep' = "take"
  /\ UNCHANGED <<open, idle, stale, freed, lowGate, pc, ctxDone, keepWarm, kept, drain, closed>>

SweepNotify ==
  /\ sweep = "reaped"
  /\ sweep' = "take"
  /\ NotifyFreed
  /\ UNCHANGED <<open, idle, stale, lowGate, pc, ctxDone, keepWarm, kept, drain, closed>>

SweepDrained ==
  /\ sweep = "take"
  /\ idle = 0
  /\ sweep' = "push"
  /\ UNCHANGED <<open, idle, stale, freed, lowGate, pc, ctxDone, keepWarm, kept, drain, closed>>

\* Its default arm, a full buffer, is out of reach: SlotsAccounted bounds idle by MaxOpen.
SweepPush ==
  /\ sweep = "push"
  /\ kept > 0
  /\ idle < IdleCap
  /\ idle' = idle + 1
  /\ kept' = kept - 1
  /\ UNCHANGED <<open, stale, freed, lowGate, pc, ctxDone, keepWarm, sweep, drain, closed>>

SweepDone ==
  /\ sweep = "push"
  /\ kept = 0
  /\ sweep' = "wait"
  /\ UNCHANGED <<open, idle, stale, freed, lowGate, pc, ctxDone, keepWarm, kept, drain, closed>>

Sweep ==
  \/ SweepTick \/ SweepExit \/ SweepTake \/ SweepGiveBack \/ SweepNotify
  \/ SweepDrained \/ SweepPush \/ SweepDone

-----------------------------------------------------------------------------
(* DrainIdle, alone after a routing change or as the second half of Close. *)

DrainIdle ==
  /\ drain = "off" /\ ~closed
  /\ drain' = "take"
  /\ UNCHANGED <<open, idle, stale, freed, lowGate, pc, ctxDone, keepWarm, sweep, kept, closed>>

Close ==
  /\ MayClose
  /\ drain = "off" /\ ~closed
  /\ drain' = "take"
  /\ closed' = TRUE
  /\ UNCHANGED <<open, idle, stale, freed, lowGate, pc, ctxDone, keepWarm, sweep, kept>>

DrainTake ==
  /\ drain = "take"
  /\ idle > 0
  /\ idle' = idle - 1
  /\ \/ stale > 0 /\ stale' = stale - 1
     \/ stale < idle /\ UNCHANGED stale
  /\ drain' = "reap"
  /\ UNCHANGED <<open, freed, lowGate, pc, ctxDone, keepWarm, sweep, kept, closed>>

DrainGiveBack ==
  /\ drain = "reap"
  /\ drain' = "reaped"
  /\ open' = open - 1
  /\ UNCHANGED <<idle, stale, freed, lowGate, pc, ctxDone, keepWarm, sweep, kept, closed>>

DrainNotify ==
  /\ drain = "reaped"
  /\ drain' = "take"
  /\ NotifyFreed
  /\ UNCHANGED <<open, idle, stale, lowGate, pc, ctxDone, keepWarm, sweep, kept, closed>>

DrainDone ==
  /\ drain = "take"
  /\ idle = 0
  /\ drain' = "off"
  /\ UNCHANGED <<open, idle, stale, freed, lowGate, pc, ctxDone, keepWarm, sweep, kept, closed>>

Drain == DrainIdle \/ Close \/ DrainTake \/ DrainGiveBack \/ DrainNotify \/ DrainDone

-----------------------------------------------------------------------------
\* Time passes: one more session of the channel is over idleTimeout.
Age ==
  /\ stale < idle
  /\ stale' = stale + 1
  /\ UNCHANGED <<open, idle, freed, lowGate, pc, ctxDone, loops>>

Next ==
  \/ \E c \in Callers : Begin(c) \/ Cancel(c) \/ Fetch(c)
  \/ KeepWarm
  \/ Sweep
  \/ Drain
  \/ Age

Spec == Init /\ [][Next]_vars
-----------------------------------------------------------------------------
(***************************************************************************)
(* Properties.                                                             *)
(***************************************************************************)

\* 1 when a goroutine of the pool holds a slot, 0 otherwise.
One(b) == IF b THEN 1 ELSE 0
PoolHolds ==
  One(keepWarm \in {"dial", "dialCancelled", "release"})
    + One(sweep = "reap") + kept + One(drain = "reap")

\* Connections that exist or are being dialled, wherever they are.
Connections == idle + Cardinality(Holders) + PoolHolds

(* The provider is never asked for more than maxConnections connections at *)
(* once, counting those in the channel, in use, being dialled by anyone,   *)
(* and in the hands of a sweep or a drain.  The counter the code compares  *)
(* with maxOpen is updated away from the dials and closes it counts.       *)
WithinProviderLimit == Connections <= MaxOpen

(* The counter is exact: no path through acquire, release, discard, the    *)
(* sweep, the drain or the warm-up leaks a slot or gives one back twice.   *)
SlotsAccounted == open = Connections

(* lowGate's guarantee: callers below PriorityInteractive never hold more  *)
(* than MaxOpen - Reserved connections, whatever the pool closes, redials  *)
(* or hands over meanwhile.                                                *)
LowPriorityBounded ==
  Reserved > 0 => Cardinality(Holders \cap Low) <= MaxOpen - Reserved

(* Nobody is left to wake the callers parked in acquire: every other       *)
(* caller is parked or gone and the pool's goroutines are between ticks.   *)
Quiescent ==
  /\ \A c \in Callers : pc[c] \in {"off", "parked"}
  /\ keepWarm \in {"wait", "exited"}
  /\ sweep \in {"wait", "exited"}
  /\ drain = "off"

(* A caller is not left parked in acquire once everyone who could hand it  *)
(* a session or a wake-up has gone: "notifyFreed wakes a parked acquire()  *)
(* waiter after p.open is decremented without a session to hand off".      *)
NoStrandedWaiter ==
  Quiescent /\ (\E c \in Callers : pc[c] = "parked") => idle > 0 \/ freed > 0

(***************************************************************************)
(* Fairness.  A goroutine that can run does run, and a dial and a round    *)
(* trip end (client.go gives both a deadline).  A channel serves the       *)
(* goroutines parked on it in turn, and a session just released is fresh   *)
(* for idleTimeout, hence the strong fairness of the receives; so is the   *)
(* mutex, hence that of ReserveSlot.  Nothing obliges a caller to start or *)
(* to cancel a fetch, nor the ticker or the operator to do anything.       *)
(***************************************************************************)
Fairness ==
  /\ \A c \in Callers :
       /\ WF_vars(Fetch(c))
       /\ SF_vars(TakeFresh(c)) /\ SF_vars(WakeFreed(c))
       /\ SF_vars(ReserveSlot(c)) /\ SF_vars(PassGate(c))
  /\ WF_vars(KeepWarmReserve \/ KeepWarmDialOk \/ KeepWarmDialFails \/ KeepWarmRelease)
  /\ WF_vars(SweepTake \/ SweepGiveBack \/ SweepNotify \/ SweepDrained \/ SweepPush \/ SweepDone)
  /\ WF_vars(DrainTake \/ DrainGiveBack \/ DrainNotify \/ DrainDone)

FairSpec == Spec /\ Fairness

(* The tickers are half an idleTimeout apart, a session ages in a whole    *)
(* one, a warm-up stops once Warm connections are open, and drains follow  *)
(* changes of the settings: against the steps of a fetch they are rare.  A *)
(* caller that keeps fetching may overtake a parked one each time, which   *)
(* is starvation and no lost wake-up: the claim is about a stretch in      *)
(* which neither those nor new fetches begin.                              *)
Undisturbed ==
  <>[][~ \/ KeepWarmTick \/ KeepWarmReserve \/ SweepTick \/ DrainIdle \/ Age
         \/ \E c \in Callers : Begin(c)]_vars

(* Every fetch under way returns: no interleaving of hand-overs, stale     *)
(* sessions, discards, sweeps and drains loses the wake-up of a parked     *)
(* caller.                                                                 *)
FetchReturns ==
  Undisturbed => \A c \in Callers : pc[c] # "off" ~> pc[c] = "off"
=============================================================================
