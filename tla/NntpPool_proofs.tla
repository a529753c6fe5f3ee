--------------------------- MODULE NntpPool_proofs ---------------------------
(***************************************************************************)
(* For every number of callers, every size of the pool and every reserve:  *)
(* the pool's counter is exact, so the provider's limit is kept, the       *)
(* callers below PriorityInteractive keep to their share, and as long as   *)
(* no dial fails nobody is left parked that nobody will wake.              *)
(*                                                                         *)
(* WithinProviderLimit is not inductive: nothing in it says that the code's *)
(* counter, the one the guards look at, counts what it is meant to.  The   *)
(* strengthening is SlotsAccounted with open <= MaxOpen.                   *)
(* LowPriorityBounded needs two more facts: a gated caller past the gate   *)
(* has its entry in lowGate, and lowGate never overflows.  For             *)
(* NoStrandedWaiter, WakeInv names who is still to give a connection back. *)
(***************************************************************************)
EXTENDS NntpPool, FiniteSetTheorems, TLAPS

-----------------------------------------------------------------------------
\* Type correctness: every variable keeps the range its channel or label has.
THEOREM TypeCorrect == Spec => []TypeOK
<1> USE PoolAssumption
<1>1. Init => TypeOK
  <2> SUFFICES ASSUME Init PROVE TypeOK
    OBVIOUS
  <2>1. open \in Int /\ idle \in 0 .. IdleCap /\ stale \in 0 .. idle /\ freed \in 0 .. MaxOpen /\ kept \in Nat
    BY DEF Init, IdleCap
  <2>2. pc \in [Callers -> CallerPC]
    BY DEF Init, CallerPC
  <2>3. lowGate \subseteq Callers /\ ctxDone \subseteq Callers /\ closed \in BOOLEAN
    BY DEF Init
  <2>4. keepWarm \in {"exited", "reserve"} /\ sweep = "wait" /\ drain = "off"
    BY DEF Init
  <2> QED
    BY <2>1, <2>2, <2>3, <2>4 DEF TypeOK
<1>2. TypeOK /\ [Next]_vars => TypeOK'
  <2> SUFFICES ASSUME TypeOK, [Next]_vars PROVE TypeOK'
    OBVIOUS
  <2>1. ASSUME NEW c \in Callers, Begin(c) \/ Cancel(c) \/ Return(c) \/ GiveBack(c) \/ Notify(c)
        PROVE  TypeOK'
    BY <2>1 DEF TypeOK, CallerPC, IdleCap, loops, Begin, Cancel, Return, GiveBack, Notify, Goto, NotifyFreed
  <2>2. ASSUME NEW c \in Callers, PassGate(c) \/ GateCancelled(c) \/ TakeFresh(c) \/ TakeStale(c)
        PROVE  TypeOK'
    BY <2>2 DEF TypeOK, CallerPC, IdleCap, loops, PassGate, GateCancelled, TakeFresh, TakeStale, Goto
  <2>3. ASSUME NEW c \in Callers, NoIdle(c) \/ ReserveSlot(c) \/ Park(c) \/ DialOk(c) \/ DialFails(c)
        PROVE  TypeOK'
    BY <2>3 DEF TypeOK, CallerPC, IdleCap, loops, NoIdle, ReserveSlot, Park, DialOk, DialFails, Goto
  <2>4. ASSUME NEW c \in Callers, WakeFreed(c) \/ ParkCancelled(c) \/ Release(c) \/ Discard(c)
        PROVE  TypeOK'
    BY <2>4 DEF TypeOK, CallerPC, IdleCap, loops, WakeFreed, ParkCancelled, Release, Discard, Goto
  <2>5. CASE KeepWarm
    <3>1. CASE KeepWarmTick \/ KeepWarmExit \/ KeepWarmReserve
      BY <3>1 DEF TypeOK, CallerPC, IdleCap, loops, KeepWarmTick, KeepWarmExit, KeepWarmReserve
    <3>2. CASE KeepWarmDialOk \/ KeepWarmDialFails \/ KeepWarmRelease
      BY <3>2 DEF TypeOK, CallerPC, IdleCap, loops, KeepWarmDialOk, KeepWarmDialFails, KeepWarmRelease
    <3> QED
      BY <2>5, <3>1, <3>2 DEF KeepWarm
  <2>6. CASE Sweep
    <3>1. CASE SweepTick \/ SweepExit \/ SweepTake
      BY <3>1 DEF TypeOK, CallerPC, IdleCap, loops, SweepTick, SweepExit, SweepTake
    <3>2. CASE SweepGiveBack \/ SweepNotify
      BY <3>2 DEF TypeOK, CallerPC, IdleCap, loops, SweepGiveBack, SweepNotify, NotifyFreed
    <3>3. CASE SweepDrained \/ SweepPush \/ SweepDone
      BY <3>3 DEF TypeOK, CallerPC, IdleCap, loops, SweepDrained, SweepPush, SweepDone
    <3> QED
      BY <2>6, <3>1, <3>2, <3>3 DEF Sweep
  <2>7. CASE Drain
    <3>1. CASE DrainIdle \/ Close
      BY <3>1 DEF TypeOK, DrainIdle, Close
    <3>3. CASE DrainTake
      <4>1. idle' \in 0 .. IdleCap /\ stale' \in 0 .. idle'
        BY <3>3 DEF TypeOK, IdleCap, DrainTake
      <4> QED
        BY <3>3, <4>1 DEF TypeOK, DrainTake
    <3>2. CASE DrainGiveBack \/ DrainNotify \/ DrainDone
      BY <3>2 DEF TypeOK, CallerPC, IdleCap, loops, DrainGiveBack, DrainNotify, DrainDone, NotifyFreed
    <3> QED
      BY <2>7, <3>1, <3>2, <3>3 DEF Drain
  <2>8. CASE Age
    BY <2>8 DEF TypeOK, CallerPC, IdleCap, loops, Age
  <2>9. CASE UNCHANGED vars
    BY <2>9 DEF TypeOK, vars
  <2>10. ASSUME NEW c \in Callers, Begin(c) \/ Cancel(c) \/ Fetch(c) PROVE TypeOK'
    BY <2>1, <2>2, <2>3, <2>4, <2>10 DEF Fetch
  <2> QED
    BY <2>5, <2>6, <2>7, <2>8, <2>9, <2>10 DEF Next
<1> QED
  BY <1>1, <1>2, PTL DEF Spec

-----------------------------------------------------------------------------
\* How many callers hold a slot is a number.
LEMMA HoldersFinite ==
  IsFiniteSet(Holders) /\ Cardinality(Holders) \in Nat
<1>1. IsFiniteSet(Callers) /\ Holders \subseteq Callers
  BY PoolAssumption DEF Holders
<1> QED
  BY <1>1, FS_Subset, FS_CardinalityType

\* One caller's move changes the number of slots that callers hold by what it
\* takes or gives up.
LEMMA CallerMoves ==
  ASSUME TypeOK, NEW c \in Callers, NEW l \in CallerPC, pc' = [pc EXCEPT ![c] = l]
  PROVE  Cardinality(Holders') =
           Cardinality(Holders) + One(l \in HoldsSlot) - One(pc[c] \in HoldsSlot)
<1>1. IsFiniteSet(Holders) /\ Cardinality(Holders) \in Nat
  BY HoldersFinite
<1>2. c \in Holders <=> pc[c] \in HoldsSlot
  BY DEF Holders
<1>3. CASE l \in HoldsSlot
  <2>1. Holders' = Holders \cup {c}
    BY <1>3 DEF Holders, TypeOK
  <2>2. Cardinality(Holders \cup {c}) =
          IF c \in Holders THEN Cardinality(Holders) ELSE Cardinality(Holders) + 1
    BY <1>1, FS_AddElement
  <2> QED
    BY <2>1, <2>2, <1>1, <1>2, <1>3 DEF One
<1>4. CASE l \notin HoldsSlot
  <2>1. Holders' = Holders \ {c}
    BY <1>4 DEF Holders, TypeOK
  <2>2. Cardinality(Holders \ {c}) =
          IF c \in Holders THEN Cardinality(Holders) - 1 ELSE Cardinality(Holders)
    BY <1>1, FS_RemoveElement
  <2> QED
    BY <2>1, <2>2, <1>1, <1>2, <1>4 DEF One
<1> QED
  BY <1>3, <1>4

\* The strengthening of WithinProviderLimit.
SlotsInv == SlotsAccounted /\ open <= MaxOpen

\* The counter of open connections is exact and within the provider's limit.
THEOREM SlotsExact == Spec => []SlotsInv
<1> USE PoolAssumption
<1>1. Init => SlotsInv
  <2> SUFFICES ASSUME Init PROVE SlotsInv
    OBVIOUS
  <2>1. Holders = {}
    BY DEF Init, Holders, HoldsSlot
  <2>2. Cardinality(Holders) = 0
    BY <2>1, FS_EmptySet
  <2>3. PoolHolds = 0
    BY DEF Init, PoolHolds, One
  <2> QED
    BY <2>2, <2>3 DEF Init, SlotsInv, SlotsAccounted, Connections
<1>2. TypeOK /\ SlotsInv /\ [Next]_vars => SlotsInv'
  <2> SUFFICES ASSUME TypeOK, SlotsInv, [Next]_vars PROVE SlotsInv'
    OBVIOUS
  <2> USE DEF SlotsInv, SlotsAccounted, Connections, loops
  <2>1. Cardinality(Holders) \in Nat
    BY HoldersFinite
  <2>2. ASSUME NEW c \in Callers, Begin(c) \/ Fetch(c)
        PROVE  SlotsInv'
    <3>1. PoolHolds' = PoolHolds /\ PoolHolds \in Nat
      BY <2>2 DEF TypeOK, PoolHolds, One, Fetch, Begin, PassGate, GateCancelled, TakeFresh, TakeStale,
                  NoIdle, ReserveSlot, Park, DialOk, DialFails, WakeFreed, ParkCancelled, Release,
                  Discard, GiveBack, Notify, Return
    <3>2. ASSUME NEW from, NEW to \in CallerPC, Goto(c, from, to)
          PROVE  Cardinality(Holders') =
                   Cardinality(Holders) + One(to \in HoldsSlot) - One(from \in HoldsSlot)
      BY <3>2, CallerMoves DEF Goto
    <3>3. CASE Begin(c) \/ PassGate(c) \/ GateCancelled(c) \/ NoIdle(c) \/ Park(c) \/ Return(c)
      BY <3>1, <3>2, <3>3, <2>1
      DEF Begin, PassGate, GateCancelled, NoIdle, Park, Return, CallerPC, HoldsSlot, One
    <3>4. CASE TakeFresh(c) \/ TakeStale(c) \/ Release(c)
      BY <3>1, <3>2, <3>4, <2>1
      DEF TakeFresh, TakeStale, Release, CallerPC, HoldsSlot, One, TypeOK
    <3>5. CASE ReserveSlot(c) \/ DialFails(c) \/ GiveBack(c)
      BY <3>1, <3>2, <3>5, <2>1
      DEF ReserveSlot, DialFails, GiveBack, CallerPC, HoldsSlot, One, TypeOK
    <3>6. CASE DialOk(c) \/ WakeFreed(c) \/ ParkCancelled(c) \/ Discard(c) \/ Notify(c)
      BY <3>1, <3>2, <3>6, <2>1
      DEF DialOk, WakeFreed, ParkCancelled, Discard, Notify, CallerPC, HoldsSlot, One, TypeOK
    <3> QED
      BY <2>2, <3>3, <3>4, <3>5, <3>6 DEF Fetch
  <2>3. ASSUME pc' = pc
        PROVE  Cardinality(Holders') = Cardinality(Holders)
    BY <2>3 DEF Holders
  <2>4. CASE KeepWarm
    <3>1. pc' = pc
      BY <2>4 DEF KeepWarm, KeepWarmTick, KeepWarmExit, KeepWarmReserve,
                  KeepWarmDialOk, KeepWarmDialFails, KeepWarmRelease
    <3> QED
      BY <3>1, <2>1, <2>3, <2>4
      DEF KeepWarm, KeepWarmTick, KeepWarmExit, KeepWarmReserve, KeepWarmDialOk,
          KeepWarmDialFails, KeepWarmRelease, PoolHolds, One, TypeOK
  <2>5. CASE Sweep
    <3>1. pc' = pc
      BY <2>5 DEF Sweep, SweepTick, SweepExit, SweepTake, SweepGiveBack, SweepNotify,
                  SweepDrained, SweepPush, SweepDone
    <3> QED
      BY <3>1, <2>1, <2>3, <2>5
      DEF Sweep, SweepTick, SweepExit, SweepTake, SweepGiveBack, SweepNotify,
          SweepDrained, SweepPush, SweepDone, PoolHolds, One, TypeOK
  <2>6. CASE Drain
    <3>1. pc' = pc
      BY <2>6 DEF Drain, DrainIdle, Close, DrainTake, DrainGiveBack, DrainNotify, DrainDone
    <3> QED
      BY <3>1, <2>1, <2>3, <2>6
      DEF Drain, DrainIdle, Close, DrainTake, DrainGiveBack, DrainNotify, DrainDone,
          PoolHolds, One, TypeOK
  <2>7. ASSUME UNCHANGED <<open, idle, pc, loops>> PROVE SlotsInv'
    BY <2>3, <2>7 DEF PoolHolds
  <2> QED
    BY <2>2, <2>4, <2>5, <2>6, <2>7 DEF Next, Cancel, Age, vars
<1> QED
  BY <1>1, <1>2, TypeCorrect, PTL DEF Spec

\* The provider is never asked for more than maxConnections connections.
THEOREM ProviderLimitKept == Spec => []WithinProviderLimit
<1>1. SlotsInv => WithinProviderLimit
  BY DEF SlotsInv, SlotsAccounted, WithinProviderLimit
<1> QED
  BY <1>1, SlotsExact, PTL

\* No path leaks a slot or gives one back twice.
THEOREM SlotsNeverLeak == Spec => []SlotsAccounted
<1>1. SlotsInv => SlotsAccounted
  BY DEF SlotsInv
<1> QED
  BY <1>1, SlotsExact, PTL

-----------------------------------------------------------------------------
\* The labels past acquireGate, up to the deferred releaseGate.
PastGate == CallerPC \ {"off", "gate", "return"}

\* The strengthening of LowPriorityBounded.
GateInv ==
  Reserved > 0 =>
    /\ \A c \in Low : pc[c] \in PastGate => c \in lowGate
    /\ Cardinality(lowGate) <= MaxOpen - Reserved

\* A gated caller past the gate has its entry, and the gate never overflows.
THEOREM GateHeld == Spec => []GateInv
<1> USE PoolAssumption
<1>1. Init => GateInv
  BY FS_EmptySet DEF Init, GateInv, PastGate
<1>2. TypeOK /\ GateInv /\ [Next]_vars => GateInv'
  <2> SUFFICES ASSUME TypeOK, GateInv, [Next]_vars, Reserved > 0 PROVE GateInv'
    BY DEF GateInv
  <2> USE DEF GateInv
  <2>1. IsFiniteSet(lowGate) /\ Cardinality(lowGate) \in Nat
    BY FS_Subset, FS_CardinalityType DEF TypeOK
  <2>2. ASSUME NEW c \in Callers, PassGate(c) PROVE GateInv'
    <3>1. \A d \in Low : pc'[d] \in PastGate => d \in lowGate'
      BY <2>2 DEF PassGate, Goto, Gated, TypeOK
    <3>2. Cardinality(lowGate \cup {c}) =
            IF c \in lowGate THEN Cardinality(lowGate) ELSE Cardinality(lowGate) + 1
      BY <2>1, FS_AddElement
    <3>3. Cardinality(lowGate') <= MaxOpen - Reserved
      BY <2>1, <2>2, <3>2 DEF PassGate, Gated
    <3> QED
      BY <3>1, <3>3
  <2>3. ASSUME NEW c \in Callers, Return(c) PROVE GateInv'
    <3>1. \A d \in Low : pc'[d] \in PastGate => d \in lowGate'
      BY <2>3 DEF Return, Goto, TypeOK, PastGate
    <3>2. Cardinality(lowGate \ {c}) =
            IF c \in lowGate THEN Cardinality(lowGate) - 1 ELSE Cardinality(lowGate)
      BY <2>1, FS_RemoveElement
    <3>3. Cardinality(lowGate') <= MaxOpen - Reserved
      BY <2>1, <2>3, <3>2 DEF Return
    <3> QED
      BY <3>1, <3>3
  <2>4. ASSUME UNCHANGED lowGate,
               \A d \in Callers : pc'[d] \in PastGate => pc[d] \in PastGate
        PROVE  GateInv'
    BY <2>4
  <2>5. ASSUME NEW c \in Callers, Begin(c) \/ Cancel(c) \/ Fetch(c) PROVE GateInv'
    <3>1. CASE Begin(c) \/ Cancel(c) \/ GateCancelled(c) \/ NoIdle(c) \/ Park(c) \/ ReserveSlot(c)
      BY <3>1, <2>4
      DEF Begin, Cancel, GateCancelled, NoIdle, Park, ReserveSlot, Goto, PastGate, TypeOK, CallerPC
    <3>2. CASE TakeFresh(c) \/ TakeStale(c) \/ Release(c) \/ DialOk(c) \/ DialFails(c)
      BY <3>2, <2>4
      DEF TakeFresh, TakeStale, Release, DialOk, DialFails, Goto, PastGate, TypeOK, CallerPC
    <3>3. CASE WakeFreed(c) \/ ParkCancelled(c) \/ Discard(c) \/ GiveBack(c) \/ Notify(c)
      BY <3>3, <2>4
      DEF WakeFreed, ParkCancelled, Discard, GiveBack, Notify, Goto, PastGate, TypeOK, CallerPC
    <3> QED
      BY <2>2, <2>3, <2>5, <3>1, <3>2, <3>3 DEF Fetch
  <2>6. CASE KeepWarm
    BY <2>4, <2>6 DEF KeepWarm, KeepWarmTick, KeepWarmExit, KeepWarmReserve,
                      KeepWarmDialOk, KeepWarmDialFails, KeepWarmRelease
  <2>7. CASE Sweep
    BY <2>4, <2>7 DEF Sweep, SweepTick, SweepExit, SweepTake, SweepGiveBack, SweepNotify,
                      SweepDrained, SweepPush, SweepDone
  <2>8. CASE Drain
    BY <2>4, <2>8 DEF Drain, DrainIdle, Close, DrainTake, DrainGiveBack, DrainNotify, DrainDone
  <2>9. CASE Age \/ UNCHANGED vars
    BY <2>4, <2>9 DEF Age, vars
  <2> QED
    BY <2>5, <2>6, <2>7, <2>8, <2>9 DEF Next
<1> QED
  BY <1>1, <1>2, TypeCorrect, PTL DEF Spec

\* Background and streaming callers leave Reserved connections to interactive
\* ones, whatever the pool does meanwhile.
THEOREM LowPriorityKeepsToItsShare == Spec => []LowPriorityBounded
<1>1. TypeOK /\ GateInv => LowPriorityBounded
  <2> SUFFICES ASSUME TypeOK, GateInv, Reserved > 0
               PROVE  Cardinality(Holders \cap Low) <= MaxOpen - Reserved
    BY DEF LowPriorityBounded
  <2>1. IsFiniteSet(lowGate) /\ Cardinality(lowGate) \in Nat
    BY PoolAssumption, FS_Subset, FS_CardinalityType DEF TypeOK
  <2>2. Holders \cap Low \subseteq lowGate
    BY DEF GateInv, Holders, HoldsSlot, PastGate, CallerPC
  <2>3. Cardinality(Holders \cap Low) <= Cardinality(lowGate) /\ Cardinality(Holders \cap Low) \in Nat
    BY <2>1, <2>2, FS_Subset, FS_CardinalityType
  <2> QED
    BY <2>1, <2>3, PoolAssumption DEF GateInv
<1> QED
  BY <1>1, TypeCorrect, GateHeld, PTL
-----------------------------------------------------------------------------
\* Where a caller cannot stay without using, handing over or freeing a connection.
Busy == {"scan", "check", "dial", "use", "reap", "reaped", "discard", "discarded"}

\* Somebody is about to hand over a session or to free a slot.
WakerComes ==
  \/ \E c \in Callers : pc[c] \in Busy
  \/ keepWarm \in {"dial", "release"}
  \/ sweep \in {"reap", "reaped"} \/ kept > 0
  \/ drain \in {"reap", "reaped"}

\* The strengthening of NoStrandedWaiter, where no dial can fail.
WakeInv ==
  /\ ctxDone = {} /\ ~closed /\ keepWarm # "dialCancelled"
  /\ sweep \in {"wait", "exited"} => kept = 0
  /\ (\E c \in Callers : pc[c] = "parked") => idle > 0 \/ freed > 0 \/ WakerComes
\* A step after which somebody is about to wake the parked callers, or has.
LEMMA WakeStep ==
  ASSUME UNCHANGED <<ctxDone, closed>>, keepWarm' # "dialCancelled",
         sweep' \in {"wait", "exited"} => kept' = 0, WakeInv,
         (\E c \in Callers : pc'[c] = "parked") => idle' > 0 \/ freed' > 0 \/ WakerComes'
  PROVE  WakeInv'
BY DEF WakeInv

\* What takes a connection out of the channel, or a wake-up, leaves somebody who will
\* give it back or pass it on.  A caller that parks does so because every connection is
\* taken, and whoever has it is still to hand it over or to free its slot; a failed dial
\* frees one without a word, which is why none may fail here (NntpPool_stranded.cfg
\* shows what happens otherwise).
THEOREM WaiterIsWoken ==
  ASSUME ~DialMayFail, MayCancel = {}, ~MayClose
  PROVE  Spec => []NoStrandedWaiter
<1> USE PoolAssumption
<1>1. Init => WakeInv
  BY DEF Init, WakeInv
<1>2. TypeOK /\ SlotsInv /\ WakeInv /\ [Next]_vars => WakeInv'
  <2> SUFFICES ASSUME TypeOK, SlotsInv, WakeInv, [Next]_vars PROVE WakeInv'
    OBVIOUS
  <2> USE DEF loops
  <2>1. ctxDone = {} /\ ~closed /\ keepWarm # "dialCancelled" /\ (sweep \in {"wait", "exited"} => kept = 0)
    BY DEF WakeInv
  <2>2. ASSUME NEW c \in Callers, Begin(c) \/ Cancel(c) \/ Fetch(c)
        PROVE  WakeInv'
    <3>1. UNCHANGED <<keepWarm, sweep, kept, drain, closed>> /\ ctxDone' = ctxDone
      BY <2>1, <2>2
      DEF Fetch, Begin, Cancel, PassGate, GateCancelled, TakeFresh, TakeStale, NoIdle, ReserveSlot, Park,
          DialOk, DialFails, WakeFreed, ParkCancelled, Release, Discard, GiveBack, Notify, Return
    <3>2. ASSUME NEW d \in Callers, pc'[d] \in Busy PROVE WakeInv'
      BY <3>1, <3>2, <2>1, WakeStep DEF WakerComes
    <3>3. ASSUME idle' > 0 \/ freed' > 0 PROVE WakeInv'
      BY <3>1, <3>3, <2>1, WakeStep
    <3>4. ASSUME UNCHANGED <<idle, freed>>, \A d \in Callers : pc'[d] = "parked" => pc[d] = "parked",
                 \A d \in Callers : pc[d] \in Busy => pc'[d] \in Busy
          PROVE  WakeInv'
      BY <3>1, <3>4, <2>1, WakeStep DEF WakerComes, WakeInv
    <3>5. CASE Begin(c) \/ PassGate(c) \/ Return(c)
      BY <3>4, <3>5 DEF Begin, PassGate, Return, Goto, TypeOK, Busy
    <3>6. CASE TakeFresh(c) \/ TakeStale(c) \/ NoIdle(c) \/ ReserveSlot(c) \/ DialOk(c) \/ WakeFreed(c)
      <4>1. pc'[c] \in Busy
        BY <3>6 DEF TakeFresh, TakeStale, NoIdle, ReserveSlot, DialOk, WakeFreed, Goto, TypeOK, Busy
      <4> QED
        BY <4>1, <3>2
    <3>7. CASE Discard(c) \/ GiveBack(c)
      <4>1. pc'[c] \in Busy
        BY <3>7 DEF Discard, GiveBack, Goto, TypeOK, Busy
      <4> QED
        BY <4>1, <3>2
    <3>8. CASE Release(c) \/ Notify(c)
      <4>1. idle' > 0 \/ freed' > 0
        BY <3>8 DEF Release, Notify, NotifyFreed, TypeOK
      <4> QED
        BY <4>1, <3>3
    <3>9. CASE Park(c)
      <4>1. Connections > 0 /\ PoolHolds \in Nat /\ idle \in Nat
        BY <3>9 DEF Park, SlotsInv, SlotsAccounted, TypeOK, PoolHolds, One
      <4>2. Cardinality(Holders) \in Nat
        BY HoldersFinite
      <4>3. idle > 0 \/ Cardinality(Holders) > 0 \/ PoolHolds > 0
        BY <4>1, <4>2 DEF Connections
      <4>4. CASE idle > 0
        BY <4>4, <3>3, <3>9 DEF Park
      <4>5. CASE Cardinality(Holders) > 0
        <5>1. PICK d \in Holders : TRUE
          BY <4>5, FS_EmptySet
        <5>2. d \in Callers /\ pc[d] \in HoldsSlot /\ d # c
          BY <5>1, <3>9 DEF Holders, HoldsSlot, Park, Goto
        <5>3. pc'[d] \in Busy
          BY <5>2, <3>9 DEF Park, Goto, HoldsSlot, Busy, TypeOK
        <5> QED
          BY <5>2, <5>3, <3>2
      <4>6. CASE PoolHolds > 0
        <5>1. keepWarm \in {"dial", "release"} \/ sweep = "reap" \/ kept > 0 \/ drain = "reap"
          BY <4>6, <2>1 DEF PoolHolds, One, TypeOK
        <5> QED
          BY <5>1, <3>1, <2>1, WakeStep DEF WakerComes
      <4> QED
        BY <4>3, <4>4, <4>5, <4>6
    <3>10. ~ (Cancel(c) \/ GateCancelled(c) \/ DialFails(c) \/ ParkCancelled(c))
      BY <2>1 DEF Cancel, GateCancelled, DialFails, ParkCancelled
    <3> QED
      BY <2>2, <3>5, <3>6, <3>7, <3>8, <3>9, <3>10 DEF Fetch
  <2>3. CASE KeepWarm
    <3>1. UNCHANGED <<freed, pc, ctxDone, sweep, kept, drain, closed>> /\ keepWarm' # "dialCancelled"
      BY <2>1, <2>3 DEF KeepWarm, KeepWarmTick, KeepWarmExit, KeepWarmReserve, KeepWarmDialOk,
                        KeepWarmDialFails, KeepWarmRelease
    <3>2. idle' > 0 \/ keepWarm' \in {"dial", "release"} \/ (idle' = idle /\ keepWarm \notin {"dial", "release"})
      BY <2>1, <2>3 DEF KeepWarm, KeepWarmTick, KeepWarmExit, KeepWarmReserve, KeepWarmDialOk,
                        KeepWarmDialFails, KeepWarmRelease, TypeOK
    <3> QED
      BY <3>1, <3>2, <2>1, WakeStep DEF WakeInv, WakerComes
  <2>4. CASE Sweep
    <3>1. UNCHANGED <<pc, ctxDone, keepWarm, drain, closed>> /\ (sweep' \in {"wait", "exited"} => kept' = 0)
      BY <2>1, <2>4 DEF Sweep, SweepTick, SweepExit, SweepTake, SweepGiveBack, SweepNotify,
                        SweepDrained, SweepPush, SweepDone
    <3>2. \/ idle' > 0 \/ freed' > 0 \/ kept' > 0 \/ sweep' \in {"reap", "reaped"}
          \/ UNCHANGED <<idle, freed, kept>> /\ sweep \notin {"reap", "reaped"}
      BY <2>4 DEF Sweep, SweepTick, SweepExit, SweepTake, SweepGiveBack, SweepNotify, NotifyFreed,
                  SweepDrained, SweepPush, SweepDone, TypeOK
    <3> QED
      BY <3>1, <3>2, <2>1, WakeStep DEF WakeInv, WakerComes
  <2>5. CASE Drain
    <3>1. UNCHANGED <<pc, ctxDone, keepWarm, sweep, kept, closed>>
      BY <2>5 DEF Drain, DrainIdle, Close, DrainTake, DrainGiveBack, DrainNotify, DrainDone
    <3>2. \/ freed' > 0 \/ drain' \in {"reap", "reaped"}
          \/ UNCHANGED <<idle, freed>> /\ drain \notin {"reap", "reaped"}
      BY <2>5 DEF Drain, DrainIdle, Close, DrainTake, DrainGiveBack, DrainNotify, NotifyFreed, DrainDone, TypeOK
    <3> QED
      BY <3>1, <3>2, <2>1, WakeStep DEF WakeInv, WakerComes
  <2>6. CASE Age \/ UNCHANGED vars
    BY <2>6 DEF Age, vars, WakeInv, WakerComes
  <2> QED
    BY <2>2, <2>3, <2>4, <2>5, <2>6 DEF Next
<1>3. TypeOK /\ WakeInv => NoStrandedWaiter
  BY DEF WakeInv, WakerComes, NoStrandedWaiter, Quiescent, Busy, TypeOK
<1> QED
  BY <1>1, <1>2, <1>3, TypeCorrect, SlotsExact, PTL DEF Spec
=============================================================================
