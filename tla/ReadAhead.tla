------------------------------ MODULE ReadAhead ------------------------------
(***************************************************************************)
(* Read-ahead of the open streams (internal/stream/session_manager.go).    *)
(* A session is an object registered under an id; a window is a goroutine  *)
(* that prefetches articles ahead of the session's position and holds the  *)
(* object and the generation it was scheduled with.  The manager cancels a *)
(* window through the cancel function kept in the session, so a window the *)
(* manager has lost sight of can be stopped by nobody.                     *)
(*                                                                         *)
(* Positions are counted in whole articles, and a fetch may end well or    *)
(* badly.  The pacing of the first launches and the metrics are left out.  *)
(***************************************************************************)
EXTENDS Integers, FiniteSets, FiniteSetsExt

CONSTANTS
  Ids,             \* session ids
  FileIds,         \* virtual files
  Articles,        \* articles in a file
  WindowArticles,  \* what windowBytes and articleLimit allow in one window
  MaxParallelism,
  Slots,           \* room for running windows: a bound, the code has none
  Turns            \* bound on the objects registered and on generations

VARIABLES
  sessions,  \* the registered session of each id
  window,    \* the running windows
  born       \* objects registered so far: what tells two objects apart

readAheadVars == <<sessions, window, born>>

Absent == [obj |-> 0]
NoCancel == 0
Free == [pc |-> "free"]
Object(f) == [obj |-> born + 1, file |-> f, cancel |-> NoCancel, start |-> 0,
              rescheduleAt |-> 0, valid |-> FALSE, generation |-> 0]

FreeSlots == {w \in Slots : window[w] = Free}
Registered == {i \in Ids : sessions[i] # Absent}

TypeOK ==
  /\ born \in 0 .. Turns
  /\ \A i \in Registered :
       /\ sessions[i].obj \in 1 .. born
       /\ sessions[i].file \in FileIds
       /\ sessions[i].cancel \in Slots \cup {NoCancel}
       /\ sessions[i].generation \in 0 .. Turns
  /\ \A w \in Slots : window[w].pc \in {"free", "launch", "drain", "settle"}

Init ==
  /\ sessions = [i \in Ids |-> Absent]
  /\ window = [w \in Slots |-> Free]
  /\ born = 0

-----------------------------------------------------------------------------
\* cancel() of a session, when it has one: the window's context ends.
Cancelled(windows, s) ==
  IF s # Absent /\ s.cancel # NoCancel THEN [windows EXCEPT ![s.cancel].live = FALSE] ELSE windows

Register(i, f) ==
  /\ born < Turns
  /\ window' = Cancelled(window, sessions[i])
  /\ sessions' = [sessions EXCEPT ![i] = Object(f)]
  /\ born' = born + 1

\* RegisterMeta: the other sessions on the same file lose their read-ahead for good.
RegisterMeta(i, f) ==
  LET stale == {j \in Registered \ {i} : sessions[j].file = f}
      stopped == {sessions[j].cancel : j \in stale}
  IN
  /\ window' = [w \in Slots |-> IF w \in stopped THEN [window[w] EXCEPT !.live = FALSE] ELSE window[w]]
  /\ sessions' = [j \in Ids |->
       IF j \in stale THEN Absent
       ELSE IF j = i /\ i \in Registered THEN [sessions[i] EXCEPT !.file = f]
       ELSE sessions[j]]
  /\ UNCHANGED born

Stop(i) ==
  /\ window' = Cancelled(window, sessions[i])
  /\ sessions' = [sessions EXCEPT ![i] = Absent]
  /\ UNCHANGED born

\* The window is stopped and forgotten; none is started from here.
Seek(i) ==
  /\ i \in Registered
  /\ sessions[i].generation < Turns
  /\ window' = Cancelled(window, sessions[i])
  /\ sessions' = [sessions EXCEPT ![i].cancel = NoCancel, ![i].valid = FALSE, ![i].generation = @ + 1]
  /\ UNCHANGED born

\* schedule, from NotifyRead: nothing while the position lies in the first half of a
\* valid window, otherwise the old window makes way for a new one.
Schedule(i, offset) ==
  LET s == sessions[i]
      end == Min({offset + WindowArticles, Articles})
      half == offset + (end - offset) \div 2
      stopped == [s EXCEPT !.cancel = NoCancel, !.valid = FALSE, !.generation = @ + 1]
      share == Max({1, MaxParallelism \div Cardinality(Registered)})
  IN
  /\ i \in Registered
  /\ s.generation < Turns
  /\ ~ (s.valid /\ s.start <= offset /\ offset < s.rescheduleAt)
  /\ IF offset >= Articles
     THEN /\ window' = Cancelled(window, s)
          /\ sessions' = [sessions EXCEPT ![i] = stopped]
     ELSE LET w == Min(FreeSlots) IN
          /\ FreeSlots # {}
          /\ window' = [Cancelled(window, s) EXCEPT ![w] =
               [pc |-> "launch", id |-> i, obj |-> s.obj, generation |-> stopped.generation,
                live |-> TRUE, share |-> share, left |-> end - offset, flying |-> 0, failed |-> FALSE]]
          /\ sessions' = [sessions EXCEPT ![i] =
               [stopped EXCEPT !.cancel = w, !.valid = TRUE, !.start = offset,
                               !.rescheduleAt = IF half > offset THEN half ELSE end]]
  /\ UNCHANGED born

\* The window's loop: launch while a slot of its share is free, until nothing is left
\* or the context ends.
Launch(w) ==
  /\ window[w].pc = "launch"
  /\ window[w].left > 0 /\ window[w].flying < window[w].share
  /\ window' = [window EXCEPT ![w].left = @ - 1, ![w].flying = @ + 1]
  /\ UNCHANGED <<sessions, born>>

LaunchEnd(w) ==
  /\ window[w].pc = "launch"
  /\ window[w].left = 0 \/ ~ window[w].live
  /\ window' = [window EXCEPT ![w].pc = "drain"]
  /\ UNCHANGED <<sessions, born>>

\* A fetch returns; an error counts only if the window was not cancelled.
Fetched(w, err) ==
  /\ window[w].pc \in {"launch", "drain"}
  /\ window[w].flying > 0
  /\ window' = [window EXCEPT ![w].flying = @ - 1, ![w].failed = @ \/ (err /\ window[w].live)]
  /\ UNCHANGED <<sessions, born>>

\* wg.Wait is over: the context is looked at and cancelled, before the lock is taken.
Drained(w) ==
  /\ window[w].pc = "drain"
  /\ window[w].flying = 0
  /\ window' = [window EXCEPT ![w].pc = "settle", ![w].failed = @ /\ window[w].live, ![w].live = FALSE]
  /\ UNCHANGED <<sessions, born>>

\* The generation is not looked at.
M_Settle(w) ==
  LET i == window[w].id IN
  /\ window[w].pc = "settle"
  /\ sessions' = IF sessions[i].obj = window[w].obj
                 THEN [sessions EXCEPT ![i].cancel = NoCancel, ![i].valid = @ /\ ~ window[w].failed]
                 ELSE sessions
  /\ window' = [window EXCEPT ![w] = Free]
  /\ UNCHANGED born

\* Only the session object and the generation that started this window are touched.
Settle(w) ==
  LET i == window[w].id IN
  /\ window[w].pc = "settle"
  /\ sessions' = IF sessions[i].obj = window[w].obj /\ sessions[i].generation = window[w].generation
                 THEN [sessions EXCEPT ![i].cancel = NoCancel, ![i].valid = @ /\ ~ window[w].failed]
                 ELSE sessions
  /\ window' = [window EXCEPT ![w] = Free]
  /\ UNCHANGED born

Next ==
  \/ \E i \in Ids :
       \/ \E f \in FileIds : Register(i, f) \/ RegisterMeta(i, f)
       \/ \E offset \in 0 .. Articles : Schedule(i, offset)
       \/ Stop(i)
       \/ Seek(i)
  \/ \E w \in Slots :
       \/ \E err \in BOOLEAN : Fetched(w, err)
       \/ Launch(w) \/ LaunchEnd(w) \/ Drained(w) \/ Settle(w)

Spec == Init /\ [][Next]_readAheadVars

-----------------------------------------------------------------------------
\* Every window that is still fetching can be stopped: it is the one whose cancel
\* function its own session, still registered, holds.  So a stream has one window at a
\* time, and a seek, a stop or a second open of the file ends it, whatever windows of
\* earlier positions have yet to wind down (session_manager.go:565-573).
NoOrphanWindow ==
  \A w \in Slots : (window[w] # Free /\ window[w].live) =>
    LET s == sessions[window[w].id] IN
    /\ s.obj = window[w].obj
    /\ s.cancel = w
    /\ s.generation = window[w].generation
\* Why: an object is registered under one id, a window is its object's of an earlier or
\* of the present generation, and the window a session can cancel is its own.
Sessions == {Absent} \cup [obj : Nat \ {0}, file : FileIds, cancel : Slots \cup {NoCancel}, start : Int,
                          rescheduleAt : Int, valid : BOOLEAN, generation : Nat]
Shares == {Max({1, MaxParallelism \div Cardinality(R)}) : R \in (SUBSET Ids) \ {{}}}
Windows == {Free} \cup [pc : {"launch", "drain", "settle"}, id : Ids, obj : Nat \ {0}, generation : Nat,
                       live : BOOLEAN, share : Shares, left : Int, flying : Int, failed : BOOLEAN]
AheadInv ==
  /\ born \in Nat
  /\ sessions \in [Ids -> Sessions]
  /\ window \in [Slots -> Windows]
  /\ \A i \in Registered : sessions[i].obj <= born
  /\ \A i, j \in Registered : sessions[i].obj = sessions[j].obj => i = j
  /\ \A w \in Slots : window[w] # Free =>
       /\ window[w].obj <= born
       /\ \A i \in Registered : sessions[i].obj = window[w].obj =>
            window[w].id = i /\ window[w].generation <= sessions[i].generation
       /\ \A x \in Slots : window[x] # Free /\ window[x].obj = window[w].obj
                           /\ window[x].generation = window[w].generation => x = w
  /\ \A i \in Registered : sessions[i].cancel # NoCancel =>
       LET x == window[sessions[i].cancel] IN
       x # Free /\ x.obj = sessions[i].obj /\ x.generation = sessions[i].generation
  /\ NoOrphanWindow
=============================================================================
