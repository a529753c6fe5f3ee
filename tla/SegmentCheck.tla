----------------------------- MODULE SegmentCheck -----------------------------
(***************************************************************************)
(* The two checks that ask the providers for many articles of one document *)
(* at once (database/calibrate.go): the preflight of a release that has    *)
(* just been imported, which asks for a sample and gives up at the first   *)
(* article it does not get, and the full check, which asks for every       *)
(* article and condemns a release only for one that is missing twice.      *)
(* The full check runs for the sweep of the library and for a player that  *)
(* met a missing article (app/health_read_feedback.go).                    *)
(*                                                                         *)
(* An article is there, or gone, or some provider answers for it wrongly   *)
(* now and then.                                                           *)
(***************************************************************************)
EXTENDS Integers, FiniteSets

CONSTANTS
  Articles,   \* how many the document has, or the sample: 1 .. Articles
  Askers,     \* fullSegmentCheckConcurrency, maxConcurrentChecks
  Reports     \* bound on the read failures reported

VARIABLES
  article,    \* what becomes of each article
  check,      \* the check under way
  asker,      \* per asker: what it does
  answered,   \* history: the missing answers of each article, and the articles asked for
  feedback    \* lastSeen of the file, and the reports so far

segmentVars == <<article, check, asker, answered, feedback>>

Indexes == 1 .. Articles
Resting == [pc |-> "free", at |-> 0]
NoCheck == [mode |-> "none", next |-> 1, taken |-> {}, found |-> 0, cancelled |-> FALSE, over |-> FALSE]

TypeOK ==
  /\ article \in [Indexes -> {"there", "gone", "flaky"}]
  /\ check.mode \in {"none", "preflight", "full", "passed", "failed", "undecided"}
  /\ check.found \in 0 .. Articles /\ check.taken \subseteq Indexes
  /\ \A a \in Askers : asker[a].pc \in {"free", "ask", "pause", "gone"} /\ asker[a].at \in 0 .. Articles
  /\ answered.missing \in [Indexes -> 0 .. 2] /\ answered.asked \subseteq Indexes
  /\ feedback.seen \in BOOLEAN /\ feedback.reports \in 0 .. Reports

Init ==
  /\ article \in [Indexes -> {"there", "gone", "flaky"}]
  /\ check = NoCheck
  /\ asker = [a \in Askers |-> Resting]
  /\ answered = [missing |-> [i \in Indexes |-> 0], asked |-> {}]
  /\ feedback = [seen |-> FALSE, reports |-> 0]

-----------------------------------------------------------------------------
Begin(mode) ==
  /\ check.mode \notin {"preflight", "full"}
  /\ check' = [NoCheck EXCEPT !.mode = mode]
  /\ asker' = [a \in Askers |-> Resting]
  /\ answered' = [missing |-> [i \in Indexes |-> 0], asked |-> {}]

\* PreflightCheckFirstSegments
Preflight == Begin("preflight") /\ UNCHANGED <<article, feedback>>

\* StrictCheckAllSegments, for the sweep.
FullCheck == Begin("full") /\ UNCHANGED <<article, feedback>>

\* Report: one recheck of a file in readFeedbackCooldown.  When both places of the
\* recheckers are taken the report is dropped, and the file counts as seen all the same.
Report ==
  /\ feedback.reports < Reports
  /\ feedback' = [seen |-> TRUE, reports |-> feedback.reports + 1]
  /\ IF feedback.seen THEN UNCHANGED <<check, asker, answered>>
     ELSE Begin("full") \/ UNCHANGED <<check, asker, answered>>
  /\ UNCHANGED article

CooldownEnds ==
  /\ feedback.seen
  /\ feedback' = [feedback EXCEPT !.seen = FALSE]
  /\ UNCHANGED <<article, check, asker, answered>>

\* The deadline of who asked for the check passes.
DeadlinePasses ==
  /\ check.mode \in {"preflight", "full"} /\ ~ check.over
  /\ check' = [check EXCEPT !.over = TRUE]
  /\ UNCHANGED <<article, asker, answered, feedback>>

-----------------------------------------------------------------------------
Ended == check.cancelled \/ check.over

\* The full check goes through the articles in order, until the context ends.
TakeNext(a) ==
  /\ check.mode = "full" /\ asker[a].pc = "free"
  /\ IF Ended
     THEN asker' = [asker EXCEPT ![a].pc = "gone"] /\ UNCHANGED check
     ELSE /\ check' = [check EXCEPT !.next = IF @ > Articles THEN @ ELSE @ + 1]
          /\ asker' = [asker EXCEPT ![a] = IF check.next > Articles THEN [@ EXCEPT !.pc = "gone"]
                                           ELSE [pc |-> "ask", at |-> check.next]]
  /\ UNCHANGED <<article, answered, feedback>>

\* The preflight starts a check of each article, and the place it waits for may come free
\* when the context has ended.
TakePlace(a, i) ==
  /\ check.mode = "preflight" /\ asker[a].pc = "free" /\ i \notin check.taken
  /\ check' = [check EXCEPT !.taken = @ \cup {i}]
  /\ asker' = [asker EXCEPT ![a] = [pc |-> "ask", at |-> i]]
  /\ UNCHANGED <<article, answered, feedback>>

\* A check that waits for its place when the context ends leaves without a word.
LeaveUnasked(i) ==
  /\ check.mode = "preflight" /\ Ended /\ i \notin check.taken
  /\ check' = [check EXCEPT !.taken = @ \cup {i}]
  /\ UNCHANGED <<article, asker, answered, feedback>>

\* What Exists can answer.
Answers(i) ==
  CASE article[i] = "there" -> {"ok", "error"}
    [] article[i] = "gone" -> {"missing", "error"}
    [] article[i] = "flaky" -> {"ok", "missing", "error"}

Heard(i, answer) ==
  answered' = [missing |-> [answered.missing EXCEPT ![i] = IF answer = "missing" /\ @ < 2 THEN @ + 1 ELSE @],
               asked |-> answered.asked \cup {i}]

\* The full check pauses before it believes that an article is missing.
AskFull(a) ==
  /\ check.mode = "full" /\ asker[a].pc = "ask"
  /\ \E answer \in IF Ended THEN {"error"} ELSE Answers(asker[a].at) :
       /\ Heard(asker[a].at, answer)
       /\ asker' = [asker EXCEPT ![a] = IF answer = "missing" THEN [@ EXCEPT !.pc = "pause"] ELSE Resting]
  /\ UNCHANGED <<article, check, feedback>>

\* The first answer is believed.
M_AskAgain(a) ==
  /\ check.mode = "full" /\ asker[a].pc = "pause"
  /\ check' = [check EXCEPT !.found = asker[a].at, !.cancelled = TRUE]
  /\ asker' = [asker EXCEPT ![a].pc = "gone"]
  /\ UNCHANGED <<article, answered, feedback>>

\* Missing a second time: the lowest index is the verdict, and the others are stopped.
AskAgain(a) ==
  /\ check.mode = "full" /\ asker[a].pc = "pause"
  /\ IF Ended
     THEN asker' = [asker EXCEPT ![a].pc = "gone"] /\ UNCHANGED <<check, answered>>
     ELSE \E answer \in Answers(asker[a].at) :
            /\ Heard(asker[a].at, answer)
            /\ IF answer = "missing"
               THEN /\ check' = [check EXCEPT !.found = IF @ = 0 \/ asker[a].at < @ THEN asker[a].at ELSE @,
                                              !.cancelled = TRUE]
                    /\ asker' = [asker EXCEPT ![a].pc = "gone"]
               ELSE asker' = [asker EXCEPT ![a] = Resting] /\ UNCHANGED check
  /\ UNCHANGED <<article, feedback>>

\* Whatever is not a yes fails the preflight and stops the rest of it.
AskPreflight(a) ==
  /\ check.mode = "preflight" /\ asker[a].pc = "ask"
  /\ \E answer \in IF Ended THEN {"error"} ELSE Answers(asker[a].at) :
       /\ Heard(asker[a].at, answer)
       /\ asker' = [asker EXCEPT ![a] = Resting]
       /\ check' = IF answer = "ok" THEN check
                   ELSE [check EXCEPT !.found = IF @ = 0 THEN asker[a].at ELSE @, !.cancelled = TRUE]
  /\ UNCHANGED <<article, feedback>>

\* All have left.  The full check has no verdict when it was cut short.
Return ==
  /\ \/ check.mode = "full" /\ \A a \in Askers : asker[a].pc = "gone"
     \/ check.mode = "preflight" /\ check.taken = Indexes /\ \A a \in Askers : asker[a] = Resting
  /\ check' = [check EXCEPT !.mode = IF check.found > 0 THEN "failed"
                                     ELSE IF check.mode = "full" /\ check.over THEN "undecided" ELSE "passed"]
  /\ UNCHANGED <<article, asker, answered, feedback>>

Next ==
  \/ Preflight \/ FullCheck \/ Report \/ CooldownEnds \/ DeadlinePasses \/ Return
  \/ \E a \in Askers : \/ TakeNext(a) \/ AskFull(a) \/ AskAgain(a) \/ AskPreflight(a)
                       \/ \E i \in Indexes : TakePlace(a, i)
  \/ \E i \in Indexes : LeaveUnasked(i)

Spec == Init /\ [][Next]_segmentVars

-----------------------------------------------------------------------------
\* The full check condemns a release only for an article that was missing twice, and a
\* check that passes has asked for every article, unless a preflight ran out of time
\* (calibrate.go:927-932, 1001).
VerdictIsProven ==
  /\ check.mode = "full" /\ check.found > 0 => answered.missing[check.found] = 2
  /\ check.mode = "passed" /\ ~ check.over => answered.asked = Indexes
-----------------------------------------------------------------------------
(***************************************************************************)
(* What the verdict rests on: every article the check has come to was      *)
(* asked for or is being asked for, unless the check has ended early; who  *)
(* pauses has heard once that its article is missing; and only a missing   *)
(* article, or in a preflight whatever is no yes, stops a check.           *)
(***************************************************************************)
Shapes ==
  /\ article \in [Indexes -> {"there", "gone", "flaky"}]
  /\ check \in [mode : {"none", "preflight", "full", "passed", "failed", "undecided"}, next : 1 .. Articles + 1,
                taken : SUBSET Indexes, found : 0 .. Articles, cancelled : BOOLEAN, over : BOOLEAN]
  /\ asker \in [Askers -> [pc : {"free", "gone"}, at : 0 .. Articles] \cup [pc : {"ask", "pause"}, at : Indexes]]
  /\ answered \in [missing : [Indexes -> 0 .. 2], asked : SUBSET Indexes]

CameTo == IF check.mode = "full" THEN {i \in Indexes : i < check.next} ELSE check.taken
AskedFor(i) == i \in answered.asked \/ \E a \in Askers : asker[a].pc = "ask" /\ asker[a].at = i

NoneOverlooked ==
  /\ check.mode = "full" => \A i \in CameTo : AskedFor(i)
  /\ check.mode = "preflight" => \A i \in CameTo : AskedFor(i) \/ Ended
  /\ check.mode = "full" => \A a \in Askers : asker[a].pc = "gone" => check.next > Articles \/ Ended

HeardMissing ==
  /\ check.cancelled => check.found > 0
  /\ check.mode = "full" => \A a \in Askers : asker[a].pc = "pause" => answered.missing[asker[a].at] > 0

SegmentInv == Shapes /\ NoneOverlooked /\ HeardMissing /\ VerdictIsProven
=============================================================================
