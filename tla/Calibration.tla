----------------------------- MODULE Calibration -----------------------------
(***************************************************************************)
(* The calibration of one file stored as it is (database/calibrate.go):    *)
(* the decoded sizes of its first and last segments are asked for and the  *)
(* file's size is set from them, once.  An import starts one of these      *)
(* beside itself, the health pass works off what is left, and both may be  *)
(* at the same file.  A size that is only guessed is written for good when *)
(* the article is certain never to come, and left for later otherwise.     *)
(***************************************************************************)
EXTENDS Integers, FiniteSets

CONSTANTS
  Runs,       \* the calibrations that may run at the same time
  Declared,   \* sizes the NZB may declare
  First,      \* decoded size of every segment but the last
  Last,       \* decoded sizes the last segment may have
  Segments,   \* how many segments the file has, two or more
  Retries     \* bound on calibrations that leave it for later

VARIABLES
  posted,     \* what was posted: the fate of both articles, the sizes, the declared size
  stored,     \* the file's row and the size of its virtual file
  run,        \* per calibration: where it is
  heard,      \* history, per calibration: the answers for the article it asks about
  proven,     \* history: the articles that were missing, or corrupt three times in a row
  retryCount

calibrationVars == <<posted, stored, run, heard, proven, retryCount>>

Ends == {"first", "last"}
Resting == [pc |-> "idle", end |-> "first", sizes |-> [e \in Ends |-> 0]]
confirmCRCMismatchAttempts == 2

TypeOK ==
  /\ posted.fate \in [Ends -> {"there", "gone", "corrupt", "flaky"}]
  /\ stored.calibrated \in BOOLEAN /\ stored.guess \subseteq Ends /\ stored.size \in Nat
  /\ \A c \in Runs : run[c].pc \in {"idle", "decode", "confirm", "stat", "rescale"} /\ run[c].end \in Ends
  /\ proven \subseteq Ends
  /\ retryCount \in 0 .. Retries

Init ==
  /\ posted \in [fate : [Ends -> {"there", "gone", "corrupt", "flaky"}], last : Last, declared : Declared]
  /\ stored = [calibrated |-> FALSE, size |-> posted.declared, guess |-> Ends]
  /\ run = [c \in Runs |-> Resting]
  /\ heard = [c \in Runs |-> 0]
  /\ proven = {}
  /\ retryCount = 0

SizeOf(end) == IF end = "last" THEN posted.last ELSE First

\* calibratedDirectNZBSize: a size more than ten percent below the declared one is not
\* believed.
calibratedDirectNZBSize(first, last) ==
  LET total == (Segments - 1) * first + last
  IN IF posted.declared <= 0 \/ total <= 0 THEN total
     ELSE IF total < (posted.declared * 90) \div 100 THEN posted.declared ELSE total

-----------------------------------------------------------------------------
\* CalibrateNZBOffsets lists the files that are not calibrated yet.
Begin(c) ==
  /\ run[c].pc = "idle" /\ ~ stored.calibrated /\ retryCount < Retries
  /\ run' = [run EXCEPT ![c] = [Resting EXCEPT !.pc = "decode"]]
  /\ heard' = [heard EXCEPT ![c] = 0]
  /\ UNCHANGED <<posted, stored, proven, retryCount>>

\* The file is left as it is, and a later pass takes it again.
LeaveForLater(c) ==
  /\ run' = [run EXCEPT ![c] = Resting]
  /\ heard' = [heard EXCEPT ![c] = 0]
  /\ retryCount' = IF retryCount < Retries THEN retryCount + 1 ELSE retryCount
  /\ UNCHANGED <<posted, stored, proven>>

\* The size is known, or is taken to be that of the other segments.
Known(c, size) ==
  /\ run' = [run EXCEPT ![c] = IF run[c].end = "first"
                               THEN [@ EXCEPT !.pc = "decode", !.end = "last", !.sizes[run[c].end] = size]
                               ELSE [@ EXCEPT !.pc = "rescale", !.sizes[run[c].end] = size]]
  /\ heard' = [heard EXCEPT ![c] = 0]
  /\ UNCHANGED <<posted, stored, retryCount>>

\* The article is certain never to come: the file is passed over for good, or its last
\* segment is guessed.
Gone(c) ==
  IF run[c].end = "first"
  THEN /\ stored' = [stored EXCEPT !.calibrated = TRUE]
       /\ run' = [run EXCEPT ![c] = Resting]
       /\ heard' = [heard EXCEPT ![c] = 0]
       /\ UNCHANGED <<posted, retryCount>>
  ELSE Known(c, 0)

\* What a provider can answer when the article is asked for.
Decodings(end) ==
  CASE posted.fate[end] = "there" -> {"ok", "error"}
    [] posted.fate[end] = "gone" -> {"error"}
    [] posted.fate[end] = "corrupt" -> {"crc", "error"}
    [] posted.fate[end] = "flaky" -> {"ok", "crc", "error"}

\* DecodedSize, the first time.
Decode(c) ==
  /\ run[c].pc = "decode"
  /\ \E answer \in Decodings(run[c].end) :
       \/ /\ answer = "ok" /\ Known(c, SizeOf(run[c].end)) /\ UNCHANGED proven
       \/ /\ answer # "ok"
          /\ run' = [run EXCEPT ![c].pc = IF answer = "crc" THEN "confirm" ELSE "stat"]
          /\ heard' = [heard EXCEPT ![c] = IF answer = "crc" THEN 1 ELSE 0]
          /\ UNCHANGED <<posted, stored, proven, retryCount>>

Proves(c) == proven' = proven \cup {run[c].end}

\* A mismatch is believed when it is met once more.
M_Confirm(c) ==
  /\ run[c].pc = "confirm"
  /\ \E answer \in Decodings(run[c].end) :
       IF answer = "crc" THEN Gone(c) /\ UNCHANGED proven ELSE LeaveForLater(c)

\* confirmPermanentCRCMismatch: every further attempt has to meet the mismatch too.
Confirm(c) ==
  /\ run[c].pc = "confirm"
  /\ \E answer \in Decodings(run[c].end) :
       IF answer # "crc" THEN LeaveForLater(c)
       ELSE IF heard[c] < confirmCRCMismatchAttempts
            THEN /\ heard' = [heard EXCEPT ![c] = @ + 1]
                 /\ UNCHANGED <<posted, stored, run, proven, retryCount>>
            ELSE Gone(c) /\ Proves(c)

\* isArticlePermanentlyMissing asks with a STAT; anything but a clear no is for later.
Stat(c) ==
  /\ run[c].pc = "stat"
  /\ IF posted.fate[run[c].end] = "gone"
     THEN \/ Gone(c) /\ Proves(c)
          \/ LeaveForLater(c)
     ELSE LeaveForLater(c)

\* rescaleFileSegments, one transaction, whether another has been there or not.
Rescale(c) ==
  LET guessed == {e \in Ends : run[c].sizes[e] = 0}
      size(e) == IF run[c].sizes[e] = 0 THEN run[c].sizes["first"] ELSE run[c].sizes[e]
  IN
  /\ run[c].pc = "rescale"
  /\ stored' = [calibrated |-> TRUE, size |-> calibratedDirectNZBSize(size("first"), size("last")), guess |-> guessed]
  /\ run' = [run EXCEPT ![c] = Resting]
  /\ UNCHANGED <<posted, heard, proven, retryCount>>

\* The budget is over, or the process dies.
Stop(c) == run[c].pc # "idle" /\ LeaveForLater(c)

Next == \E c \in Runs : Begin(c) \/ Decode(c) \/ Confirm(c) \/ Stat(c) \/ Rescale(c) \/ Stop(c)

Spec == Init /\ [][Next]_calibrationVars

-----------------------------------------------------------------------------
\* What is written for good rests on the sizes that were decoded, or on an article that
\* was missing or corrupt beyond doubt, also when two calibrations meet: a provider that
\* fails does not fix a size (calibrate.go:645-656, 680-692).
CalibratedOnEvidence ==
  stored.calibrated =>
    /\ "first" \in stored.guess => "first" \in proven
    /\ stored.guess = {"last"} => "last" \in proven
    /\ stored.guess = {} => stored.size \in {calibratedDirectNZBSize(First, posted.last)}
-----------------------------------------------------------------------------
(***************************************************************************)
(* What it rests on: a run that has come to the last segment decoded the   *)
(* first one, and one that is about to write decoded the last one too or   *)
(* has it from an article that was beyond doubt; and a file that is not    *)
(* calibrated yet still has both its guesses.                              *)
(***************************************************************************)
Shapes ==
  /\ posted.last \in Last
  /\ stored = [calibrated |-> stored.calibrated, size |-> stored.size, guess |-> stored.guess]
  /\ stored.calibrated \in BOOLEAN
  /\ run \in [Runs -> [pc : {"idle", "decode", "confirm", "stat", "rescale"}, end : Ends, sizes : [Ends -> {0, First} \cup Last]]]

SizesAreHeard ==
  \A c \in Runs :
    /\ run[c].end = "last" => run[c].sizes["first"] = First
    /\ run[c].pc = "rescale" =>
         /\ run[c].end = "last"
         /\ run[c].sizes["last"] = posted.last \/ (run[c].sizes["last"] = 0 /\ "last" \in proven)

NothingWritten == ~stored.calibrated => stored.guess = Ends

CalibrationInv == Shapes /\ SizesAreHeard /\ NothingWritten /\ CalibratedOnEvidence
=============================================================================
