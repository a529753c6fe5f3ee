------------------------------ MODULE RarReader ------------------------------
(***************************************************************************)
(* StoredRarReader (internal/stream/stored_rar_reader.go): a file that     *)
(* lies in pieces inside decoded articles.  The table of spans starts from *)
(* estimates; a fetch tells a segment's true length, and realignSpan       *)
(* publishes a corrected table under a new version while other reads of    *)
(* the file are under way.                                                 *)
(*                                                                         *)
(* Bytes are pairs <<segment, offset in its content>>.  Where a segment's  *)
(* content starts in its article is exact and left out; only lengths are   *)
(* estimated.  Fetch errors are left out: a read that meets one ends.      *)
(***************************************************************************)
EXTENDS Integers, Sequences, Functions

CONSTANTS
  Readers,   \* concurrent reads of the file
  Stream,    \* the reader that reads on from 0, ReadAt after ReadAt
  Segments,  \* number of segments
  MaxLength, \* bound on a segment's length
  Chunk      \* len(dst) of a ReadAt

VARIABLES
  truth,     \* the length of each segment's content, and whether an entry ends there
  table,     \* the state a reader loads: estimated lengths and version
  reading,   \* per reader: where it is
  delivered  \* what the sequential reader has been given

rarVars == <<truth, table, reading, delivered>>

Segs == 1 .. Segments
Still == [pc |-> "still"]

\* The spans of a table: contiguous, in order.
Start(lens, i) == FoldFunction(+, 0, SubSeq(lens, 1, i - 1))
End(lens, i) == Start(lens, i) + lens[i]
Size(lens) == End(lens, Segments)

\* validateStoredRarSpans
LayoutValid(lens) == \A i \in Segs : lens[i] > 0

\* A segment that ends an entry holds more than the entry: its estimate is exact.
Content(i) == IF truth[i].truncated THEN table.length[i] ELSE truth[i].length

TypeOK ==
  /\ truth \in [Segs -> [length : 1 .. MaxLength, truncated : BOOLEAN]]
  /\ table.length \in [Segs -> 0 .. MaxLength] /\ table.version \in 0 .. Segments
  /\ \A r \in Readers : reading[r].pc \in {"still", "load", "fetch", "settle"}
  /\ delivered \in Seq(Segs \X (0 .. MaxLength))

Init ==
  /\ truth \in [Segs -> [length : 1 .. MaxLength, truncated : BOOLEAN]]
  /\ \E estimate \in [Segs -> 1 .. MaxLength] :
       /\ \A i \in Segs : truth[i].truncated => estimate[i] <= truth[i].length
       /\ table = [length |-> estimate, version |-> 0]
  /\ reading = [r \in Readers |-> Still]
  /\ delivered = <<>>

-----------------------------------------------------------------------------
\* ReadAt begins: clipped to the size of the moment.
ReadAt(r, offset) ==
  LET end == Size(table.length) IN
  /\ reading[r] = Still
  /\ LayoutValid(table.length)
  /\ r = Stream => offset = Len(delivered)
  /\ offset < end
  /\ reading' = [reading EXCEPT ![r] =
       [pc |-> "load", current |-> offset, until |-> IF offset + Chunk < end THEN offset + Chunk ELSE end]]
  /\ UNCHANGED <<truth, table, delivered>>

\* The loop: load the state, find the span, ask for as much of it as is wanted.
Load(r) ==
  LET l == reading[r]
      lens == table.length
      i == CHOOSE j \in Segs : Start(lens, j) <= l.current /\ l.current < End(lens, j)
      upTo == IF l.until < End(lens, i) THEN l.until ELSE End(lens, i)
  IN
  /\ l.pc = "load"
  /\ reading' = [reading EXCEPT ![r] =
       IF l.current >= l.until \/ ~ LayoutValid(lens) \/ l.current >= Size(lens) THEN Still
       ELSE [pc |-> "fetch", current |-> l.current, until |-> l.until, version |-> table.version,
             seg |-> i, from |-> l.current - Start(lens, i), to |-> upTo - Start(lens, i),
             length |-> lens[i]]]
  /\ UNCHANGED <<truth, table, delivered>>

Again(l) == [pc |-> "load", current |-> l.current, until |-> l.until]

\* The block arrives; a table that changed meanwhile means starting over.
Fetched(r) ==
  LET l == reading[r] IN
  /\ l.pc = "fetch"
  /\ reading' = [reading EXCEPT ![r] = IF table.version # l.version THEN Again(l) ELSE [l EXCEPT !.pc = "settle"]]
  /\ UNCHANGED <<truth, table, delivered>>

\* realignSpan, with what the article turned out to hold: nothing to correct when the
\* table has it already.
Realigned(i) ==
  IF table.length[i] = truth[i].length THEN table
  ELSE [length |-> [table.length EXCEPT ![i] = truth[i].length], version |-> table.version + 1]

Block(l) == [k \in 1 .. (l.to - l.from) |-> <<l.seg, l.from + k - 1>>]

Copied(r, l) ==
  /\ reading' = [reading EXCEPT ![r] = [pc |-> "load", current |-> l.current + l.to - l.from, until |-> l.until]]
  /\ delivered' = IF r = Stream THEN delivered \o Block(l) ELSE delivered

\* A short block: the span is shorter than estimated; corrected by this read or by
\* another one, the loop starts over.
Short(r) ==
  LET l == reading[r] IN
  /\ l.pc = "settle"
  /\ truth[l.seg].length < l.to
  /\ table' = Realigned(l.seg)
  /\ reading' = [reading EXCEPT ![r] = IF table'.version # l.version THEN Again(l) ELSE Still]
  /\ UNCHANGED <<truth, delivered>>

\* A whole block is delivered as it is.
M_Whole(r) ==
  LET l == reading[r] IN
  /\ l.pc = "settle"
  /\ truth[l.seg].length >= l.to
  /\ Copied(r, l)
  /\ UNCHANGED <<table, truth>>

\* A whole block, up to the span's estimated end, of a segment that holds more and does
\* not end an entry: the span grows before the block is delivered.
Whole(r) ==
  LET l == reading[r] IN
  /\ l.pc = "settle"
  /\ truth[l.seg].length >= l.to
  /\ table' = IF l.to = l.length /\ ~ truth[l.seg].truncated /\ truth[l.seg].length > l.length
              THEN Realigned(l.seg) ELSE table
  /\ Copied(r, l)
  /\ UNCHANGED truth

Next ==
  \E r \in Readers :
    \/ \E offset \in 0 .. (Segments * MaxLength) : ReadAt(r, offset)
    \/ Load(r) \/ Fetched(r) \/ Short(r) \/ Whole(r)

Spec == Init /\ [][Next]_rarVars

-----------------------------------------------------------------------------
\* The file as it is: the contents one after the other, the byte at p being the nth.
IsByte(n, p) == p[2] < Content(p[1]) /\ n = Start([i \in Segs |-> Content(i)], p[1]) + p[2] + 1

\* Who reads the file from its start is given its bytes, none skipped, none twice and
\* none out of place, however wrong the estimates are and whatever part of the file
\* others read and correct meanwhile (stored_rar_reader.go:189-224).
SequentialReadIsTrue == \A n \in DOMAIN delivered : IsByte(n, delivered[n])
=============================================================================
