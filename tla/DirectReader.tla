---------------------------- MODULE DirectReader ----------------------------
(***************************************************************************)
(* DirectNzbReader (internal/stream/direct_reader.go) over the range       *)
(* clipping of SegmentFetcher (internal/nntp/fetcher.go).  The table of    *)
(* spans is one mutable array; every fetch replaces the span it asked for  *)
(* by the article's own position and moves the later ones along, while     *)
(* other reads hold spans they looked up before.                           *)
(*                                                                         *)
(* A byte is its position in the file.  Every article carries its position *)
(* (a valid yEnc header) close enough to the estimate to be believed.      *)
(***************************************************************************)
EXTENDS Integers, Sequences, Functions

CONSTANTS
  Readers,
  Stream,    \* the reader that reads on from 0, ReadAt after ReadAt
  Segments,
  MaxLength, \* bound on a segment's length
  Chunk,     \* len(dst) of a ReadAt
  EmptyLimit \* empty blocks in a row before a read ends

VARIABLES
  truth,    \* the length of each article
  spans,    \* the table, [start, end] of each span
  size,     \* r.size
  reading,  \* per reader: where it is
  got       \* the bytes the sequential reader has been given

directVars == <<truth, spans, size, reading, got>>

Segs == 1 .. Segments
Still == [pc |-> "still"]
Upto(lens, i) == FoldFunction(+, 0, SubSeq(lens, 1, i))
Laid(lens) == [i \in Segs |-> [start |-> Upto(lens, i - 1), end |-> Upto(lens, i)]]
Lesser(a, b) == IF a < b THEN a ELSE b

\* Where an article lies in the file.
Actual(i) == Laid(truth)[i]

TypeOK ==
  /\ truth \in [Segs -> 1 .. MaxLength]
  /\ \A i \in Segs : spans[i].start \in Int /\ spans[i].end \in Int
  /\ size \in Int
  /\ \A r \in Readers : reading[r].pc \in {"still", "find", "fetch", "settle"}
  /\ got \in Seq(Nat)

Init ==
  /\ truth \in [Segs -> 1 .. MaxLength]
  /\ \E estimate \in [Segs -> 1 .. MaxLength] :
       spans = Laid(estimate) /\ size = Upto(estimate, Segments)
  /\ reading = [r \in Readers |-> Still]
  /\ got = <<>>

-----------------------------------------------------------------------------
ReadAt(r, offset) ==
  /\ reading[r] = Still
  /\ r = Stream => offset = Len(got)
  /\ offset < size
  /\ reading' = [reading EXCEPT ![r] =
       [pc |-> "find", current |-> offset, until |-> Lesser(offset + Chunk, size), empty |-> 0]]
  /\ UNCHANGED <<truth, spans, size, got>>

\* findSpan, by the first end that lies beyond: none, or one that starts beyond, ends
\* the read.
Find(r) ==
  LET l == reading[r]
      beyond == {i \in Segs : spans[i].end > l.current}
      i == CHOOSE j \in beyond : \A k \in beyond : j <= k
  IN
  /\ l.pc = "find"
  /\ reading' = [reading EXCEPT ![r] =
       IF l.current >= l.until \/ l.current >= size \/ beyond = {} \/ spans[i].start > l.current THEN Still
       ELSE [pc |-> "fetch", current |-> l.current, until |-> l.until, empty |-> l.empty,
             seg |-> i, span |-> spans[i], to |-> Lesser(spans[i].end, l.until)]]
  /\ UNCHANGED <<truth, spans, size, got>>

\* What is short of the article's start is cut off.
M_Block(i, from, to) ==
  IF from < Actual(i).start
  THEN [k \in 1 .. Lesser(to - from, truth[i]) |-> Actual(i).start + k - 1]
  ELSE [k \in 1 .. (Lesser(to, Actual(i).end) - from) |-> from + k - 1]

\* FetchRangeInfoPriority: the part of [from, to) the article holds, nothing when the
\* article starts after it.
Block(i, from, to) ==
  IF from < Actual(i).start THEN <<>>
  ELSE [k \in 1 .. (Lesser(to, Actual(i).end) - from) |-> from + k - 1]

\* realignSpans: the span becomes what the article says, and what follows moves by as
\* much as its end did.
Realigned(i) ==
  LET delta == Actual(i).end - spans[i].end IN
  [j \in Segs |-> IF j = i THEN Actual(i)
                  ELSE IF j > i THEN [start |-> spans[j].start + delta, end |-> spans[j].end + delta]
                  ELSE spans[j]]

Realign(i) ==
  /\ spans' = Realigned(i)
  /\ size' = IF Actual(i).end = spans[i].end THEN size ELSE Realigned(i)[Segments].end

Again(l, empty) == [pc |-> "find", current |-> l.current, until |-> l.until, empty |-> empty]

\* The block arrives; when another read has moved the span the loop starts over.
Fetched(r) ==
  LET l == reading[r] IN
  /\ l.pc = "fetch"
  /\ IF spans[l.seg] = l.span
     THEN /\ reading' = [reading EXCEPT ![r].pc = "settle"]
          /\ UNCHANGED <<spans, size>>
     ELSE /\ Realign(l.seg)
          /\ reading' = [reading EXCEPT ![r] = Again(l, l.empty)]
  /\ UNCHANGED <<truth, got>>

\* The table is realigned, then the block is judged: an empty one is tried again a few
\* times, a short one ends the read, a whole one is copied out.
Settle(r) ==
  LET l == reading[r]
      block == Block(l.seg, l.current, l.to)
  IN
  /\ l.pc = "settle"
  /\ Realign(l.seg)
  /\ \/ /\ block = <<>>
        /\ reading' = [reading EXCEPT ![r] =
             IF l.empty + 1 > EmptyLimit \/ l.current >= size' THEN Still ELSE Again(l, l.empty + 1)]
        /\ UNCHANGED got
     \/ /\ block # <<>> /\ Len(block) < l.to - l.current
        /\ reading' = [reading EXCEPT ![r] = Still]
        /\ UNCHANGED got
     \/ /\ block # <<>> /\ Len(block) = l.to - l.current
        /\ reading' = [reading EXCEPT ![r] = [Again(l, 0) EXCEPT !.current = l.to]]
        /\ got' = IF r = Stream THEN got \o block ELSE got
  /\ UNCHANGED truth

Next ==
  \E r \in Readers :
    \/ \E offset \in 0 .. (Segments * MaxLength) : ReadAt(r, offset)
    \/ Find(r) \/ Fetched(r) \/ Settle(r)

Spec == Init /\ [][Next]_directVars

-----------------------------------------------------------------------------
\* What a sequential read is given are the file's bytes in their places, whatever
\* other reads did to the span table between the look-up, the fetch and the copy.
DirectReadIsTrue == \A k \in DOMAIN got : got[k] = k - 1
=============================================================================
