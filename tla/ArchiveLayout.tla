---------------------------- MODULE ArchiveLayout ----------------------------
(***************************************************************************)
(* Where the bytes of a video inside a split RAR archive are, worked out   *)
(* at import from the headers of the volumes (database/archive_inspect.go),*)
(* stored (database/queue_repository.go) and turned into spans when the    *)
(* file is opened (database/content_repository.go).                        *)
(* A byte is named by its volume and its place in it; a volume holds a     *)
(* header, its part of the video and maybe a trailer, and its size may be  *)
(* only estimated.  The names, the containers and the other files of the   *)
(* archive are left out, and segments: a span is a piece of a volume.      *)
(***************************************************************************)
EXTENDS Integers, SequencesExt, FiniteSetsExt

CONSTANTS
  Volumes,    \* how many volumes at most
  MaxPart,    \* bound on the bytes of the video in one volume
  Slack,      \* a difference of sizes this small is taken for rounding (16 bytes)
  Gross       \* by how much a header that is really wrong is off

VARIABLES
  volume,     \* the archive: per volume its header, its data, its trailer
  estimate,   \* volumes whose size is not measured: it is too large by one
  declared,   \* the unpacked size in the first header
  secret,     \* the content is encrypted, with the password of the release
  pc,
  offsets,    \* where the data of the later volumes starts, where that was found
  parts,      \* the entries read so far, one per volume
  skipped,    \* volumes whose header could not be made out
  entry,      \* the layout: size, ranges, and whether it has its key
  opened      \* the spans and the size of the opened file, decrypted or not

layoutVars == <<volume, estimate, declared, secret, pc, offsets, parts, skipped, entry, opened>>

Count == Len(volume)
Total(f(_), S) == FoldSet(LAMBDA v, t : f(v) + t, 0, S)
Data(v) == volume[v].data
FileSize == Total(Data, DOMAIN volume)
Size(v) == volume[v].head + volume[v].data + volume[v].tail
\* importedFileEffectiveSize: measured, or what the document promises.
Effective(v) == Size(v) + IF v \in estimate THEN 1 ELSE 0
\* A header may promise more than the end of its volume holds.
Packed(v) == volume[v].data + volume[v].over

Piece(v, off, len) == [volume |-> v, offset |-> off, length |-> len]
Bytes(rs) == FlattenSeq([i \in 1 .. Len(rs) |-> [j \in 1 .. rs[i].length |-> <<rs[i].volume, rs[i].offset + j - 1>>]])
Length(rs) == FoldLeft(LAMBDA t, r : t + r.length, 0, rs)
Truth == Bytes([v \in 1 .. Count |-> Piece(v, volume[v].head, volume[v].data)])
NoEntry == [size |-> 0, ranges |-> <<>>, keyed |-> FALSE]

TypeOK ==
  /\ \A v \in DOMAIN volume : volume[v] \in [head : 0 .. 1, data : 1 .. MaxPart, tail : 0 .. 1, over : {0, Slack + 1}]
  /\ estimate \subseteq DOMAIN volume /\ skipped \subseteq DOMAIN volume /\ secret \in BOOLEAN
  /\ declared \in 1 .. Volumes * MaxPart + Gross
  /\ pc \in {"first", "offsets", "parts", "choose", "stored", "open", "rejected"}
  /\ \A v \in DOMAIN offsets : v \in DOMAIN volume /\ offsets[v] \in 0 .. 1
  /\ entry.size \in Nat /\ entry.keyed \in BOOLEAN /\ opened.plain \in BOOLEAN

\* The first volume has a header.  Only the volume that ends a file without a
\* trailer can be cut off.
Init ==
  /\ \E n \in 1 .. Volumes : volume \in [1 .. n -> [head : 0 .. 1, data : 1 .. MaxPart, tail : 0 .. 1, over : {0, Slack + 1}]]
  /\ volume[1].head = 1
  /\ \A v \in DOMAIN volume : volume[v].over > 0 => v = Len(volume) /\ volume[v].tail = 0
  /\ estimate \in SUBSET DOMAIN volume
  /\ declared \in {d \in {FileSize, FileSize + Slack, FileSize + Gross, FileSize - Gross} : d > 0}
  /\ secret \in BOOLEAN
  /\ pc = "first"
  /\ offsets = [v \in {} |-> 0] /\ parts = <<>> /\ skipped = {}
  /\ entry = NoEntry /\ opened = [spans |-> <<>>, size |-> 0, plain |-> TRUE]

Reject == pc' = "rejected"

-----------------------------------------------------------------------------
(* Import.                                                                 *)

\* The first volume's header: a video stored without compression, not solid, and
\* readable with the password if it is encrypted; anything else rejects.
inspectRAR == [volume |-> 1, offset |-> volume[1].head, length |-> Packed(1), keyed |-> secret]

inspectRARArchive ==
  /\ pc = "first"
  /\ \/ parts' = <<inspectRAR>> /\ pc' = "offsets"
     \/ Reject /\ UNCHANGED parts
  /\ UNCHANGED <<volume, estimate, declared, secret, offsets, skipped, entry, opened>>

\* A few bytes of every later volume tell where its data starts, if they can be had
\* and there is a header.
fetchContinuationOffsets ==
  /\ pc = "offsets"
  /\ \E found \in SUBSET {v \in 2 .. Count : volume[v].head > 0} :
       offsets' = [v \in found |-> volume[v].head]
  /\ pc' = "parts"
  /\ UNCHANGED <<volume, estimate, declared, secret, parts, skipped, entry, opened>>

\* The headers of the later volumes, each on its own; one that is not understood is
\* left out, one that cannot be fetched rejects the archive.
NextVolume == 2 + Cardinality(skipped) + Len(parts) - 1
inspectVolume ==
  /\ pc = "parts" /\ NextVolume <= Count
  /\ LET v == NextVolume IN
     \/ /\ volume[v].head > 0
        /\ parts' = Append(parts, [volume |-> v, offset |-> volume[v].head, length |-> Packed(v), keyed |-> secret])
        /\ UNCHANGED <<pc, skipped>>
     \/ skipped' = skipped \cup {v} /\ UNCHANGED <<pc, parts>>
     \/ Reject /\ UNCHANGED <<parts, skipped>>
  /\ UNCHANGED <<volume, estimate, declared, secret, offsets, entry, opened>>

\* From the first header alone: fill volume after volume up to the declared size,
\* which a stored file cannot exceed the archive with.
reconcileStoreMethodSize ==
  IF Count = 1 THEN Packed(1) ELSE Min({declared, Total(Effective, DOMAIN volume)})

\* Pieces of the volumes from v on, from the given offset, until the size is reached;
\* nothing if the volumes end before, or one is over before its data starts.
Walk(start, offs, wanted) ==
  LET walk[v \in 1 .. Count + 1] ==
        IF v = 1 THEN [left |-> wanted, ranges |-> <<>>, ok |-> TRUE]
        ELSE LET b == walk[v - 1]  w == v - 1
                 off == IF w = 1 THEN start ELSE IF w \in DOMAIN offs THEN offs[w] ELSE 0
                 len == Min({b.left, Effective(w) - off})
             IN IF b.left = 0 \/ ~b.ok THEN b
                ELSE IF len <= 0 THEN [b EXCEPT !.ok = FALSE]
                ELSE [left |-> b.left - len, ranges |-> Append(b.ranges, Piece(w, off, len)), ok |-> TRUE]
      end == walk[Count + 1]
  IN IF end.ok /\ end.left = 0 THEN end.ranges ELSE <<>>

assignArchiveRanges ==
  [size |-> IF Count = 1 THEN declared ELSE reconcileStoreMethodSize,
   ranges |-> Walk(volume[1].head, offsets, reconcileStoreMethodSize), keyed |-> secret]

\* A plausible bug: the parts are taken as declared, whatever the volume holds.
M_Clamp(p) == p.length

\* From the header of every volume: its own part, as far as the volume goes.  The sum
\* of a stored file's parts is its size but for rounding, where the header wins.
\* What the first part knew of the key is not taken over.
Clamp(p) == Min({p.length, Effective(p.volume) - p.offset})
aggregateRARVolumeEntries ==
  LET rs == [i \in 1 .. Len(parts) |-> Piece(parts[i].volume, parts[i].offset, Clamp(parts[i]))]
      sum == Length(rs)
      close == declared - sum \in -Slack .. Slack
  IN [size |-> IF close THEN declared ELSE sum,
      ranges |-> IF close THEN [rs EXCEPT ![Len(rs)].length = @ + declared - sum] ELSE rs,
      keyed |-> FALSE]

hasCompleteArchiveMapping(e) == e.ranges # <<>> /\ \A i \in 1 .. Len(e.ranges) : e.ranges[i].length > 0

\* The parts are preferred when there is more than the first of them.
Choose ==
  /\ pc = "parts" /\ NextVolume > Count
  /\ entry' = IF Len(parts) > 1 THEN aggregateRARVolumeEntries ELSE assignArchiveRanges
  /\ IF hasCompleteArchiveMapping(entry') THEN pc' = "stored" ELSE Reject
  /\ UNCHANGED <<volume, estimate, declared, secret, offsets, parts, skipped, opened>>

-----------------------------------------------------------------------------
(* Opening the stored file, with what is known of the volumes' sizes by    *)
(* then.                                                                   *)

Clip(rs) == [i \in 1 .. Len(rs) |-> [rs[i] EXCEPT !.length = Max({0, Min({@, Effective(rs[i].volume) - rs[i].offset})})]]
truncateSpans(rs, size) ==
  LET kept[i \in 0 .. Len(rs)] ==
        IF i = 0 THEN <<>>
        ELSE LET room == size - Length(kept[i - 1]) IN
             IF room <= 0 THEN kept[i - 1] ELSE Append(kept[i - 1], [rs[i] EXCEPT !.length = Min({@, room})])
  IN kept[Len(rs)]

\* The stored pieces, cut to the file's size; where they fall short the volumes are
\* walked again, with what can be found of their starts and without.
loadStoredRarSpans(found) ==
  LET spans == Clip(entry.ranges)
      start == entry.ranges[1].offset
      rebuilt == Walk(start, found, entry.size)
      plain == Walk(start, [v \in {} |-> 0], entry.size)
  IN IF Length(spans) >= entry.size THEN truncateSpans(spans, entry.size)
     ELSE IF DOMAIN found # {} /\ rebuilt # <<>> THEN rebuilt
     ELSE IF plain # <<>> THEN plain
     ELSE <<Piece(1, start, Min({entry.size, Effective(1) - start}))>>

\* The last piece is measured, and shortened if its volume ends before it.
verifyLastSpanBoundary(rs) ==
  LET l == rs[Len(rs)] IN
  [rs EXCEPT ![Len(rs)].length = Max({0, Min({@, Size(l.volume) - l.offset})})]

OpenVirtualMediaFile ==
  /\ pc = "stored"
  /\ \E found \in SUBSET {v \in 2 .. Count : volume[v].head > 0}, probed \in BOOLEAN :
       LET rs == loadStoredRarSpans([v \in found |-> volume[v].head])
           spans == IF probed THEN verifyLastSpanBoundary(rs) ELSE rs
       IN opened' = [spans |-> spans, size |-> Length(spans), plain |-> secret => entry.keyed]
  /\ pc' = "open"
  /\ UNCHANGED <<volume, estimate, declared, secret, offsets, parts, skipped, entry>>

\* A calibration measures what was estimated; the file is opened anew.
Calibrate ==
  /\ pc = "open" /\ estimate # {}
  /\ \E v \in estimate : estimate' = estimate \ {v}
  /\ pc' = "stored"
  /\ UNCHANGED <<volume, declared, secret, offsets, parts, skipped, entry, opened>>

Next ==
  \/ inspectRARArchive \/ fetchContinuationOffsets \/ inspectVolume \/ Choose
  \/ OpenVirtualMediaFile \/ Calibrate

Spec == Init /\ [][Next]_layoutVars

-----------------------------------------------------------------------------
Prefixed(s, t) == \A i \in 1 .. Min({Len(s), Len(t)}) : s[i] = t[i]

\* A layout put together from the headers of all volumes is the file: its bytes are
\* the video's, in order, but for a rounding at the end.
LayoutIsTheFile ==
  (pc \in {"stored", "open"} /\ Len(parts) = Count /\ Count > 1) =>
    LET bytes == Bytes(entry.ranges) IN
    /\ Prefixed(bytes, Truth)
    /\ Len(bytes) - FileSize \in -Slack .. Slack

\* What is served of an encrypted file is decrypted.
CiphertextIsNotServed == opened.plain
=============================================================================
