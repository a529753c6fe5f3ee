------------------------------ MODULE FileCache ------------------------------
(***************************************************************************)
(* The disk cache of decoded articles (internal/cache/file_cache.go): a    *)
(* directory, and an index of it in memory that alone decides what is      *)
(* evicted.  The index is changed under c.mu and the directory is not, so  *)
(* a file and its index entry come and go in separate steps.               *)
(*                                                                         *)
(* Two Puts of one key do not overlap: the single flight of the caller     *)
(* (disk_cached_source.go) sees to that.  File operations do not fail but  *)
(* for the rename of a file that is gone.                                  *)
(***************************************************************************)
EXTENDS Integers, Sequences, FiniteSets, SequencesExt

CONSTANTS
  Workers,   \* goroutines that use the cache
  Keys,
  Size,      \* bytes of each key's value
  MaxBytes   \* the cache's budget

VARIABLES
  disk,    \* the files of the directory: <<key, "bin">>, or "tmp" while written
  order,   \* c.order, the indexed files from the least recently used
  seeded,  \* ensureSeeded has run in this process
  using    \* what each goroutine is doing

cacheVars == <<disk, order, seeded, using>>

Bin(k) == <<k, "bin">>
Tmp(k) == <<k, "tmp">>
Files == Keys \X {"bin", "tmp"}
Unused == [pc |-> "idle"]
Busy(k) == \E w \in Workers : using[w].pc # "idle" /\ using[w].key = k /\ using[w].op = "put"

\* A file being written counts with its whole size.
Bytes(files) == FoldSet(LAMBDA f, sum : sum + Size[f[1]], 0, files)
Indexed == Range(order)

TypeOK ==
  /\ disk \subseteq Files
  /\ order \in Seq(Files) /\ IsInjective(order)
  /\ seeded \in BOOLEAN
  /\ \A w \in Workers : using[w].pc \in {"idle", "rename", "index", "trim", "evict", "remove", "touch"}

Init ==
  /\ disk = {}
  /\ order = <<>>
  /\ seeded = FALSE
  /\ using = [w \in Workers |-> Unused]

-----------------------------------------------------------------------------
Without(f) == RemoveFirst(order, f)
MovedToBack(f) == Append(Without(f), f)
Goes(w, pc) == using' = [using EXCEPT ![w].pc = pc]
Done(w) == using' = [using EXCEPT ![w] = Unused]

\* Only finished files are indexed.
M_EnsureSeeded ==
  /\ ~ seeded
  /\ seeded' = TRUE
  /\ order' \in SetToSeqs({f \in disk : f[2] = "bin"})
  /\ UNCHANGED <<disk, using>>

\* The first use of the cache in a process indexes what an earlier process left,
\* oldest first, half-written files too.
EnsureSeeded ==
  /\ ~ seeded
  /\ seeded' = TRUE
  /\ order' \in SetToSeqs(disk)
  /\ UNCHANGED <<disk, using>>

\* Get: the file is read without the lock, and touched in the index afterwards.
Get(w, k) ==
  /\ seeded
  /\ using[w].pc = "idle"
  /\ Bin(k) \in disk
  /\ using' = [using EXCEPT ![w] = [pc |-> "touch", op |-> "get", key |-> k]]
  /\ UNCHANGED <<disk, order, seeded>>

Touch(w) ==
  /\ using[w].pc = "touch"
  /\ order' = IF Bin(using[w].key) \in Indexed THEN MovedToBack(Bin(using[w].key)) ELSE order
  /\ Done(w)
  /\ UNCHANGED <<disk, seeded>>

\* Put: write beside, rename, index, trim.
PutWrite(w, k) ==
  /\ seeded
  /\ using[w].pc = "idle"
  /\ ~ Busy(k)
  /\ disk' = disk \cup {Tmp(k)}
  /\ using' = [using EXCEPT ![w] = [pc |-> "rename", op |-> "put", key |-> k]]
  /\ UNCHANGED <<order, seeded>>

\* The half-written file may have been evicted meanwhile: an earlier process that died
\* can have left an entry for its name.
PutRename(w) ==
  /\ using[w].pc = "rename"
  /\ IF Tmp(using[w].key) \in disk
     THEN /\ disk' = (disk \ {Tmp(using[w].key)}) \cup {Bin(using[w].key)}
          /\ Goes(w, "index")
     ELSE /\ Done(w)
          /\ UNCHANGED disk
  /\ UNCHANGED <<order, seeded>>

M_PutIndex(w) ==
  /\ using[w].pc = "index"
  /\ order' = Append(order, Bin(using[w].key))
  /\ Goes(w, "trim")
  /\ UNCHANGED <<disk, seeded>>

PutIndex(w) ==
  /\ using[w].pc = "index"
  /\ order' = MovedToBack(Bin(using[w].key))
  /\ Goes(w, "trim")
  /\ UNCHANGED <<disk, seeded>>

\* Trim, one round: the victim leaves the index under the lock, its file after it.
TrimPick(w) ==
  /\ using[w].pc = "trim"
  /\ IF Bytes(Indexed) > MaxBytes /\ order # <<>>
     THEN /\ using' = [using EXCEPT ![w] = [pc |-> "evict", op |-> "put", key |-> @.key, victim |-> Head(order)]]
          /\ order' = Tail(order)
     ELSE /\ Done(w)
          /\ UNCHANGED order
  /\ UNCHANGED <<disk, seeded>>

TrimRemove(w) ==
  /\ using[w].pc = "evict"
  /\ disk' = disk \ {using[w].victim}
  /\ using' = [using EXCEPT ![w] = [pc |-> "trim", op |-> "put", key |-> @.key]]
  /\ UNCHANGED <<order, seeded>>

\* Remove: the index first, then the file.
RemoveIndex(w, k) ==
  /\ seeded
  /\ using[w].pc = "idle"
  /\ order' = Without(Bin(k))
  /\ using' = [using EXCEPT ![w] = [pc |-> "remove", op |-> "remove", key |-> k]]
  /\ UNCHANGED <<disk, seeded>>

RemoveFile(w) ==
  /\ using[w].pc = "remove"
  /\ disk' = disk \ {Bin(using[w].key)}
  /\ Done(w)
  /\ UNCHANGED <<order, seeded>>

\* The process ends at any point and leaves the directory as it is.
Restart ==
  /\ seeded
  /\ seeded' = FALSE
  /\ order' = <<>>
  /\ using' = [w \in Workers |-> Unused]
  /\ UNCHANGED disk

Next ==
  \/ EnsureSeeded
  \/ Restart
  \/ \E w \in Workers :
       \/ \E k \in Keys : Get(w, k) \/ PutWrite(w, k) \/ RemoveIndex(w, k)
       \/ Touch(w) \/ PutRename(w) \/ PutIndex(w) \/ TrimPick(w) \/ TrimRemove(w) \/ RemoveFile(w)

Spec == Init /\ [][Next]_cacheVars

-----------------------------------------------------------------------------
\* What lies in the directory is accounted for: a file that no goroutine is putting,
\* evicting or removing at this moment has its entry in the index, so the budget
\* binds the disk and nothing stays there for good, whatever evictions, removals and
\* rewrites of one key overlap and wherever the process dies.
NoOrphanFile ==
  seeded => \A f \in disk \ Indexed :
    \E w \in Workers :
      \/ using[w].pc \in {"rename", "index"} /\ using[w].key = f[1]
      \/ using[w].pc = "evict" /\ using[w].victim = f
      \/ using[w].pc = "remove" /\ Bin(using[w].key) = f

\* Why: what each goroutine holds, and the one that accounts for each file outside the
\* index: a finished file is being indexed, evicted or removed, a half-written one is
\* being renamed or evicted.
Holds(u, f) ==
  \/ u.pc = "rename" /\ f = Tmp(u.key)
  \/ u.pc = "index" /\ f = Bin(u.key)
  \/ u.pc = "evict" /\ f = u.victim
  \/ u.pc = "remove" /\ f = Bin(u.key)
Uses ==
  {Unused}
  \cup [pc : {"touch"}, op : {"get"}, key : Keys]
  \cup [pc : {"rename", "index", "trim"}, op : {"put"}, key : Keys]
  \cup [pc : {"evict"}, op : {"put"}, key : Keys, victim : Files]
  \cup [pc : {"remove"}, op : {"remove"}, key : Keys]
DiskInv ==
  /\ disk \subseteq Files /\ IsFiniteSet(disk)
  /\ order \in Seq(Files)
  /\ using \in [Workers -> Uses]
  /\ seeded => \A f \in disk \ Indexed : \E w \in Workers : Holds(using[w], f)
=============================================================================
